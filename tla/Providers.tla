------------------------------ MODULE Providers -------------------------------
(***************************************************************************)
(* Providers whose callers, children, signals and threads meet, one per    *)
(* behaviour: child processes of Linux (LinuxProcesses), requests from     *)
(* outside (Notifications), faults of the CPU (Faults), and the threads    *)
(* and objects of the bare-metal port (BareMetal).                         *)
(***************************************************************************)
EXTENDS LinuxProcesses, Notifications, Faults, BareMetal, TLC

VARIABLE side    \* the provider of this behaviour

all == <<side, vars, notifications, cpu, bare>>

-----------------------------------------------------------------------------
User == [user |-> 1, group |-> 1, groups |-> {1}, failed |-> FALSE]
Root == [user |-> 0, group |-> 0, groups |-> {0}, failed |-> FALSE]
Plain == [as |-> FALSE, pipes |-> 1, wanted |-> [user |-> 1, group |-> 1, groups |-> {}]]
As(groups) == [as |-> TRUE, pipes |-> 0, wanted |-> [user |-> 1, group |-> 1, groups |-> groups]]
Plan(first, second, by, reaps, n) ==
    [request |-> "t1" :> first @@ "t2" :> second, parent |-> by, reaper |-> reaps, calls |-> n]
\* A plan of nothing, of the behaviours of the others.
NoPlan == Plan(NoRequest, NoRequest, Root, FALSE, 0)
\* Two launches under other identities at once, by a user or by root; the calls of
\* two threads on one child, with and without another reaper; a fork with one.
LaunchPlans ==
    {Plan(As({1, 2}), As({}), by, FALSE, 2) : by \in {User, Root}}
        \union {Plan(Plain, NoRequest, Root, reaps, 4) : reaps \in BOOLEAN}
        \union {Plan(As({1, 2}), NoRequest, Root, TRUE, 2), NoPlan}

\* Calls about a request that ends the process, and about one that does not with a
\* provider that may fail.
NoUse == [kinds |-> {}, calls |-> 0, fallible |-> FALSE]
RequestUses ==
    {[kinds |-> {"TERMINATE"}, calls |-> 4, fallible |-> FALSE], [kinds |-> {"CONTINUE"}, calls |-> 3, fallible |-> TRUE], NoUse}

Sides == {"processes", "requests", "faults", "events", "mutexes", "rwlocks", "keys"}
ProvidersInit ==
    /\ side \in Sides
    /\ Init /\ (side = "processes") = (left > 0)
    /\ NotificationsInit /\ (side = "requests") = (n_left > 0)
    /\ FaultsInit /\ (side # "faults" => f_action \in [DOMAIN f_action -> {"default"}])
    /\ BareInit

Steps ==
    \/ ThreadSteps \/ \E i \in Indices : Tick(i)
    \/ side = "events" /\ EventSteps
    \/ side = "mutexes" /\ MutexSteps
    \/ side = "rwlocks" /\ (RwLockSteps \/ SleepSteps)
    \/ side = "keys" /\ KeySteps
BareSides == {"events", "mutexes", "rwlocks", "keys"}

ProcessesStep(step) == side = "processes" /\ step /\ UNCHANGED <<side, notifications, cpu, bare>>
NotificationsStep(step) == side = "requests" /\ step /\ UNCHANGED <<side, n_fixed, vars, cpu, bare>>
FaultsStep(step) == side = "faults" /\ step /\ UNCHANGED <<side, vars, notifications, bare>>
BareStep(step) == side \in BareSides /\ step /\ UNCHANGED <<side, vars, notifications, cpu>>

ProvidersNext ==
    \/ ProcessesStep(Next)
    \/ NotificationsStep(NotificationsNext)
    \/ FaultsStep(FaultsNext)
    \/ BareStep(Steps)

\* Each provider's fairness, one condition standing for one of each: only those of
\* the side that moves are ever enabled.
InsideCall(t) ==
    ProcessesStep(Inside(t)) \/ NotificationsStep(InsideRequests(t)) \/ FaultsStep(InsideFaults(t))
Handler == NotificationsStep(\E k \in using : on_signal(k)) \/ FaultsStep(Handling)
Reader == NotificationsStep(Dispatch) \/ BareStep(Polls)
ReaderInside == NotificationsStep(InsideRequests(Dispatcher))
Yielding(i) == BareStep(Yields(i))
Ticks(i) == BareStep(Tick(i))
ProvidersSpec ==
    /\ ProvidersInit /\ [][ProvidersNext]_all
    /\ \A t \in Threads : WF_all(InsideCall(t))
    /\ \A p \in Pids : WF_all(ProcessesStep(become_program(p)))
    /\ WF_all(Handler) /\ WF_all(Reader) /\ WF_all(ReaderInside)
    /\ \A i \in Indices : WF_all(Ticks(i)) /\ WF_all(Yielding(i))

-----------------------------------------------------------------------------
\* The state of the one that moves is of its type.
ProvidersTypeOK == NotificationsTypeOK /\ FaultsTypeOK /\ BareTypeOK

\* Whatever has begun ends: a launch, a wait for an ended child, a report from the
\* pipe, a fault, a poll for something that has come about.
ProvidersEnd ==
    /\ \A t \in Threads :
         []<>/\ pc[t] = "idle" \/ (pc[t] \in {"wait", "poll"} /\ code[target[t]] = NULL)
             /\ ended \/ (pipe = <<>> /\ kinds = <<>>)
             /\ at = "run" \/ fate # NULL
    /\ PollsEnd
=============================================================================
