------------------------------- MODULE Faults --------------------------------
(***************************************************************************)
(* Faults of the CPU: the front end (src/src/faults.rs) over the provider  *)
(* on POSIX signals (crates/dotnet-pal-linux-std/src/faults.rs).  Threads  *)
(* install a handler while another thread runs into faults, or is sent     *)
(* the signals of faults, at any moment.                                   *)
(*                                                                         *)
(* The actions are taken signal by signal under a lock that the handler of *)
(* a signal never takes.                                                   *)
(***************************************************************************)
EXTENDS Threads, Sequences

CONSTANTS
    INSTALLS,   \* installs the threads make
    FAULTS      \* faults of the other thread

FAULT_SIGNALS == <<"SEGV", "FPE">>
Signals == {FAULT_SIGNALS[i] : i \in DOMAIN FAULT_SIGNALS}

VARIABLES
    f_state, f_HANDLER, f_DATA,      \* of the front end
    ARMED, f_PREVIOUS,               \* of the provider: the flag, the earlier actions
    lock,       \* who holds the lock of ARMED
    f_action,   \* what the kernel does with a signal: "default", "foreign" or "ours"
    earlier,    \* what it did at first
    f_pc, f_index, \* where each installer is
    f_left,     \* installs to come
    at,         \* where the faulting thread is
    fault,      \* its fault: [signal, sent, caught, handler, inside]
    faults,     \* faults so far
    f_heard,    \* handler and data of the last report
    fate        \* what took the fault nobody resumed

f_front == <<f_state, f_HANDLER, f_DATA>>
installing == <<ARMED, lock, f_pc, f_index, f_left>>
cpu == <<f_front, installing, f_PREVIOUS, f_action, earlier, at, fault, faults, f_heard, fate>>

NoFault == [signal |-> NULL, sent |-> FALSE, caught |-> FALSE, handler |-> NULL, inside |-> FALSE]
FaultsInit ==
    /\ f_state = 0 /\ f_HANDLER = NULL /\ f_DATA = NULL
    /\ ARMED = FALSE /\ lock = NULL /\ f_PREVIOUS = [s \in Signals |-> "default"]
    /\ earlier \in [Signals -> {"default", "foreign"}] /\ f_action = earlier
    /\ f_pc = [t \in Threads |-> "idle"] /\ f_index = [t \in Threads |-> 1] /\ f_left = INSTALLS
    /\ at = "run" /\ fault = NoFault /\ faults = 0 /\ f_heard = <<>> /\ fate = NULL

-----------------------------------------------------------------------------
f_goto(t, label) == f_pc' = [f_pc EXCEPT ![t] = label]
advance(t, label, i) == f_goto(t, label) /\ f_index' = [f_index EXCEPT ![t] = i]

faults_install(t) ==
    /\ fate = NULL /\ f_pc[t] = "idle" /\ f_left > 0 /\ f_left' = f_left - 1
    /\ f_goto(t, IF f_state = 0 THEN "data" ELSE "idle")
    /\ f_state' = IF f_state = 0 THEN 1 ELSE f_state
    /\ UNCHANGED <<f_HANDLER, f_DATA, ARMED, lock, f_index, f_PREVIOUS, f_action, earlier, at, fault, faults, f_heard, fate>>
faults_install_data(t) ==
    /\ f_pc[t] = "data" /\ f_DATA' = t /\ f_goto(t, "handler")
    /\ UNCHANGED <<f_state, f_HANDLER, ARMED, lock, f_index, f_left, f_PREVIOUS, f_action, earlier, at, fault, faults, f_heard, fate>>
faults_install_handler(t) ==
    /\ f_pc[t] = "handler" /\ f_HANDLER' = t /\ f_goto(t, "enable")
    /\ UNCHANGED <<f_state, f_DATA, ARMED, lock, f_index, f_left, f_PREVIOUS, f_action, earlier, at, fault, faults, f_heard, fate>>
\* HANDLER first, so that nobody can have installed another in between.
faults_install_undo(t) ==
    /\ f_pc[t] = "undo" /\ f_HANDLER' = NULL /\ f_goto(t, "release")
    /\ UNCHANGED <<f_state, f_DATA, ARMED, lock, f_index, f_left, f_PREVIOUS, f_action, earlier, at, fault, faults, f_heard, fate>>
faults_install_publish(t) ==
    /\ f_pc[t] \in {"release", "publish"} /\ f_goto(t, "idle")
    /\ f_state' = IF f_pc[t] = "publish" THEN 2 ELSE 0
    /\ UNCHANGED <<f_HANDLER, f_DATA, ARMED, lock, f_index, f_left, f_PREVIOUS, f_action, earlier, at, fault, faults, f_heard, fate>>

faults_enable(t) ==
    /\ f_pc[t] = "enable" /\ lock = NULL
    /\ IF ARMED THEN f_goto(t, "publish") /\ UNCHANGED <<lock, f_index>>
       ELSE lock' = t /\ advance(t, "previous", 1)
    /\ UNCHANGED <<f_front, ARMED, f_left, f_PREVIOUS, f_action, earlier, at, fault, faults, f_heard, fate>>
\* The slot of a signal is written before its handler is there.
enable_previous(t) ==
    /\ f_pc[t] = "previous"
    /\ \/ /\ f_PREVIOUS' = [f_PREVIOUS EXCEPT ![FAULT_SIGNALS[f_index[t]]] = f_action[FAULT_SIGNALS[f_index[t]]]]
          /\ f_goto(t, "action")
       \/ f_goto(t, "failed") /\ UNCHANGED f_PREVIOUS
    /\ UNCHANGED <<f_front, ARMED, lock, f_index, f_left, f_action, earlier, at, fault, faults, f_heard, fate>>
enable_action(t) ==
    /\ f_pc[t] = "action"
    /\ \/ /\ f_action' = [f_action EXCEPT ![FAULT_SIGNALS[f_index[t]]] = "ours"]
          /\ IF f_index[t] < Len(FAULT_SIGNALS) THEN advance(t, "previous", f_index[t] + 1) /\ UNCHANGED <<ARMED, lock>>
             ELSE advance(t, "publish", 1) /\ ARMED' = TRUE /\ lock' = NULL
       \/ f_goto(t, "failed") /\ UNCHANGED <<f_action, f_index, ARMED, lock>>
    /\ UNCHANGED <<f_front, f_left, f_PREVIOUS, earlier, at, fault, faults, f_heard, fate>>
\* How many of the signals go back when the one at i could not be taken.
undone(i) == i - 1
faults_enable_failed(t) ==
    /\ f_pc[t] = "failed" /\ lock' = NULL /\ advance(t, "undo", 1)
    /\ f_action' = [s \in Signals |-> IF \E i \in 1..undone(f_index[t]) : FAULT_SIGNALS[i] = s THEN f_PREVIOUS[s] ELSE f_action[s]]
    /\ UNCHANGED <<f_front, ARMED, f_left, f_PREVIOUS, earlier, at, fault, faults, f_heard, fate>>

-----------------------------------------------------------------------------
\* The kernel delivers a fault, or a signal somebody sent.
take(f) ==
    IF f_action[f.signal] = "ours" THEN at' = "report" /\ fault' = [f EXCEPT !.caught = TRUE] /\ UNCHANGED fate
    ELSE fate' = f_action[f.signal] /\ fault' = f /\ UNCHANGED at
Fault(s, sent) ==
    /\ fate = NULL /\ at = "run" /\ faults < FAULTS /\ faults' = faults + 1
    /\ take([NoFault EXCEPT !.signal = s, !.sent = sent])
    /\ UNCHANGED <<f_front, installing, f_PREVIOUS, f_action, earlier, f_heard>>
\* `report`, up to the load of the handler in `deliver`.
faults_report ==
    /\ fate = NULL /\ at = "report"
    /\ at' = IF fault.sent THEN "sent" ELSE IF f_HANDLER = NULL THEN "declined" ELSE "call"
    /\ fault' = [fault EXCEPT !.handler = f_HANDLER]
    /\ UNCHANGED <<f_front, installing, f_PREVIOUS, f_action, earlier, faults, f_heard, fate>>
\* The handler resumes, or does not.  With RESUME the edited frame goes back and
\* the thread runs on.  A fault inside the handler is blocked: the kernel ends the
\* process.
faults_deliver ==
    /\ fate = NULL /\ at = "call" /\ f_heard' = <<fault.handler, f_DATA>>
    /\ \/ at' = "run" /\ fault' = NoFault /\ UNCHANGED fate
       \/ at' = "declined" /\ UNCHANGED <<fault, fate>>
       \/ fate' = "default" /\ fault' = [fault EXCEPT !.inside = TRUE] /\ UNCHANGED at
    /\ UNCHANGED <<f_front, installing, f_PREVIOUS, f_action, earlier, faults>>
\* Mutant: a declined fault gets the default action.
restored_Default(s) == "default"
restored(s) == f_PREVIOUS[s]
\* The earlier action is back and the instruction runs again.
on_signal_declined ==
    /\ fate = NULL /\ at = "declined" /\ at' = "again"
    /\ f_action' = [f_action EXCEPT ![fault.signal] = restored(fault.signal)]
    /\ UNCHANGED <<f_front, installing, f_PREVIOUS, earlier, fault, faults, f_heard, fate>>
again ==
    /\ fate = NULL /\ at = "again" /\ take(fault)
    /\ UNCHANGED <<f_front, installing, f_PREVIOUS, f_action, earlier, faults, f_heard>>
on_signal_sent ==
    /\ fate = NULL /\ at = "sent"
    /\ f_action' = [f_action EXCEPT ![fault.signal] = "default"] /\ fate' = "default"
    /\ UNCHANGED <<f_front, installing, f_PREVIOUS, earlier, at, fault, faults, f_heard>>

InsideFaults(t) ==
    /\ fate = NULL
    /\ \/ faults_install_data(t) \/ faults_install_handler(t) \/ faults_install_undo(t) \/ faults_install_publish(t)
       \/ faults_enable(t) \/ enable_previous(t) \/ enable_action(t) \/ faults_enable_failed(t)
Handling == faults_report \/ faults_deliver \/ on_signal_declined \/ again \/ on_signal_sent
FaultsNext ==
    \/ \E t \in Threads : faults_install(t) \/ InsideFaults(t)
    \/ \E s \in Signals, sent \in BOOLEAN : Fault(s, sent)
    \/ Handling
FaultsFairness == WF_cpu(Handling) /\ \A t \in Threads : WF_cpu(InsideFaults(t))
FaultsSpec == FaultsInit /\ [][FaultsNext]_cpu /\ FaultsFairness

-----------------------------------------------------------------------------
FaultsTypeOK ==
    /\ f_state \in 0..2 /\ f_HANDLER \in Threads \union {NULL} /\ ARMED \in BOOLEAN
    /\ f_action \in [Signals -> {"default", "foreign", "ours"}] /\ f_PREVIOUS \in [Signals -> {"default", "foreign", "ours"}]
    /\ at \in {"run", "report", "call", "declined", "again", "sent"}
    /\ (lock # NULL => f_pc[lock] \in {"previous", "action", "failed"})

\* A fault that nobody resumes ends as it would without the provider: what takes
\* it is the action its signal had before any install, succeeded or failed, and a
\* signal that was sent and caught is never swallowed by an earlier handler
\* (linux-std/src/faults.rs: "the process ends the way it would have without this
\* provider").
EndsAsWithout ==
    fate # NULL /\ ~fault.inside =>
        fate = IF fault.sent /\ fault.caught THEN "default" ELSE earlier[fault.signal]

\* What the actions of the signals stand on.  While the process lives, a signal has
\* its earlier action or ours; ours is there only with the earlier action in its
\* slot, and before ARMED only for the signals the holder of the lock has passed.
\* What a caught fault finds in the slot is therefore the earlier action, however
\* many installs fail and begin again in between.
Arming == {"previous", "action", "failed"}
Kept(s) == f_PREVIOUS[s] = earlier[s]
Faulted ==
    [signal : Signals \union {NULL}, sent : BOOLEAN, caught : BOOLEAN, handler : Threads \union {NULL}, inside : BOOLEAN]
FaultsTyped ==
    /\ f_pc \in [Threads -> Arming \union {"idle", "data", "handler", "enable", "undo", "release", "publish"}]
    /\ f_index \in [Threads -> DOMAIN FAULT_SIGNALS] /\ ARMED \in BOOLEAN /\ lock \in Threads \union {NULL}
    /\ f_action \in [Signals -> {"default", "foreign", "ours"}] /\ earlier \in [Signals -> {"default", "foreign"}]
    /\ f_PREVIOUS \in [Signals -> {"default", "foreign", "ours"}] /\ f_HANDLER \in Threads \union {NULL}
    /\ at \in {"run", "report", "call", "declined", "again", "sent"}
    /\ fault \in Faulted
LockIsHeld ==
    /\ \A t \in Threads : f_pc[t] \in Arming <=> lock = t
    /\ ARMED => lock = NULL
FaultIsCaught ==
    /\ at # "run" => fault.caught /\ fault.signal \in Signals
    /\ at = "sent" => fault.sent
    /\ at \in {"call", "declined", "again"} => ~fault.sent
ActionsAreKept ==
    fate = NULL =>
        /\ \A s \in Signals : f_action[s] \in {earlier[s], "ours"}
        /\ \A i \in DOMAIN FAULT_SIGNALS : f_action[FAULT_SIGNALS[i]] = "ours" =>
             Kept(FAULT_SIGNALS[i]) /\ (~ARMED => lock # NULL /\ i < f_index[lock])
        /\ \A t \in Threads, i \in DOMAIN FAULT_SIGNALS :
             (f_pc[t] \in Arming /\ i < f_index[t]) \/ (f_pc[t] = "action" /\ i = f_index[t]) => Kept(FAULT_SIGNALS[i])
        /\ at # "run" => Kept(fault.signal)

\* A fault sees the handler with its own data or no handler
\* (src/src/faults.rs:133).
FaultHandlerHasItsData == f_heard = <<>> \/ f_heard[1] = f_heard[2]

\* A fault never spins: it is resumed, or ends the process.
FaultsEnd == []<>(at = "run" \/ fate # NULL)
=============================================================================
