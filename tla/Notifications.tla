--------------------------- MODULE Notifications ----------------------------
(***************************************************************************)
(* Requests from outside the process: the front end (src/src/              *)
(* notifications.rs) over the Linux provider (linux_notifications.rs).     *)
(* Threads of the consumer install, enable, disable and ask for the        *)
(* default action at any moment; signals come at any moment; the signal    *)
(* handler writes to a pipe and the dispatcher of the provider reads it    *)
(* and calls the consumer, whose handler may use the boundary again.       *)
(*                                                                         *)
(* A section under LOCK is one step; what happens between the sections,    *)
(* between the atomics and around the raise is not.                        *)
(***************************************************************************)
EXTENDS Threads, Sequences

CONSTANTS
    Kinds,      \* kinds of requests
    Uses,       \* what may happen: [kinds, calls, fallible], the kinds in use, the calls
                \* the threads make and whether the provider's enable may fail
    SIGNALS,    \* signals that are sent
    PIPE        \* bytes the pipe holds

ASSUME UsesOfKinds == \A use \in Uses : use.kinds \subseteq Kinds /\ use.fallible \in BOOLEAN

Dispatcher == "dispatcher"
Callers == Threads \union {Dispatcher}
ASSUME DispatcherIsNoThread == Dispatcher \notin Threads
\* The kernel ignores these unless somebody handles them.
Quiet == {"CONTINUE", "WINDOW_CHANGE"}

VARIABLES
    using, fallible,                            \* of this behaviour
    n_state, n_HANDLER, n_DATA, enabled_kinds,  \* of the front end
    INSTALLED, n_PREVIOUS, WRITE_END, LOCK,     \* of the provider
    n_action,   \* what the kernel does with a signal: "default", "ignore", "foreign" or "ours"
    n_earlier,  \* what it did before the provider
    caught,     \* signals whose handler runs and has not written yet
    pipe,       \* kinds in the pipe
    kinds,      \* kinds the dispatcher has read and not handled
    n_pc,       \* where each caller is
    call,       \* its call: kind, whether the bit was set before, whether nobody disabled since
    n_left,     \* calls the threads may still make
    sent,       \* signals sent
    wants,      \* kinds whose last enable returned OK, nobody having disabled them
    n_heard,    \* handler and data of the last report
    ended       \* whether a default action ended the process

n_front == <<n_state, n_HANDLER, n_DATA, enabled_kinds>>
provider == <<INSTALLED, n_PREVIOUS, WRITE_END, LOCK>>
n_kernel == <<n_action, n_earlier, caught, pipe, sent, ended>>
n_fixed == <<using, fallible>>
notifications == <<n_fixed, n_front, provider, n_kernel, kinds, n_pc, call, n_left, wants, n_heard>>

NoCall == [kind |-> NULL, before |-> FALSE, clean |-> FALSE, handler |-> NULL]
NotificationsInit ==
    /\ \E use \in Uses : using = use.kinds /\ fallible = use.fallible /\ n_left = use.calls
    /\ n_state = 0 /\ n_HANDLER = NULL /\ n_DATA = NULL /\ enabled_kinds = {}
    /\ INSTALLED = {} /\ n_PREVIOUS = [k \in Kinds |-> "default"] /\ WRITE_END = FALSE /\ LOCK = NULL
    /\ n_action \in [Kinds -> {"default", "ignore", "foreign"}] /\ n_earlier = n_action
    /\ \A k \in Kinds : k \in Quiet \/ k \notin using => n_action[k] = "default"
    /\ caught = [k \in Kinds |-> 0] /\ pipe = <<>> /\ sent = 0 /\ ended = FALSE
    /\ kinds = <<>> /\ n_pc = [t \in Callers |-> IF t = Dispatcher THEN "none" ELSE "idle"]
    /\ call = [t \in Callers |-> NoCall]
    /\ wants = {} /\ n_heard = <<>>

-----------------------------------------------------------------------------
n_goto(t, label) == n_pc' = [n_pc EXCEPT ![t] = label]
\* A call that ends: the consumer's thread is free, or the dispatcher is through
\* with the kind, the handler having returned.
return(t) == n_goto(t, IF t = Dispatcher THEN "next" ELSE "idle")

\* A thread makes a call, or the handler on the dispatcher does before it returns.
n_begin(t, label, k) ==
    /\ ~ended
    /\ IF t = Dispatcher THEN n_pc[t] = "handler" /\ label \in {"disable_port", "default"} /\ UNCHANGED n_left
       ELSE n_pc[t] = "idle" /\ n_left > 0 /\ n_left' = n_left - 1
    /\ n_goto(t, label)

install(t) ==
    /\ t \in Threads /\ n_begin(t, IF n_state = 0 THEN "data" ELSE "idle", NULL)
    /\ n_state' = IF n_state = 0 THEN 1 ELSE n_state
    /\ UNCHANGED <<n_HANDLER, n_DATA, enabled_kinds, provider, n_kernel, kinds, call, wants, n_heard>>
install_data(t) ==
    /\ n_pc[t] = "data" /\ n_DATA' = t /\ n_goto(t, "handler_store")
    /\ UNCHANGED <<n_state, n_HANDLER, enabled_kinds, provider, n_kernel, kinds, call, n_left, wants, n_heard>>
install_handler(t) ==
    /\ n_pc[t] = "handler_store" /\ n_HANDLER' = t /\ n_goto(t, "start")
    /\ UNCHANGED <<n_state, n_DATA, enabled_kinds, provider, n_kernel, kinds, call, n_left, wants, n_heard>>
\* The pipe and the dispatcher: both or none.
notifications_start(t) ==
    /\ n_pc[t] = "start"
    /\ \/ /\ WRITE_END' = TRUE
          /\ n_pc' = [n_pc EXCEPT ![t] = "publish", ![Dispatcher] = "read"]
       \/ WRITE_END' = FALSE /\ n_goto(t, "undo")
    /\ UNCHANGED <<n_front, INSTALLED, n_PREVIOUS, LOCK, n_kernel, kinds, call, n_left, wants, n_heard>>
install_undo(t) ==
    /\ n_pc[t] = "undo" /\ n_HANDLER' = NULL /\ n_state' = 0 /\ n_goto(t, "idle")
    /\ UNCHANGED <<n_DATA, enabled_kinds, provider, n_kernel, kinds, call, n_left, wants, n_heard>>
install_publish(t) ==
    /\ n_pc[t] = "publish" /\ n_state' = 2 /\ n_goto(t, "idle")
    /\ UNCHANGED <<n_HANDLER, n_DATA, enabled_kinds, provider, n_kernel, kinds, call, n_left, wants, n_heard>>

-----------------------------------------------------------------------------
Disabling(k) == \E t \in Callers : n_pc[t] = "disable_port" /\ call[t].kind = k

\* The bit is set before the port is asked.
enable(t, k) ==
    /\ t \in Threads /\ n_state = 2 /\ n_begin(t, "enable_port", k)
    /\ call' = [call EXCEPT ![t] = [NoCall EXCEPT !.kind = k, !.before = k \in enabled_kinds, !.clean = ~Disabling(k)]]
    /\ enabled_kinds' = enabled_kinds \union {k}
    /\ UNCHANGED <<n_state, n_HANDLER, n_DATA, provider, n_kernel, kinds, wants, n_heard>>
\* Mutant: the action a signal had is taken to be the default one.
remember_Default(k) == "default"
remember(k) == n_action[k]
\* The previous action is remembered once.
enable_port(t) ==
    LET k == call[t].kind
    IN /\ n_pc[t] = "enable_port" /\ LOCK = NULL /\ WRITE_END
       /\ \/ /\ n_goto(t, "enabled")
             /\ IF k \in INSTALLED THEN UNCHANGED <<INSTALLED, n_PREVIOUS, n_action>>
                ELSE /\ n_PREVIOUS' = [n_PREVIOUS EXCEPT ![k] = remember(k)]
                     /\ n_action' = [n_action EXCEPT ![k] = "ours"]
                     /\ INSTALLED' = INSTALLED \union {k}
          \/ fallible /\ n_goto(t, "not_enabled") /\ UNCHANGED <<INSTALLED, n_PREVIOUS, n_action>>
       /\ UNCHANGED <<n_front, WRITE_END, LOCK, n_earlier, caught, pipe, sent, ended, kinds, call, n_left, wants, n_heard>>
enable_ok(t) ==
    /\ n_pc[t] = "enabled" /\ return(t)
    /\ wants' = IF call[t].clean THEN wants \union {call[t].kind} ELSE wants
    /\ UNCHANGED <<n_front, provider, n_kernel, kinds, call, n_left, n_heard>>
enable_failed(t) ==
    /\ n_pc[t] = "not_enabled" /\ return(t)
    /\ enabled_kinds' = IF call[t].before THEN enabled_kinds ELSE enabled_kinds \ {call[t].kind}
    /\ UNCHANGED <<n_state, n_HANDLER, n_DATA, provider, n_kernel, kinds, call, n_left, wants, n_heard>>

\* The bit is cleared before the port is asked.
disable(t, k) ==
    /\ n_state = 2 /\ n_begin(t, "disable_port", k)
    /\ call' = [u \in Callers |-> IF u = t THEN [call[u] EXCEPT !.kind = k]
                                  ELSE IF call[u].kind = k THEN [call[u] EXCEPT !.clean = FALSE] ELSE call[u]]
    /\ enabled_kinds' = enabled_kinds \ {k} /\ wants' = wants \ {k}
    /\ UNCHANGED <<n_state, n_HANDLER, n_DATA, provider, n_kernel, kinds, n_heard>>
disable_port(t) ==
    LET k == call[t].kind
    IN /\ n_pc[t] = "disable_port" /\ LOCK = NULL /\ return(t)
       /\ INSTALLED' = INSTALLED \ {k}
       /\ n_action' = IF k \in INSTALLED THEN [n_action EXCEPT ![k] = n_PREVIOUS[k]] ELSE n_action
       /\ UNCHANGED <<n_front, n_PREVIOUS, WRITE_END, LOCK, n_earlier, caught, pipe, sent, ended, kinds, call, n_left, wants, n_heard>>

\* The earlier action is put in place, the signal raised, and ours put back, under
\* the lock throughout.
default_action(t, k) ==
    /\ n_begin(t, "default", k)
    /\ call' = [call EXCEPT ![t].kind = k]
    /\ UNCHANGED <<n_front, provider, n_kernel, kinds, wants, n_heard>>
default_restore(t) ==
    LET k == call[t].kind
    IN /\ n_pc[t] = "default"
       /\ IF k \in Quiet THEN return(t) /\ UNCHANGED <<LOCK, n_action>>
          ELSE /\ LOCK = NULL
               /\ IF k \in INSTALLED /\ n_PREVIOUS[k] = "ignore" THEN return(t) /\ UNCHANGED <<LOCK, n_action>>
                  ELSE /\ LOCK' = t /\ n_goto(t, "raise")
                       /\ n_action' = IF k \in INSTALLED THEN [n_action EXCEPT ![k] = n_PREVIOUS[k]] ELSE n_action
       /\ UNCHANGED <<n_front, INSTALLED, n_PREVIOUS, WRITE_END, n_earlier, caught, pipe, sent, ended, kinds, call, n_left, wants, n_heard>>
\* What a signal does that is not ours.
Ends(k) == n_action[k] = "default" /\ k = "TERMINATE"
default_raise(t) ==
    LET k == call[t].kind
    IN /\ n_pc[t] = "raise" /\ return(t)
       /\ ended' = (ended \/ Ends(k))
       /\ n_action' = IF k \in INSTALLED THEN [n_action EXCEPT ![k] = "ours"] ELSE n_action
       /\ LOCK' = NULL
       /\ UNCHANGED <<n_front, INSTALLED, n_PREVIOUS, WRITE_END, n_earlier, caught, pipe, sent, kinds, call, n_left, wants, n_heard>>

-----------------------------------------------------------------------------
\* A signal is sent and the kernel acts on it.
SendSignal(k) ==
    /\ ~ended /\ sent < SIGNALS /\ sent' = sent + 1
    /\ IF n_action[k] = "ours" THEN caught' = [caught EXCEPT ![k] = @ + 1] /\ UNCHANGED ended
       ELSE ended' = Ends(k) /\ UNCHANGED caught
    /\ UNCHANGED <<n_front, provider, n_action, n_earlier, pipe, kinds, n_pc, call, n_left, wants, n_heard>>
\* The write end does not block: with a full pipe the report is dropped.
on_signal(k) ==
    /\ ~ended /\ caught[k] > 0 /\ caught' = [caught EXCEPT ![k] = @ - 1]
    /\ pipe' = IF WRITE_END /\ Len(pipe) < PIPE THEN Append(pipe, k) ELSE pipe
    /\ UNCHANGED <<n_front, provider, n_action, n_earlier, sent, ended, kinds, n_pc, call, n_left, wants, n_heard>>

\* The loop of the dispatcher, with `deliver` inlined.
dispatcher_read ==
    /\ ~ended /\ n_pc[Dispatcher] = "read" /\ pipe # <<>>
    /\ kinds' = pipe /\ pipe' = <<>> /\ n_goto(Dispatcher, "deliver")
    /\ UNCHANGED <<n_front, provider, n_action, n_earlier, caught, sent, ended, call, n_left, wants, n_heard>>
deliver ==
    /\ ~ended /\ n_pc[Dispatcher] = "deliver"
    /\ LET k == Head(kinds)
           wanted == n_HANDLER # NULL /\ k \in enabled_kinds
       IN /\ call' = [call EXCEPT ![Dispatcher] =
                        [NoCall EXCEPT !.kind = k, !.handler = IF wanted THEN n_HANDLER ELSE NULL]]
          /\ n_goto(Dispatcher, IF wanted THEN "call" ELSE "default")
    /\ UNCHANGED <<n_front, provider, n_kernel, kinds, n_left, wants, n_heard>>
deliver_call ==
    /\ ~ended /\ n_pc[Dispatcher] = "call"
    /\ n_heard' = <<call[Dispatcher].handler, n_DATA>> /\ n_goto(Dispatcher, "handler")
    /\ UNCHANGED <<n_front, provider, n_kernel, kinds, call, n_left, wants>>
handler_returns ==
    /\ ~ended /\ n_pc[Dispatcher] = "handler" /\ n_goto(Dispatcher, "next")
    /\ UNCHANGED <<n_front, provider, n_kernel, kinds, call, n_left, wants, n_heard>>
dispatcher_next ==
    /\ ~ended /\ n_pc[Dispatcher] = "next"
    /\ kinds' = Tail(kinds) /\ n_goto(Dispatcher, IF Len(kinds) > 1 THEN "deliver" ELSE "read")
    /\ UNCHANGED <<n_front, provider, n_kernel, call, n_left, wants, n_heard>>

\* The steps of a call that has begun, of the dispatcher and of the signal handler.
InsideRequests(t) ==
    /\ ~ended
    /\ \/ install_data(t) \/ install_handler(t) \/ notifications_start(t) \/ install_undo(t) \/ install_publish(t)
       \/ enable_port(t) \/ enable_ok(t) \/ enable_failed(t)
       \/ disable_port(t) \/ default_restore(t) \/ default_raise(t)
Dispatch == dispatcher_read \/ deliver \/ deliver_call \/ handler_returns \/ dispatcher_next

NotificationsNext ==
    /\ UNCHANGED n_fixed
    /\ \/ \E t \in Threads : install(t)
       \/ \E t \in Callers, k \in using : enable(t, k) \/ disable(t, k) \/ default_action(t, k)
       \/ \E t \in Callers : InsideRequests(t)
       \/ \E k \in using : SendSignal(k) \/ on_signal(k)
       \/ Dispatch

NotificationsFairness ==
    /\ \A t \in Callers : WF_notifications(InsideRequests(t))
    /\ WF_notifications(Dispatch)
    /\ \A k \in Kinds : WF_notifications(on_signal(k))
NotificationsSpec == NotificationsInit /\ [][NotificationsNext]_notifications /\ NotificationsFairness

-----------------------------------------------------------------------------
Raising(k) == \E t \in Callers : n_pc[t] = "raise" /\ call[t].kind = k
NotificationsTypeOK ==
    /\ n_state \in 0..2 /\ n_HANDLER \in Threads \union {NULL} /\ enabled_kinds \subseteq Kinds /\ INSTALLED \subseteq Kinds
    /\ LOCK \in Callers \union {NULL} /\ n_action \in [Kinds -> {"default", "ignore", "foreign", "ours"}]
    /\ Len(pipe) <= PIPE /\ sent \in 0..SIGNALS /\ (LOCK # NULL => n_pc[LOCK] = "raise")

\* The action a signal had before the provider is never lost and never taken for
\* ours: it is in place whenever the kind is not installed, and for the raise, and
\* is remembered while it is (linux_notifications.rs: "enabling an enabled kind
\* must not record `on_signal` as previous", "the kind is still enabled").
EarlierActionIsKept ==
    \A k \in Kinds :
        /\ k \in INSTALLED => n_PREVIOUS[k] = n_earlier[k]
        /\ n_action[k] = IF k \in INSTALLED /\ ~Raising(k) THEN "ours" ELSE n_earlier[k]

\* A kind the consumer enabled, and nobody disabled, is the consumer's to hear:
\* both switches stay on whatever else is enabled, disabled, delivered or raised
\* meanwhile, as long as no enable of the provider fails (dotnet_pal.h: "the port
\* reports an enabled kind by calling the handler").
EnabledIsHeard == ~fallible => \A k \in wants : k \in enabled_kinds /\ k \in INSTALLED /\ n_HANDLER # NULL

\* The handler is called with the data it was installed with, whichever installs
\* failed or raced before.
HandlerHasItsData == n_heard = <<>> \/ n_heard[1] = n_heard[2]

\* Requests from outside: the action a signal had before is never lost and never
\* taken for ours; a kind the consumer enabled, and nobody disabled, stays the
\* consumer's to hear; the handler is called with the data it was installed with
\* (`enable`, `disable`, `default_action`, `install` of linux_notifications.rs and
\* notifications.rs).
RequestsAreKept == EarlierActionIsKept /\ EnabledIsHeard /\ HandlerHasItsData

\* What these stand on.
Enabling == {"enable_port", "enabled", "not_enabled"}
Installing == {"data", "handler_store", "start", "undo", "publish"}
Serving == {"disable_port", "default", "raise"}
Actions == {"default", "ignore", "foreign", "ours"}
Calls == [kind : Kinds \union {NULL}, before : BOOLEAN, clean : BOOLEAN, handler : Threads \union {NULL}]
Reading == {"none", "read", "deliver", "call", "handler", "next"}
RequestsTyped ==
    /\ using \subseteq Kinds /\ n_action \in [Kinds -> Actions] /\ n_earlier \in [Kinds -> Actions] /\ n_PREVIOUS \in [Kinds -> Actions]
    /\ n_pc \in [Callers -> Installing \union Enabling \union Serving \union Reading \union {"idle"}]
    /\ (\A t \in Threads : n_pc[t] \notin Reading) /\ n_pc[Dispatcher] \in Serving \union Reading
    /\ call \in [Callers -> Calls] /\ pipe \in Seq(Kinds) /\ kinds \in Seq(Kinds) /\ LOCK \in Callers \union {NULL}
\* A call in progress is about a kind, and one caller raises, with the lock.
CallsAreOwned ==
    /\ \A t \in Callers : n_pc[t] \in Enabling \union Serving => call[t].kind \in Kinds
    /\ n_pc[Dispatcher] \notin {"none", "read"} => Len(kinds) > 0
    /\ \A t \in Callers : n_pc[t] = "raise" <=> LOCK = t
\* One thread installs at a time, and the dispatcher runs only with the handler and
\* the data of the install that started it, which nobody installs after.
InstallIsAlone ==
    /\ n_state \in 0..2 /\ n_HANDLER \in Threads \union {NULL}
    /\ \A t \in Threads : n_pc[t] \in Installing => n_state = 1
    /\ \A t, u \in Threads : n_pc[t] \in Installing /\ n_pc[u] \in Installing => t = u
    /\ \A t \in Threads :
         /\ n_pc[t] \in {"handler_store", "start", "publish"} => n_DATA = t
         /\ n_pc[t] \in {"start", "publish"} => n_HANDLER = t
         /\ n_pc[t] = "publish" \/ n_pc[t] \notin Installing \/ n_pc[Dispatcher] = "none"
    /\ n_state = 2 \/ n_pc[Dispatcher] # "none" => n_HANDLER = n_DATA /\ n_HANDLER # NULL
    /\ n_pc[Dispatcher] # "none" => n_state # 0
    /\ n_pc[Dispatcher] = "call" => call[Dispatcher].handler = n_HANDLER
\* An enable that nobody disabled since has both switches on when it returns.
EnablesAreClean ==
    /\ \A t \in Callers : n_pc[t] \in Enabling => n_state = 2
    /\ wants # {} => n_state = 2
    /\ ~fallible =>
         /\ \A t \in Callers : n_pc[t] # "not_enabled"
         /\ \A t \in Callers : n_pc[t] \in Enabling /\ call[t].clean =>
              /\ call[t].kind \in enabled_kinds /\ ~Disabling(call[t].kind)
              /\ n_pc[t] = "enabled" => call[t].kind \in INSTALLED
         /\ \A k \in wants : k \in enabled_kinds /\ k \in INSTALLED /\ ~Disabling(k)

\* A signal that was caught, and written to the pipe, is reported to the handler
\* or gets the earlier action: the dispatcher comes to the end of the pipe, also
\* when the handler itself disables kinds and asks for default actions.
ReportsAreServed == []<>(ended \/ (pipe = <<>> /\ kinds = <<>>))
=============================================================================
