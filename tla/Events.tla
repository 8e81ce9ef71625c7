------------------------------- MODULE Events -------------------------------
(***************************************************************************)
(* What the boundary promises of one event (trait `port::Events`): a       *)
(* Boolean with threads waiting for it.  No lock, no condition variable,   *)
(* no wake-up protocol: a wait is satisfied at a moment the event is set,  *)
(* and an auto-reset event is cleared by the one wait it satisfies.        *)
(*                                                                         *)
(* LinuxEvent implements this module; LowLevelMonitor relies on it.        *)
(***************************************************************************)
CONSTANT Threads

VARIABLES
    exists,    \* the handle is live
    manual,    \* a manual-reset event stays set until it is reset
    signaled,
    waiting,   \* the threads inside a wait that has not been satisfied yet
    limited    \* those of them whose wait has a time limit

vars == <<exists, manual, signaled, waiting, limited>>

Init ==
    /\ exists = FALSE
    /\ manual \in BOOLEAN
    /\ signaled \in BOOLEAN
    /\ waiting = {}
    /\ limited = {}

Create(m, initial) ==
    /\ ~exists
    /\ exists' = TRUE
    /\ manual' = m
    /\ signaled' = initial
    /\ UNCHANGED <<waiting, limited>>

\* An event threads still wait for is not destroyed.
Destroy ==
    /\ exists
    /\ waiting = {}
    /\ exists' = FALSE
    /\ UNCHANGED <<manual, signaled, waiting, limited>>

Set ==
    /\ exists
    /\ signaled' = TRUE
    /\ UNCHANGED <<exists, manual, waiting, limited>>

Reset ==
    /\ exists
    /\ signaled' = FALSE
    /\ UNCHANGED <<exists, manual, waiting, limited>>

\* An auto-reset event is cleared by the wait it satisfies.
Consume ==
    /\ signaled
    /\ signaled' = manual

\* A wait that finds the event set returns at once.
Poll ==
    /\ exists
    /\ Consume
    /\ UNCHANGED <<exists, manual, waiting, limited>>

\* One that finds it unset waits, for a limited time or for ever.
Wait(t) ==
    /\ exists
    /\ t \notin waiting
    /\ ~signaled
    /\ waiting' = waiting \union {t}
    /\ limited' \in {limited, limited \union {t}}
    /\ UNCHANGED <<exists, manual, signaled>>

Leave(t) ==
    /\ t \in waiting
    /\ waiting' = waiting \ {t}
    /\ limited' = limited \ {t}
    /\ UNCHANGED <<exists, manual>>

Satisfied(t) == Leave(t) /\ Consume

\* A wait times out only with the event unset, and only if its time is limited.
Expired(t) ==
    /\ t \in limited
    /\ ~signaled
    /\ Leave(t)
    /\ UNCHANGED signaled

Next ==
    \/ \E m, initial \in BOOLEAN : Create(m, initial)
    \/ Destroy
    \/ Set
    \/ Reset
    \/ Poll
    \/ \E t \in Threads : Wait(t) \/ Satisfied(t) \/ Expired(t)

SafeSpec == Init /\ [][Next]_vars

\* A set event that somebody waits for does not stay that way: it is reset, or
\* it releases a waiter (every waiter, if it is a manual-reset event).
Released == (signaled /\ waiting # {}) ~> (~signaled \/ waiting = {})

\* A wait with a limit ends.
LimitedWaitEnds == \A t \in Threads : (t \in limited) ~> (t \notin limited)

Spec == SafeSpec /\ Released /\ LimitedWaitEnds
=============================================================================
