------------------------------ MODULE Mutexes -------------------------------
(***************************************************************************)
(* What the boundary promises of one mutex (trait `port::Mutexes`): a lock *)
(* that one thread holds at a time, that only a recursive mutex lets its   *)
(* holder lock again, and that is not destroyed while it is locked.  A     *)
(* call that is refused changes nothing.                                   *)
(*                                                                         *)
(* LinuxMutex implements this module; LowLevelMonitor relies on it.        *)
(***************************************************************************)
EXTENDS Integers

CONSTANTS Threads, NoThread

VARIABLES
    exists,     \* the handle is live
    recursive,  \* the holder may lock again
    holder,
    depth       \* how often the holder holds it

vars == <<exists, recursive, holder, depth>>

Init ==
    /\ exists = FALSE
    /\ recursive \in BOOLEAN
    /\ holder = NoThread
    /\ depth = 0

Create(r) ==
    /\ ~exists
    /\ exists' = TRUE
    /\ recursive' = r
    /\ UNCHANGED <<holder, depth>>

Lock(t) ==
    /\ exists
    /\ \/ holder = NoThread
       \/ holder = t /\ recursive
    /\ holder' = t
    /\ depth' = depth + 1
    /\ UNCHANGED <<exists, recursive>>

Unlock(t) ==
    /\ exists
    /\ holder = t
    /\ depth' = depth - 1
    /\ holder' = IF depth = 1 THEN NoThread ELSE t
    /\ UNCHANGED <<exists, recursive>>

Destroy ==
    /\ exists
    /\ holder = NoThread
    /\ exists' = FALSE
    /\ UNCHANGED <<recursive, holder, depth>>

Next ==
    \/ \E r \in BOOLEAN : Create(r)
    \/ \E t \in Threads : Lock(t) \/ Unlock(t)
    \/ Destroy

SafeSpec == Init /\ [][Next]_vars
=============================================================================
