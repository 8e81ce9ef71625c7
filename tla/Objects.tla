-------------------------------- MODULE Objects -------------------------------
(***************************************************************************)
(* What threads share through a provider, one of these per behaviour: an   *)
(* event, a mutex, a wake channel, the process barrier and the slot of a   *)
(* signal of Linux, the locks of a file and the read of a watcher of the   *)
(* in-memory file system.                                                  *)
(***************************************************************************)
EXTENDS LinuxEvent, LinuxMutex, LinuxSlots, MemWaits

VARIABLE kind    \* what this behaviour is about

linux == <<vars, mutex, wake_vars, barrier_vars, context_vars>>
memory == <<locks_vars, reads_vars>>
all == <<kind, linux, memory>>

ObjectsInit ==
    /\ kind \in {"event", "mutex", "wake", "barrier", "context", "locks", "read"}
    /\ Init /\ MutexInit /\ WakeInit /\ ContextInit
    /\ BarrierInit /\ (kind # "barrier" => commands = {})
    /\ (kind # "event" => ~manual /\ ~signaled) /\ (kind # "mutex" => ~recursive)
    /\ LocksInit /\ ReadsInit /\ (kind # "read" => wait_hook /\ has_clock)

OfWake(steps) ==
    kind = "wake" /\ steps /\ UNCHANGED <<kind, vars, mutex, barrier_vars, context_vars, memory>>
OfLocks(steps) == kind = "locks" /\ steps /\ UNCHANGED <<kind, linux, reads_vars>>
OfRead(steps) == kind = "read" /\ steps /\ UNCHANGED <<kind, linux, locks_vars>>
ObjectsNext ==
    \/ kind = "event" /\ Next /\ UNCHANGED <<kind, mutex, wake_vars, barrier_vars, context_vars, memory>>
    \/ kind = "mutex" /\ MutexNext /\ UNCHANGED <<kind, vars, wake_vars, barrier_vars, context_vars, memory>>
    \/ OfWake(WakeNext)
    \/ kind = "barrier" /\ BarrierNext /\ UNCHANGED <<kind, vars, mutex, wake_vars, context_vars, memory>>
    \/ kind = "context" /\ ContextNext /\ UNCHANGED <<kind, vars, mutex, wake_vars, barrier_vars, memory>>
    \/ OfLocks(LocksNext)
    \/ OfRead(ReadsNext)

\* The fairness of the event; the poll, the reader and the handle that tries for a
\* lock again run on, and time passes.  Only the steps of its kind are a behaviour's.
RunsOn ==
    \/ OfWake(WakeStep)
    \/ OfLocks(\E h \in Handles : again(h))
    \/ OfRead(ReadsStep)
ObjectsSpec == ObjectsInit /\ [][ObjectsNext]_all /\ Fairness /\ WF_all(RunsOn) /\ WF_all(OfRead(tick))

-----------------------------------------------------------------------------
\* What threads share beside events and mutexes is whole: wakes are kept
\* (`wake_descriptor`), all agree on a barrier that works (`barrier_mode`), a callback
\* has its own data (`install`), the locks of a file are exact (`relock`), and a read
\* waits no longer than asked (`left -= slice`).
SharedIsWhole ==
    /\ kind = "wake" => WakesAreKept
    /\ kind = "barrier" => BarriersWork
    /\ kind = "context" => CallbacksAreWhole
    /\ kind = "locks" => LocksAreExact
    /\ kind = "read" => WaitsAreBounded

\* Who waits gets on: at an event, in a poll that is woken, in the read of a watcher,
\* and one of the handles that wait for a file's lock (`wait`, `poll`, `read`, `lock`).
ObjectsEnd ==
    /\ WaitsEnd /\ WakesEnd
    /\ ReadsEnd /\ SomeoneGetsOn
=============================================================================
