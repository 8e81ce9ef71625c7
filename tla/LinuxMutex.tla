----------------------------- MODULE LinuxMutex -----------------------------
(***************************************************************************)
(* The Linux provider's mutex: `impl port::Mutexes for Linux`.  Around a   *)
(* pthread mutex it keeps three words of its own: `owner`, so that a       *)
(* thread is refused what pthread would deadlock on or leave undefined;    *)
(* `depth`, which the holder alone touches; and `users`, which counts the  *)
(* holder's levels and everyone on the way in or out, so that destroy can  *)
(* answer BUSY before it enters libc.  The words and the pthread mutex     *)
(* change at different moments, which is what the steps below interleave.  *)
(*                                                                         *)
(* The contract (docs/kernel.md): nobody enters a call while the mutex is  *)
(* being destroyed; threads that are already counted may still be inside.  *)
(***************************************************************************)
EXTENDS Threads

CONSTANTS
    NoThread,
    UsizeMax,   \* usize::MAX, the limit of `users` and of `depth`
    NativeMax   \* how often glibc lets one thread lock a recursive mutex

ASSUME NoThreadIsNoThread == NoThread \notin Threads
ASSUME Limits == UsizeMax \in Nat \ {0} /\ NativeMax \in Nat \ {0}

VARIABLES
    live,       \* the handle has not been freed
    recursive,
    users,
    owner,
    depth,
    holder,     \* native: the thread that holds the pthread mutex
    count,      \* native: how often it does
    at,         \* at[t]: where t is inside lock or unlock
    answered    \* the thread that returned last, and the status it returned

words == <<users, owner, depth>>
native == <<holder, count>>
mutex == <<live, recursive, users, owner, depth, holder, count, at, answered>>

MutexInit ==
    /\ live = FALSE
    /\ recursive \in BOOLEAN
    /\ users = 0
    /\ owner = NoThread
    /\ depth = 0
    /\ holder = NoThread
    /\ count = 0
    /\ at = [t \in Threads |-> "idle"]
    /\ answered = <<>>

Goto(t, place) ==
    /\ at' = [at EXCEPT ![t] = place]
    /\ UNCHANGED answered

MutexReturn(t, status) ==
    /\ at' = [at EXCEPT ![t] = "idle"]
    /\ answered' = <<t, status>>

mutex_create(t, r) ==
    /\ ~live
    /\ live' = TRUE
    /\ recursive' = r
    /\ users' = 0
    /\ owner' = NoThread
    /\ depth' = 0
    /\ holder' = NoThread
    /\ count' = 0
    /\ MutexReturn(t, "OK")

\* The guard on the other threads is the caller's part of the contract.
mutex_destroy(t) ==
    /\ live
    /\ at[t] = "idle"
    /\ \A u \in Threads : at[u] # "lock_count"
    /\ live' = (users # 0)
    /\ MutexReturn(t, IF users # 0 THEN "BUSY" ELSE "OK")
    /\ UNCHANGED <<recursive, words, native>>

-----------------------------------------------------------------------------
\* lock: the owner is refused a second level of a non-recursive mutex, and the
\* level after usize::MAX.
lock(t) ==
    /\ live
    /\ at[t] = "idle"
    /\ IF owner = t /\ (~recursive \/ depth = UsizeMax)
       THEN MutexReturn(t, "OS_ERROR")
       ELSE Goto(t, "lock_count")
    /\ UNCHANGED <<live, recursive, words, native>>

checked_increment(t) ==
    /\ at[t] = "lock_count"
    /\ IF users = UsizeMax
       THEN MutexReturn(t, "OS_ERROR") /\ UNCHANGED users
       ELSE Goto(t, "lock_native") /\ users' = users + 1
    /\ UNCHANGED <<live, recursive, owner, depth, native>>

\* pthread_mutex_lock, of an error-checking (EDEADLK) or a recursive (EAGAIN)
\* mutex: it waits while another thread holds it.
lock_native(t) ==
    /\ at[t] = "lock_native"
    /\ \/ /\ holder = NoThread
          /\ holder' = t
          /\ count' = 1
          /\ Goto(t, "lock_record")
       \/ /\ holder = t /\ recursive /\ count < NativeMax
          /\ count' = count + 1
          /\ Goto(t, "lock_record")
          /\ UNCHANGED holder
       \/ /\ holder = t /\ (~recursive \/ count >= NativeMax)
          /\ Goto(t, "lock_failed")
          /\ UNCHANGED native
    /\ UNCHANGED <<live, recursive, words>>

lock_record(t) ==
    /\ at[t] = "lock_record"
    /\ depth' = depth + 1
    /\ owner' = t
    /\ MutexReturn(t, "OK")
    /\ UNCHANGED <<live, recursive, users, native>>

\* The failure of pthread_mutex_lock is counted out again.
lock_failed(t) ==
    /\ at[t] = "lock_failed"
    /\ users' = users - 1
    /\ MutexReturn(t, "OS_ERROR")
    /\ UNCHANGED <<live, recursive, owner, depth, native>>

-----------------------------------------------------------------------------
\* Mutant: `owner` is cleared at every level.
unlock_ClearsOwner(t) ==
    /\ live
    /\ at[t] = "idle"
    /\ IF owner # t
       THEN MutexReturn(t, "OS_ERROR") /\ UNCHANGED <<owner, depth>>
       ELSE /\ depth' = depth - 1
            /\ owner' = NoThread
            /\ Goto(t, "unlock_native")
    /\ UNCHANGED <<live, recursive, users, native>>

\* unlock: only the owner may; `depth` and `owner` are changed while the native
\* mutex is still held.
unlock(t) ==
    /\ live
    /\ at[t] = "idle"
    /\ IF owner # t
       THEN MutexReturn(t, "OS_ERROR") /\ UNCHANGED <<owner, depth>>
       ELSE /\ depth' = depth - 1
            /\ owner' = IF depth = 1 THEN NoThread ELSE owner
            /\ Goto(t, "unlock_native")
    /\ UNCHANGED <<live, recursive, users, native>>

\* Mutant: `users` is given back together with the native mutex's last level, so
\* that the thread touches the words after it has stopped being counted.
unlock_native_Uncounted(t) ==
    /\ at[t] = "unlock_native"
    /\ holder = t
    /\ count' = count - 1
    /\ holder' = IF count = 1 THEN NoThread ELSE holder
    /\ users' = users - 1
    /\ Goto(t, "unlock_count")
    /\ UNCHANGED <<live, recursive, owner, depth>>

\* pthread_mutex_unlock; its failure (EPERM) puts `depth` and `owner` back.
unlock_native(t) ==
    /\ at[t] = "unlock_native"
    /\ IF holder = t
       THEN /\ count' = count - 1
            /\ holder' = IF count = 1 THEN NoThread ELSE holder
            /\ Goto(t, "unlock_count")
            /\ UNCHANGED words
       ELSE /\ depth' = depth + 1
            /\ owner' = t
            /\ MutexReturn(t, "OS_ERROR")
            /\ UNCHANGED <<users, native>>
    /\ UNCHANGED <<live, recursive>>

unlock_count(t) ==
    /\ at[t] = "unlock_count"
    /\ users' = users - 1
    /\ MutexReturn(t, "OK")
    /\ UNCHANGED <<live, recursive, owner, depth, native>>

MutexNext ==
    \E t \in Threads :
        \/ \E r \in BOOLEAN : mutex_create(t, r)
        \/ mutex_destroy(t)
        \/ lock(t)
        \/ checked_increment(t)
        \/ lock_native(t)
        \/ lock_record(t)
        \/ lock_failed(t)
        \/ unlock(t)
        \/ unlock_native(t)
        \/ unlock_count(t)

MutexSpec == MutexInit /\ [][MutexNext]_mutex

-----------------------------------------------------------------------------
Places == {"idle", "lock_count", "lock_native", "lock_record", "lock_failed",
           "unlock_native", "unlock_count"}

\* The threads that `users` counts for a level they do not hold, or no longer.
OnTheWay == {t \in Threads : at[t] \in {"lock_native", "lock_failed", "unlock_count"}}

\* Every word keeps its type and its width.
MutexTypeOK ==
    /\ live \in BOOLEAN
    /\ recursive \in BOOLEAN
    /\ users \in 0 .. UsizeMax
    /\ owner \in Threads \union {NoThread}
    /\ depth \in 0 .. UsizeMax
    /\ holder \in Threads \union {NoThread}
    /\ count \in Nat
    /\ at \in [Threads -> Places]

\* `users` is exactly what destroy needs it to be: the levels held, and every
\* thread on its way in or out, so an answer other than BUSY means that no
\* thread holds the mutex and none will touch it again.
UsersCounted ==
    /\ users = count + Cardinality(OnTheWay)
    /\ ~live => at = [t \in Threads |-> "idle"] /\ holder = NoThread

\* What the owner word says is true when a thread finds itself there: it holds
\* the pthread mutex.  With it, unlock never hands pthread a mutex that the
\* thread does not hold, and lock never lets a thread deadlock on itself.
OwnerHolds ==
    /\ owner # NoThread => owner = holder
    /\ \A t \in Threads : at[t] = "unlock_native" => holder = t
    /\ \A t \in Threads : at[t] = "lock_native" /\ holder = t => recursive

AbstractMutex == INSTANCE Mutexes WITH exists <- live, holder <- owner

\* The words the provider keeps change as an atomic lock would: the thread that
\* records itself as owner does so when nobody else is recorded, and the mutex
\* is freed only when nobody is.
ImplementsMutexes == AbstractMutex!SafeSpec
=============================================================================
