----------------------------- MODULE LinuxEvent -----------------------------
(***************************************************************************)
(* The Linux provider's event: `impl port::Events for Linux` over one      *)
(* pthread mutex and one condition variable.  `manual`, `signaled` and     *)
(* `waiters` are only touched with the mutex held, so a critical section   *)
(* is one step; what interleaves is the time a waiter spends asleep, the   *)
(* moment it is woken, and the moment it has the mutex again.              *)
(***************************************************************************)
EXTENDS Threads

VARIABLES
    exists,    \* the handle has not been freed
    manual,
    signaled,
    waiters,   \* the count destroy looks at
    pc,        \* pc[t]: "idle", "asleep" in the condition variable, or "woken":
               \* pthread_cond_(timed)wait is about to return with the mutex
    rc,        \* rc[t]: what that call returns
    end,       \* end[t]: the deadline of t's wait: "none", "ahead" or "passed"
    answer     \* the thread that returned last, and the status it returned

vars == <<exists, manual, signaled, waiters, pc, rc, end, answer>>

\* The timeouts that behave differently (INFINITE is kernel::INFINITE): a wait
\* of "zero" polls, and "overflow" is one whose deadline no timespec can hold.
Timeouts == {"zero", "finite", "overflow", "INFINITE"}

Asleep == {t \in Threads : pc[t] = "asleep"}
Woken == {t \in Threads : pc[t] = "woken"}
Inside == {t \in Threads : pc[t] # "idle"}

Init ==
    /\ exists = FALSE
    /\ manual \in BOOLEAN
    /\ signaled \in BOOLEAN
    /\ waiters = 0
    /\ pc = [t \in Threads |-> "idle"]
    /\ rc = [t \in Threads |-> "0"]
    /\ end = [t \in Threads |-> "none"]
    /\ answer = <<>>

Return(t, status) == answer' = <<t, status>>

create(t, m, initial) ==
    /\ ~exists
    /\ exists' = TRUE
    /\ manual' = m
    /\ signaled' = initial
    /\ waiters' = 0
    /\ Return(t, "OK")
    /\ UNCHANGED <<pc, rc, end>>

\* Mutant: destroy does not look at the waiters.
destroy_InUse(t) ==
    /\ exists
    /\ pc[t] = "idle"
    /\ exists' = FALSE
    /\ Return(t, "OK")
    /\ UNCHANGED <<manual, signaled, waiters, pc, rc, end>>

destroy(t) ==
    /\ exists
    /\ pc[t] = "idle"
    /\ exists' = (waiters # 0)
    /\ Return(t, IF waiters # 0 THEN "BUSY" ELSE "OK")
    /\ UNCHANGED <<manual, signaled, waiters, pc, rc, end>>

\* Mutant: pthread_cond_signal for manual-reset events too.
Notified_SignalOnly(S) ==
    IF Asleep = {} THEN S = {} ELSE \E u \in Asleep : S = {u}

\* pthread_cond_broadcast wakes every sleeper, pthread_cond_signal one of them
\* if there is one.
Notified(S) ==
    IF manual THEN S = Asleep
    ELSE IF Asleep = {} THEN S = {} ELSE \E u \in Asleep : S = {u}

set(t) ==
    /\ exists
    /\ pc[t] = "idle"
    /\ signaled' = TRUE
    /\ \E S \in SUBSET Asleep :
          /\ Notified(S)
          /\ pc' = [u \in Threads |-> IF u \in S THEN "woken" ELSE pc[u]]
          /\ rc' = [u \in Threads |-> IF u \in S THEN "0" ELSE rc[u]]
    /\ Return(t, "OK")
    /\ UNCHANGED <<exists, manual, waiters, end>>

reset(t) ==
    /\ exists
    /\ pc[t] = "idle"
    /\ signaled' = FALSE
    /\ Return(t, "OK")
    /\ UNCHANGED <<exists, manual, waiters, pc, rc, end>>

\* The end of a wait that found the event set: an auto-reset event is cleared.
Consume(t) ==
    /\ signaled
    /\ signaled' = manual
    /\ Return(t, "OK")

\* wait up to its return or its first sleep: `waiters` goes up, and down again
\* if the call returns.  deadline() fails before the mutex is taken.
wait(t, ns) ==
    /\ exists
    /\ pc[t] = "idle"
    /\ \/ /\ ns = "overflow"
          /\ Return(t, "INVALID_ARGUMENT")
          /\ UNCHANGED <<signaled, waiters, pc, end>>
       \/ /\ ns # "overflow"
          /\ Consume(t)
          /\ UNCHANGED <<waiters, pc, end>>
       \/ /\ ns = "zero"
          /\ ~signaled
          /\ Return(t, "TIMEOUT")
          /\ UNCHANGED <<signaled, waiters, pc, end>>
       \/ /\ ns \in {"finite", "INFINITE"}
          /\ ~signaled
          /\ waiters' = waiters + 1
          /\ pc' = [pc EXCEPT ![t] = "asleep"]
          /\ end' = [end EXCEPT ![t] = IF ns = "finite" THEN "ahead" ELSE "none"]
          /\ UNCHANGED <<signaled, answer>>
    /\ UNCHANGED <<exists, manual, rc>>

\* Time reaches the deadline, which was computed once, before the loop.
deadline(t) ==
    /\ end[t] = "ahead"
    /\ end' = [end EXCEPT ![t] = "passed"]
    /\ UNCHANGED <<exists, manual, signaled, waiters, pc, rc, answer>>

Wake(t, code) ==
    /\ pc[t] = "asleep"
    /\ pc' = [pc EXCEPT ![t] = "woken"]
    /\ rc' = [rc EXCEPT ![t] = code]
    /\ UNCHANGED <<exists, manual, signaled, waiters, end, answer>>

\* pthread_cond_timedwait gives up on a sleeper whose deadline has passed.
timedout(t) == end[t] = "passed" /\ Wake(t, "ETIMEDOUT")

\* POSIX allows a condition variable to wake a sleeper for no reason.
spurious(t) == Wake(t, "0")

\* The wait is made again: pthread_cond_timedwait returns ETIMEDOUT at once when
\* the deadline has passed, otherwise the thread sleeps.
SleepAgain(t) ==
    /\ rc[t] = "0" /\ ~signaled
    /\ IF end[t] = "passed"
       THEN /\ rc' = [rc EXCEPT ![t] = "ETIMEDOUT"]
            /\ UNCHANGED pc
       ELSE /\ pc' = [pc EXCEPT ![t] = "asleep"]
            /\ UNCHANGED rc
    /\ UNCHANGED <<signaled, waiters, end, answer>>

Leave(t) ==
    /\ waiters' = waiters - 1
    /\ pc' = [pc EXCEPT ![t] = "idle"]
    /\ rc' = [rc EXCEPT ![t] = "0"]
    /\ end' = [end EXCEPT ![t] = "none"]

\* Mutant: a wait whose time is up does not look at the event again.
resume_IgnoresLateSignal(t) ==
    /\ pc[t] = "woken"
    /\ \/ SleepAgain(t)
       \/ rc[t] = "0" /\ Consume(t) /\ Leave(t)
       \/ rc[t] = "ETIMEDOUT" /\ Return(t, "TIMEOUT") /\ Leave(t) /\ UNCHANGED signaled
    /\ UNCHANGED <<exists, manual>>

\* Mutant: the deadline is computed again, from now, for each sleep.
resume_NewDeadline(t) ==
    /\ pc[t] = "woken"
    /\ \/ /\ rc[t] = "0" /\ ~signaled
          /\ pc' = [pc EXCEPT ![t] = "asleep"]
          /\ end' = [end EXCEPT ![t] = IF @ = "passed" THEN "ahead" ELSE @]
          /\ UNCHANGED <<signaled, waiters, rc, answer>>
       \/ Consume(t) /\ Leave(t)
       \/ rc[t] = "ETIMEDOUT" /\ ~signaled /\ Return(t, "TIMEOUT") /\ Leave(t) /\ UNCHANGED signaled
    /\ UNCHANGED <<exists, manual>>

\* The loop and the end of wait, from pthread_cond_(timed)wait's return with the
\* mutex: with rc = 0 and the event unset it waits again; otherwise the wait is
\* over, and it takes the event if that is set, whatever rc says.
resume(t) ==
    /\ pc[t] = "woken"
    /\ \/ SleepAgain(t)
       \/ /\ Consume(t)
          /\ Leave(t)
       \/ /\ rc[t] = "ETIMEDOUT" /\ ~signaled
          /\ Return(t, "TIMEOUT")
          /\ Leave(t)
          /\ UNCHANGED signaled
    /\ UNCHANGED <<exists, manual>>

Next ==
    \E t \in Threads :
        \/ \E m, initial \in BOOLEAN : create(t, m, initial)
        \/ destroy(t)
        \/ set(t)
        \/ reset(t)
        \/ \E ns \in Timeouts : wait(t, ns)
        \/ deadline(t)
        \/ timedout(t)
        \/ spurious(t)
        \/ resume(t)

\* Time passes, the kernel ends an expired sleep, and a woken thread gets the
\* mutex, which every holder gives back after a few instructions.  Nothing is
\* assumed of the threads that call set.
Fairness ==
    \A t \in Threads :
        /\ WF_vars(deadline(t))
        /\ WF_vars(timedout(t))
        /\ WF_vars(resume(t))

Spec == Init /\ [][Next]_vars /\ Fairness

-----------------------------------------------------------------------------
\* Every field keeps its type; `waiters`, a usize, never goes below zero.
TypeOK ==
    /\ exists \in BOOLEAN
    /\ manual \in BOOLEAN
    /\ signaled \in BOOLEAN
    /\ waiters \in Nat
    /\ pc \in [Threads -> {"idle", "asleep", "woken"}]
    /\ rc \in [Threads -> {"0", "ETIMEDOUT"}]
    /\ end \in [Threads -> {"none", "ahead", "passed"}]

\* `waiters` counts exactly the threads inside wait, over every path out of it,
\* so destroy's BUSY test frees an event only when no thread is inside: a
\* thread that sleeps or is about to take the mutex never touches freed memory.
WaitersCounted ==
    /\ waiters = Cardinality(Inside)
    /\ ~exists => Inside = {}

\* A set event never has sleepers that nobody will wake: a manual-reset event
\* woke them all, and an auto-reset event has woken a thread that has not
\* looked at it yet.  A lost wake-up in set or wait would break it.
NoStrandedSignal ==
    signaled =>
        /\ manual => Asleep = {}
        /\ Asleep # {} => Woken # {}

\* A wait that slept reports what it did to the event: OK if the event was set
\* when the thread looked for the last time, even after its time was up, and
\* TIMEOUT only if it was not; a wait with INFINITE never times out.
LateSignalWins ==
    [][\A t \in Threads :
          pc[t] # "idle" /\ pc'[t] = "idle" =>
              /\ answer' = <<t, IF signaled THEN "OK" ELSE "TIMEOUT">>
              /\ ~signaled => end[t] = "passed"]_vars

Abstract == INSTANCE Events
    WITH waiting <- Inside, limited <- {t \in Threads : end[t] # "none"}

\* The provider does what the boundary promises of an event: set, reset, wait
\* and destroy change it as if it were a Boolean with a set of waiters.
ImplementsEvents == Abstract!SafeSpec

\* set does not leave a waiter behind (see Events), and a timed wait returns
\* however often it is woken for nothing, because all its sleeps are measured
\* against the same deadline.
WaitsEnd == Abstract!Released /\ Abstract!LimitedWaitEnds
=============================================================================
