----------------------------- MODULE ObjectsProofs -----------------------------
(***************************************************************************)
(* The safety of what threads share through a provider, for every finite   *)
(* set of threads, handles and installers: the Linux event and mutex,      *)
(* which implement Events and Mutexes, the process barrier, the slot of a  *)
(* signal, the wake channel, and the reads and locks of files in memory.   *)
(***************************************************************************)
EXTENDS Objects, FiniteSetTheorems, TLAPS

-----------------------------------------------------------------------------
(* The event.  The inductive invariant adds to the properties the model is *)
(* checked for what a wait's deadline and return code say of where the     *)
(* thread is.                                                              *)

\* Only a thread inside wait has a deadline, and pthread_cond_timedwait answers
\* ETIMEDOUT only to a thread whose deadline has passed.
DeadlinesMatch ==
    \A t \in Threads :
        /\ end[t] # "none" => pc[t] # "idle"
        /\ rc[t] = "ETIMEDOUT" => pc[t] = "woken" /\ end[t] = "passed"

\* The inductive invariant of the event.
EventInv == TypeOK /\ WaitersCounted /\ NoStrandedSignal /\ DeadlinesMatch

\* The threads inside `wait` can be counted.
LEMMA InsideFinite == IsFiniteSet(Inside) /\ Cardinality(Inside) \in Nat
<1>1. IsFiniteSet(Inside)
  BY ThreadsFinite, FS_Subset, Inside \in SUBSET Threads, Zenon DEF Inside
<1> QED BY <1>1, FS_CardinalityType, Zenon

\* It holds of an event that does not exist yet.
LEMMA EventInitially == Init => EventInv
<1> SUFFICES ASSUME Init PROVE EventInv
  BY Zenon
<1>1. Inside = {} /\ Asleep = {}
  BY Zenon DEF Init, Inside, Asleep
<1>2. TypeOK
  BY Zenon DEF Init, TypeOK
<1>3. WaitersCounted
  BY <1>1, FS_EmptySet, Zenon DEF Init, WaitersCounted
<1>4. NoStrandedSignal
  BY <1>1, Zenon DEF NoStrandedSignal
<1>5. DeadlinesMatch
  BY Zenon DEF Init, DeadlinesMatch
<1> QED BY <1>2, <1>3, <1>4, <1>5, Zenon DEF EventInv

\* The steps after which the same threads are inside, and as many are counted.
LEMMA SameInside ==
    ASSUME WaitersCounted, Inside' = Inside, waiters' = waiters,
           exists' = exists \/ (exists' = TRUE) \/ waiters = 0
    PROVE  WaitersCounted'
BY InsideFinite, FS_EmptySet, Zenon DEF WaitersCounted

\* A thread that goes to sleep for the first time is counted in.
LEMMA EntersWait ==
    ASSUME WaitersCounted, exists, exists' = exists, NEW t, t \notin Inside,
           Inside' = Inside \union {t}, waiters' = waiters + 1
    PROVE  WaitersCounted'
BY InsideFinite, FS_AddElement, Zenon DEF WaitersCounted

\* A thread that leaves was counted, and is counted out.
LEMMA LeavesWait ==
    ASSUME TypeOK, WaitersCounted, exists' = exists, NEW t \in Threads, pc[t] = "woken", Leave(t)
    PROVE  WaitersCounted' /\ waiters' \in Nat
<1>1. t \in Inside
  BY Zenon DEF Inside
<1>2. Inside' = Inside \ {t}
  BY Zenon DEF Inside, Leave, TypeOK
<1>3. Cardinality(Inside \ {t}) = Cardinality(Inside) - 1 /\ IsFiniteSet(Inside \ {t})
  BY <1>1, InsideFinite, FS_RemoveElement, Zenon
<1>4. Cardinality(Inside \ {t}) \in Nat
  BY <1>3, FS_CardinalityType, Zenon
<1>5. exists
  BY <1>1, Zenon DEF WaitersCounted
<1> QED BY <1>2, <1>3, <1>4, <1>5, Zenon DEF WaitersCounted, Leave

\* Every step of `create`, `set`, `reset`, `wait` and `destroy` keeps it.
LEMMA EventStepKeeps == EventInv /\ [Next]_vars => EventInv'
<1> SUFFICES ASSUME EventInv, [Next]_vars PROVE EventInv'
  BY Zenon
<1> USE DEF EventInv
<1>1. ASSUME NEW t \in Threads, NEW m \in BOOLEAN, NEW initial \in BOOLEAN, create(t, m, initial) PROVE EventInv'
  <2>1. Inside = {} /\ Asleep = {} /\ waiters = 0
    BY <1>1, FS_EmptySet, Zenon DEF create, WaitersCounted, Inside, Asleep
  <2>2. Inside' = Inside /\ Asleep' = Asleep
    BY <1>1, Zenon DEF create, Inside, Asleep
  <2>3. TypeOK' /\ DeadlinesMatch'
    BY <1>1, Zenon DEF create, TypeOK, DeadlinesMatch
  <2>4. WaitersCounted'
    BY <1>1, <2>1, <2>2, SameInside, Zenon DEF create
  <2> QED BY <2>1, <2>2, <2>3, <2>4, Zenon DEF NoStrandedSignal
<1>2. ASSUME NEW t \in Threads, destroy(t) PROVE EventInv'
  <2>1. Inside' = Inside /\ Asleep' = Asleep /\ Woken' = Woken
    BY <1>2, Zenon DEF destroy, Inside, Asleep, Woken
  <2>2. TypeOK' /\ DeadlinesMatch'
    BY <1>2, Zenon DEF destroy, TypeOK, DeadlinesMatch
  <2>3. WaitersCounted'
    BY <1>2, <2>1, SameInside, Zenon DEF destroy, TypeOK
  <2> QED BY <1>2, <2>1, <2>2, <2>3, Zenon DEF NoStrandedSignal, destroy
<1>3. ASSUME NEW t \in Threads, set(t) PROVE EventInv'
  <2>1. PICK S \in SUBSET Asleep :
           /\ Notified(S)
           /\ pc' = [u \in Threads |-> IF u \in S THEN "woken" ELSE pc[u]]
           /\ rc' = [u \in Threads |-> IF u \in S THEN "0" ELSE rc[u]]
    BY <1>3, Zenon DEF set
  <2>2. Asleep' = Asleep \ S
    BY <2>1, Zenon DEF Asleep
  <2>3. S \subseteq Woken'
    BY <2>1, Zenon DEF Woken, Asleep
  <2>4. Inside' = Inside
    BY <2>1, Zenon DEF Inside, Asleep
  <2>5. TypeOK' /\ DeadlinesMatch'
    BY <1>3, <2>1, Zenon DEF set, TypeOK, DeadlinesMatch, Asleep
  <2>6. WaitersCounted'
    BY <1>3, <2>4, SameInside, Zenon DEF set
  <2>7. NoStrandedSignal'
    BY <1>3, <2>1, <2>2, <2>3, Zenon DEF set, NoStrandedSignal, Notified
  <2> QED BY <2>5, <2>6, <2>7, Zenon
<1>4. ASSUME NEW t \in Threads, reset(t) PROVE EventInv'
  <2>1. Inside' = Inside
    BY <1>4, Zenon DEF reset, Inside
  <2>2. TypeOK' /\ DeadlinesMatch' /\ NoStrandedSignal'
    BY <1>4, Zenon DEF reset, TypeOK, DeadlinesMatch, NoStrandedSignal
  <2>3. WaitersCounted'
    BY <1>4, <2>1, SameInside, Zenon DEF reset
  <2> QED BY <2>2, <2>3, Zenon
<1>5. ASSUME NEW t \in Threads, NEW ns \in Timeouts, wait(t, ns) PROVE EventInv'
  <2>1. CASE UNCHANGED <<waiters, pc, end>>
    <3>1. Inside' = Inside /\ Asleep' = Asleep /\ Woken' = Woken
      BY <2>1, Zenon DEF Inside, Asleep, Woken
    <3>2. TypeOK' /\ DeadlinesMatch'
      BY <1>5, <2>1, Zenon DEF wait, Consume, TypeOK, DeadlinesMatch
    <3>3. WaitersCounted'
      BY <1>5, <2>1, <3>1, SameInside, Zenon DEF wait
    <3>4. signaled' => signaled
      BY <1>5, <2>1, Zenon DEF wait, Consume
    <3> QED BY <1>5, <3>1, <3>2, <3>3, <3>4, Zenon DEF NoStrandedSignal, wait
  <2>2. CASE /\ ~signaled /\ waiters' = waiters + 1
             /\ pc' = [pc EXCEPT ![t] = "asleep"]
             /\ end' = [end EXCEPT ![t] = IF ns = "finite" THEN "ahead" ELSE "none"]
             /\ UNCHANGED <<signaled, answer>>
    <3>1. t \notin Inside /\ Inside' = Inside \union {t}
      BY <1>5, <2>2, Zenon DEF wait, Inside, TypeOK
    <3>2. TypeOK' /\ NoStrandedSignal'
      BY <1>5, <2>2 DEF wait, TypeOK, NoStrandedSignal
    <3>3. DeadlinesMatch'
      BY <1>5, <2>2, Zenon DEF wait, TypeOK, DeadlinesMatch
    <3>4. WaitersCounted'
      BY <1>5, <2>2, <3>1, EntersWait, Zenon DEF wait
    <3> QED BY <3>2, <3>3, <3>4, Zenon
  <2> QED BY <1>5, <2>1, <2>2, Zenon DEF wait
<1>6. ASSUME NEW t \in Threads, deadline(t) PROVE EventInv'
  <2>1. Inside' = Inside /\ Asleep' = Asleep /\ Woken' = Woken
    BY <1>6, Zenon DEF deadline, Inside, Asleep, Woken
  <2>2. TypeOK' /\ DeadlinesMatch'
    BY <1>6, Zenon DEF deadline, TypeOK, DeadlinesMatch
  <2>3. WaitersCounted'
    BY <1>6, <2>1, SameInside, Zenon DEF deadline
  <2> QED BY <1>6, <2>1, <2>2, <2>3, Zenon DEF NoStrandedSignal, deadline
<1>7. ASSUME NEW t \in Threads, timedout(t) \/ spurious(t) PROVE EventInv'
  <2>1. PICK code \in {"0", "ETIMEDOUT"} : Wake(t, code) /\ (code = "ETIMEDOUT" => end[t] = "passed")
    BY <1>7, Zenon DEF timedout, spurious
  <2>2. Inside' = Inside /\ Asleep' = Asleep \ {t} /\ t \in Woken'
    BY <2>1, Zenon DEF Wake, Inside, Asleep, Woken, TypeOK
  <2>3. TypeOK' /\ DeadlinesMatch'
    BY <2>1, Zenon DEF Wake, TypeOK, DeadlinesMatch
  <2>4. WaitersCounted'
    BY <2>1, <2>2, SameInside, Zenon DEF Wake
  <2> QED BY <2>1, <2>2, <2>3, <2>4, Zenon DEF NoStrandedSignal, Wake
<1>8. ASSUME NEW t \in Threads, resume(t) PROVE EventInv'
  <2>1. CASE SleepAgain(t)
    <3>1. Inside' = Inside
      BY <1>8, <2>1, Zenon DEF resume, SleepAgain, Inside, TypeOK
    <3>2. TypeOK' /\ DeadlinesMatch' /\ NoStrandedSignal'
      BY <1>8, <2>1, Zenon DEF resume, SleepAgain, TypeOK, DeadlinesMatch, NoStrandedSignal
    <3>3. WaitersCounted'
      BY <1>8, <2>1, <3>1, SameInside, Zenon DEF resume, SleepAgain
    <3> QED BY <3>2, <3>3, Zenon
  <2>2. CASE Leave(t) /\ (Consume(t) \/ (~signaled /\ UNCHANGED signaled))
    <3>1. WaitersCounted' /\ waiters' \in Nat
      BY <1>8, <2>2, LeavesWait, Zenon DEF resume
    <3>2. TypeOK'
      BY <1>8, <2>2, <3>1, Zenon DEF resume, Leave, Consume, TypeOK
    <3>3. DeadlinesMatch'
      BY <2>2, Zenon DEF Leave, TypeOK, DeadlinesMatch
    <3>4. Asleep' \subseteq Asleep
      BY <2>2, Zenon DEF Leave, Asleep, TypeOK
    <3>5. NoStrandedSignal'
      BY <1>8, <2>2, <3>4, Zenon DEF resume, Consume, NoStrandedSignal
    <3> QED BY <3>1, <3>2, <3>3, <3>5, Zenon
  <2> QED BY <1>8, <2>1, <2>2, Zenon DEF resume
<1>9. CASE UNCHANGED vars
  BY <1>9, Zenon DEF vars, TypeOK, WaitersCounted, NoStrandedSignal, DeadlinesMatch, Inside, Asleep, Woken
<1> QED BY <1>1, <1>2, <1>3, <1>4, <1>5, <1>6, <1>7, <1>8, <1>9, Zenon DEF Next

\* Everything the model is checked for, and what its proof needs besides, holds
\* in every state of the provider's event.
THEOREM EventInvariance == Spec => []EventInv
BY EventInitially, EventStepKeeps, PTL DEF Spec

\* Every field keeps its type: `waiters -= 1` never wraps.
THEOREM EventTyped == Spec => []TypeOK
<1>1. EventInv => TypeOK
  BY Zenon DEF EventInv
<1> QED BY <1>1, EventInvariance, PTL

\* destroy frees the event only when no thread is inside wait.
THEOREM EventCounted == Spec => []WaitersCounted
<1>1. EventInv => WaitersCounted
  BY Zenon DEF EventInv
<1> QED BY <1>1, EventInvariance, PTL

\* set never leaves sleepers behind with nobody on the way to wake up.
THEOREM NotStranded == Spec => []NoStrandedSignal
<1>1. EventInv => NoStrandedSignal
  BY Zenon DEF EventInv
<1> QED BY <1>1, EventInvariance, PTL

\* What a wait that slept returns is what the event was when it looked last.
THEOREM LateSignal == Spec => LateSignalWins
<1> DEFINE A == \A t \in Threads :
                  pc[t] # "idle" /\ pc'[t] = "idle" =>
                      /\ answer' = <<t, IF signaled THEN "OK" ELSE "TIMEOUT">>
                      /\ ~signaled => end[t] = "passed"
<1>1. ASSUME EventInv, [Next]_vars PROVE [A]_vars
  <2> SUFFICES ASSUME NEW t \in Threads, pc[t] # "idle", pc'[t] = "idle", Next
               PROVE  /\ answer' = <<t, IF signaled THEN "OK" ELSE "TIMEOUT">>
                      /\ ~signaled => end[t] = "passed"
    BY <1>1, Zenon DEF vars
  <2>1. PICK u \in Threads : resume(u)
    BY <1>1 DEF EventInv, TypeOK, Next, create, destroy, set, reset, wait, deadline,
                timedout, spurious, Wake
  <2>2. u = t /\ ~SleepAgain(u)
    BY <1>1, <2>1, Zenon DEF EventInv, TypeOK, resume, SleepAgain, Leave
  <2> QED BY <1>1, <2>1, <2>2, Zenon DEF EventInv, DeadlinesMatch, resume, Consume, Return
<1> QED BY <1>1, EventInvariance, PTL DEF Spec, LateSignalWins

-----------------------------------------------------------------------------
\* The refinement: each step of the provider is the step of Events below, or
\* leaves what Events speaks of alone.

\* The waits that have a deadline.
Limited == {t \in Threads : end[t] # "none"}

\* At first there is no event.
LEMMA EventInitRefines == Init => Abstract!Init
BY Zenon DEF Init, Abstract!Init, Inside

\* Every step of the Linux event is one of the boundary's, or changes nothing there.
LEMMA EventStepRefines == EventInv /\ [Next]_vars => [Abstract!Next]_(Abstract!vars)
<1> SUFFICES ASSUME EventInv, [Next]_vars PROVE [Abstract!Next]_(Abstract!vars)
  BY Zenon
<1> USE DEF EventInv, Abstract!vars
<1>1. ASSUME NEW t \in Threads, NEW m \in BOOLEAN, NEW initial \in BOOLEAN, create(t, m, initial)
      PROVE  Abstract!Create(m, initial)
  BY <1>1, Zenon DEF create, Abstract!Create, Inside
<1>2. ASSUME NEW t \in Threads, destroy(t) PROVE Abstract!Destroy \/ UNCHANGED Abstract!vars
  <2>1. UNCHANGED <<manual, signaled, Inside, Limited>>
    BY <1>2, Zenon DEF destroy, Inside, Limited
  <2>2. CASE waiters # 0
    BY <1>2, <2>1, <2>2, Zenon DEF destroy, Limited
  <2>3. CASE waiters = 0
    BY <1>2, <2>1, <2>3, InsideFinite, FS_EmptySet, Zenon DEF destroy, WaitersCounted, Abstract!Destroy, Limited
  <2> QED BY <2>2, <2>3, Zenon
<1>3. ASSUME NEW t \in Threads, set(t) PROVE Abstract!Set
  <2>1. UNCHANGED Inside
    BY <1>3, Zenon DEF set, Inside, Asleep
  <2> QED BY <1>3, <2>1, Zenon DEF set, Abstract!Set
<1>4. ASSUME NEW t \in Threads, reset(t) PROVE Abstract!Reset
  BY <1>4, Zenon DEF reset, Abstract!Reset, Inside
<1>5. ASSUME NEW t \in Threads, NEW ns \in Timeouts, wait(t, ns)
      PROVE  Abstract!Poll \/ Abstract!Wait(t) \/ UNCHANGED Abstract!vars
  <2>1. CASE UNCHANGED <<waiters, pc, end>>
    <3>1. UNCHANGED <<Inside, Limited>>
      BY <2>1, Zenon DEF Inside, Limited
    <3> QED BY <1>5, <2>1, <3>1, Zenon DEF wait, Consume, Abstract!Poll, Abstract!Consume, Limited
  <2>2. CASE /\ ~signaled
             /\ pc' = [pc EXCEPT ![t] = "asleep"]
             /\ end' = [end EXCEPT ![t] = IF ns = "finite" THEN "ahead" ELSE "none"]
             /\ UNCHANGED signaled
    <3>1. t \notin Inside /\ Inside' = Inside \union {t}
      BY <1>5, <2>2, Zenon DEF wait, Inside, TypeOK
    <3>2. end[t] = "none"
      BY <1>5, Zenon DEF wait, DeadlinesMatch
    <3>3. Limited' \in {Limited, Limited \union {t}}
      BY <2>2, <3>2, Zenon DEF Limited, TypeOK
    <3> QED BY <1>5, <2>2, <3>1, <3>3, Zenon DEF wait, Abstract!Wait, Limited
  <2> QED BY <1>5, <2>1, <2>2, Zenon DEF wait
<1>6. ASSUME NEW t \in Threads, deadline(t) PROVE UNCHANGED Abstract!vars
  BY <1>6, Zenon DEF deadline, TypeOK, Inside
<1>7. ASSUME NEW t \in Threads, timedout(t) \/ spurious(t) PROVE UNCHANGED Abstract!vars
  BY <1>7, Zenon DEF timedout, spurious, Wake, TypeOK, Inside
<1>8. ASSUME NEW t \in Threads, resume(t)
      PROVE  Abstract!Satisfied(t) \/ Abstract!Expired(t) \/ UNCHANGED Abstract!vars
  <2>1. CASE SleepAgain(t)
    BY <1>8, <2>1, Zenon DEF resume, SleepAgain, TypeOK, Inside
  <2>2. CASE Leave(t)
    <3>1. t \in Inside /\ Inside' = Inside \ {t} /\ Limited' = Limited \ {t}
      BY <1>8, <2>2, Zenon DEF resume, Leave, Inside, Limited, TypeOK
    <3>2. Abstract!Leave(t)
      BY <1>8, <3>1, Zenon DEF resume, Abstract!Leave, Limited
    <3>3. CASE Consume(t)
      BY <3>2, <3>3, Zenon DEF Consume, Abstract!Satisfied, Abstract!Consume
    <3>4. CASE rc[t] = "ETIMEDOUT" /\ ~signaled /\ UNCHANGED signaled
      BY <3>2, <3>4, Zenon DEF DeadlinesMatch, Abstract!Expired
    <3>5. CASE SleepAgain(t)
      BY <2>1, <3>5, Zenon
    <3> QED BY <1>8, <3>3, <3>4, <3>5, Zenon DEF resume
  <2> QED BY <1>8, <2>1, <2>2, Zenon DEF resume
<1>9. CASE UNCHANGED vars
  BY <1>9, Zenon DEF vars, Inside
<1> QED BY <1>1, <1>2, <1>3, <1>4, <1>5, <1>6, <1>7, <1>8, <1>9, Zenon DEF Next, Abstract!Next

\* The Linux event is an event as the boundary (Events) describes it.
THEOREM EventRefinement == Spec => ImplementsEvents
BY EventInitRefines, EventStepRefines, EventInvariance, PTL DEF Spec, ImplementsEvents, Abstract!SafeSpec

-----------------------------------------------------------------------------
(* The mutex, for every limit too.  The inductive invariant ties the words *)
(* the provider keeps to the pthread mutex under them.                     *)

\* The words follow the pthread mutex at a distance of one level: the level its
\* holder has taken and not recorded, or taken back and not released.  A thread
\* that already holds the mutex is on its way in only if it is recursive.
WordsFollow ==
    /\ holder = NoThread <=> count = 0
    /\ \A t \in Threads : at[t] \in {"lock_record", "unlock_native"} => holder = t
    /\ depth = IF \E t \in Threads : at[t] \in {"lock_record", "unlock_native"}
               THEN count - 1 ELSE count
    /\ owner = IF depth = 0 THEN NoThread ELSE holder
    /\ \A t \in Threads : at[t] \in {"lock_count", "lock_native"} /\ holder = t => recursive
    /\ count > 1 => recursive

\* The inductive invariant of the mutex.
MutexInv == MutexTypeOK /\ UsersCounted /\ WordsFollow

\* How many threads are inside `lock` or `unlock`.
N == Cardinality(OnTheWay)

\* They can be counted.
LEMMA OnTheWayFinite == IsFiniteSet(OnTheWay) /\ N \in Nat
<1>1. IsFiniteSet(OnTheWay)
  BY ThreadsFinite, FS_Subset, OnTheWay \in SUBSET Threads, Zenon DEF OnTheWay
<1> QED BY <1>1, FS_CardinalityType, Zenon DEF N

\* How a thread that goes from one place to another changes the count.
LEMMA UserMoves ==
    ASSUME MutexTypeOK, NEW t \in Threads, NEW q, at' = [at EXCEPT ![t] = q]
    PROVE  /\ t \notin OnTheWay /\ q \in {"lock_native", "lock_failed", "unlock_count"} => N' = N + 1
           /\ t \in OnTheWay /\ q \notin {"lock_native", "lock_failed", "unlock_count"} => N' = N - 1
           /\ (t \in OnTheWay <=> q \in {"lock_native", "lock_failed", "unlock_count"}) => N' = N
<1>1. CASE t \notin OnTheWay /\ q \in {"lock_native", "lock_failed", "unlock_count"}
  <2>1. OnTheWay' = OnTheWay \union {t}
    BY <1>1, Zenon DEF OnTheWay, MutexTypeOK
  <2> QED BY <1>1, <2>1, OnTheWayFinite, FS_AddElement, Zenon DEF N
<1>2. CASE t \in OnTheWay /\ q \notin {"lock_native", "lock_failed", "unlock_count"}
  <2>1. OnTheWay' = OnTheWay \ {t}
    BY <1>2, Zenon DEF OnTheWay, MutexTypeOK
  <2> QED BY <1>2, <2>1, OnTheWayFinite, FS_RemoveElement, Zenon DEF N
<1>3. CASE t \in OnTheWay <=> q \in {"lock_native", "lock_failed", "unlock_count"}
  <2>1. OnTheWay' = OnTheWay
    BY <1>3, Zenon DEF OnTheWay, MutexTypeOK
  <2> QED BY <1>3, <2>1, Zenon DEF N
<1> QED BY <1>1, <1>2, <1>3, Zenon

\* The levels held and recorded never exceed `users`, and a thread on its way is
\* counted on top of them.
LEMMA Bounds ==
    ASSUME MutexInv
    PROVE  /\ users = count + N
           /\ depth <= count /\ count <= users
           /\ \A t \in OnTheWay : count < users
<1>1. users = count + N /\ count \in Nat /\ N \in Nat
  BY OnTheWayFinite, Zenon DEF MutexInv, UsersCounted, MutexTypeOK, N
<1>2. depth <= count
  BY <1>1 DEF MutexInv, WordsFollow
<1>3. OnTheWay # {} => N # 0
  BY OnTheWayFinite, FS_EmptySet, Zenon DEF N
<1> QED BY <1>1, <1>2, <1>3

\* It holds of a mutex that does not exist yet.
LEMMA MutexInitially == MutexInit => MutexInv
<1> SUFFICES ASSUME MutexInit PROVE MutexInv
  BY Zenon
<1>1. OnTheWay = {}
  BY Zenon DEF MutexInit, OnTheWay
<1>2. MutexTypeOK
  <2>1. 0 \in 0 .. UsizeMax /\ 0 \in Nat
    BY Limits
  <2>2. at \in [Threads -> Places]
    BY Zenon DEF MutexInit, Places
  <2> QED BY <2>1, <2>2, Zenon DEF MutexInit, MutexTypeOK
<1>3. UsersCounted
  BY <1>1, FS_EmptySet DEF MutexInit, UsersCounted
<1>4. WordsFollow
  BY DEF MutexInit, WordsFollow
<1> QED BY <1>2, <1>3, <1>4, Zenon DEF MutexInv

\* Every step of `create`, `lock`, `unlock` and `destroy` keeps it.
LEMMA MutexStepKeeps == MutexInv /\ [MutexNext]_mutex => MutexInv'
<1> SUFFICES ASSUME MutexInv, [MutexNext]_mutex PROVE MutexInv'
  BY Zenon
<1> USE DEF MutexInv, Goto, MutexReturn, words, native, Places
<1>t. users = count + N /\ N \in Nat /\ UsizeMax \in Nat /\ depth <= count /\ count <= users
  BY Bounds, OnTheWayFinite, Limits, Zenon
<1>u. ASSUME users' = count' + N', ~live' => at' = [t \in Threads |-> "idle"] /\ holder' = NoThread
      PROVE  UsersCounted'
  BY <1>u, Zenon DEF UsersCounted, N
<1>1. ASSUME NEW t \in Threads, NEW r \in BOOLEAN, mutex_create(t, r) PROVE MutexInv'
  <2>1. at = [u \in Threads |-> "idle"] /\ at' = at
    BY <1>1, Zenon DEF mutex_create, UsersCounted
  <2>2. N' = 0
    BY <2>1, OnTheWay' = {}, FS_EmptySet, Zenon DEF N, OnTheWay
  <2>3. MutexTypeOK'
    BY <1>1, <1>t, <2>1 DEF mutex_create, MutexTypeOK
  <2>4. WordsFollow'
    BY <1>1, <2>1 DEF mutex_create, WordsFollow
  <2> QED BY <1>1, <1>u, <2>2, <2>3, <2>4 DEF mutex_create
<1>2. ASSUME NEW t \in Threads, mutex_destroy(t) PROVE MutexInv'
  <2>1. at' = at
    BY <1>2, Zenon DEF mutex_destroy, MutexTypeOK
  <2>2. N' = N
    BY <2>1, Zenon DEF N, OnTheWay
  <2>3. MutexTypeOK' /\ WordsFollow'
    BY <1>2, <2>1, Zenon DEF mutex_destroy, MutexTypeOK, WordsFollow
  <2>4. ASSUME users = 0 PROVE at = [u \in Threads |-> "idle"] /\ holder = NoThread
    <3>1. count = 0 /\ OnTheWay = {}
      BY <1>t, <2>4, OnTheWayFinite, FS_EmptySet DEF MutexTypeOK, N
    <3>2. holder = NoThread
      BY <3>1, Zenon DEF WordsFollow
    <3>3. \A u \in Threads : at[u] = "idle"
      BY <1>2, <3>1, <3>2, NoThreadIsNoThread, Zenon DEF mutex_destroy, OnTheWay, WordsFollow, MutexTypeOK
    <3> QED BY <3>2, <3>3, Zenon DEF MutexTypeOK
  <2> QED BY <1>2, <1>t, <1>u, <2>1, <2>2, <2>3, <2>4, Zenon DEF mutex_destroy
<1>3. ASSUME NEW t \in Threads, lock(t) PROVE MutexInv'
  <2>1. N' = N
    BY <1>3, UserMoves, Zenon DEF lock, OnTheWay
  <2>2. MutexTypeOK'
    BY <1>3, Zenon DEF lock, MutexTypeOK
  <2>3. UsersCounted'
    BY <1>3, <1>t, <1>u, <2>1, Zenon DEF lock
  <2>4. at'[t] = "lock_count" /\ holder = t => recursive
    BY <1>3, NoThreadIsNoThread, Zenon DEF lock, WordsFollow, MutexTypeOK
  <2>5. WordsFollow'
    BY <1>3, <2>4, Zenon DEF lock, WordsFollow, MutexTypeOK
  <2> QED BY <2>2, <2>3, <2>5, Zenon
<1>4. ASSUME NEW t \in Threads, checked_increment(t) PROVE MutexInv'
  <2>1. live
    BY <1>4, Zenon DEF checked_increment, UsersCounted
  <2>2. CASE users = UsizeMax
    <3>1. N' = N
      BY <1>4, <2>2, UserMoves, Zenon DEF checked_increment, OnTheWay
    <3>2. MutexTypeOK' /\ WordsFollow'
      BY <1>4, <2>2, Zenon DEF checked_increment, MutexTypeOK, WordsFollow
    <3> QED BY <1>4, <1>t, <1>u, <2>1, <2>2, <3>1, <3>2, Zenon DEF checked_increment
  <2>3. CASE users # UsizeMax
    <3>1. N' = N + 1
      BY <1>4, <2>3, UserMoves, Zenon DEF checked_increment, OnTheWay
    <3>2. MutexTypeOK'
      BY <1>4, <1>t, <2>3 DEF checked_increment, MutexTypeOK
    <3>3. UsersCounted'
      BY <1>4, <1>t, <1>u, <2>1, <2>3, <3>1 DEF checked_increment, MutexTypeOK
    <3>4. WordsFollow'
      BY <1>4, <2>3, Zenon DEF checked_increment, MutexTypeOK, WordsFollow
    <3> QED BY <3>2, <3>3, <3>4, Zenon
  <2> QED BY <2>2, <2>3, Zenon
<1>5. ASSUME NEW t \in Threads, lock_native(t) PROVE MutexInv'
  <2>1. live /\ t \in OnTheWay /\ t # NoThread
    BY <1>5, NoThreadIsNoThread, Zenon DEF lock_native, UsersCounted, OnTheWay
  <2>2. CASE /\ holder' = t /\ count' = count + 1 /\ Goto(t, "lock_record")
             /\ holder = NoThread \/ (holder = t /\ recursive)
    <3>1. N' = N - 1
      <4>1. at' = [at EXCEPT ![t] = "lock_record"]
        BY <2>2, Zenon
      <4>2. MutexTypeOK /\ t \in OnTheWay /\ "lock_record" \notin {"lock_native", "lock_failed", "unlock_count"}
        BY <2>1, Zenon
      <4> QED BY ONLY t \in Threads, <4>1, <4>2, UserMoves, Zenon
    <3>2. MutexTypeOK'
      BY <1>5, <2>2 DEF lock_native, MutexTypeOK
    <3>3. UsersCounted'
      BY <1>5, <1>t, <1>u, <2>1, <2>2, <3>1 DEF lock_native, MutexTypeOK
    <3>4. \A u \in Threads : at[u] \notin {"lock_record", "unlock_native"}
      BY <1>5, <2>2, NoThreadIsNoThread, Zenon DEF lock_native, WordsFollow
    <3>5. at'[t] = "lock_record"
      BY <2>2, Zenon DEF MutexTypeOK
    <3>6. depth' = count' - 1 /\ depth' = count
      BY <1>5, <2>2, <3>4 DEF lock_native, WordsFollow, MutexTypeOK
    <3>7. owner' = IF depth' = 0 THEN NoThread ELSE holder'
      BY <1>5, <2>2, <3>6, Zenon DEF lock_native, WordsFollow, MutexTypeOK
    <3>8. count' > 1 => recursive'
      BY <1>5, <2>2 DEF lock_native, WordsFollow, MutexTypeOK
    <3>9. \A u \in Threads : at'[u] \in {"lock_record", "unlock_native"} => holder' = u
      BY <2>2, <3>4, Zenon DEF MutexTypeOK
    <3>10. \A u \in Threads : at'[u] \in {"lock_count", "lock_native"} /\ holder' = u => recursive'
      BY <2>2, <3>5, Zenon
    <3>11. WordsFollow'
      BY <2>1, <2>2, <3>5, <3>6, <3>7, <3>8, <3>9, <3>10 DEF WordsFollow, MutexTypeOK
    <3> QED BY <3>2, <3>3, <3>11, Zenon
  <2>3. CASE Goto(t, "lock_failed") /\ UNCHANGED native
    <3>1. N' = N
      BY <2>1, <2>3, UserMoves, Zenon
    <3>2. MutexTypeOK' /\ WordsFollow'
      BY <1>5, <2>3, Zenon DEF lock_native, MutexTypeOK, WordsFollow
    <3> QED BY <1>5, <1>t, <1>u, <2>1, <2>3, <3>1, <3>2, Zenon DEF lock_native
  <2>4. holder = NoThread => count + 1 = 1
    BY DEF WordsFollow
  <2> QED BY <1>5, <2>2, <2>3, <2>4, Zenon DEF lock_native
<1>6. ASSUME NEW t \in Threads, lock_record(t) PROVE MutexInv'
  <2>1. live /\ t \notin OnTheWay /\ t # NoThread /\ holder = t
    BY <1>6, NoThreadIsNoThread, Zenon DEF lock_record, UsersCounted, OnTheWay, WordsFollow
  <2>2. N' = N
    <3>1. at' = [at EXCEPT ![t] = "idle"]
      BY <1>6, Zenon DEF lock_record
    <3>2. MutexTypeOK /\ t \notin OnTheWay /\ "idle" \notin {"lock_native", "lock_failed", "unlock_count"}
      BY <2>1, Zenon
    <3> QED BY ONLY t \in Threads, <3>1, <3>2, UserMoves, Zenon
  <2>3. \A u \in Threads : at'[u] \notin {"lock_record", "unlock_native"}
    BY <1>6, <2>1, Zenon DEF lock_record, WordsFollow, MutexTypeOK
  <2>4. depth' = count /\ count # 0
    BY <1>6, <2>1 DEF lock_record, WordsFollow, MutexTypeOK
  <2>5. MutexTypeOK'
    BY <1>6, <1>t, <2>4 DEF lock_record, MutexTypeOK
  <2>6. UsersCounted'
    BY <1>6, <1>t, <1>u, <2>1, <2>2, Zenon DEF lock_record
  <2>7. WordsFollow'
    BY <1>6, <2>1, <2>3, <2>4, Zenon DEF lock_record, WordsFollow, MutexTypeOK
  <2> QED BY <2>5, <2>6, <2>7, Zenon
<1>7. ASSUME NEW t \in Threads, lock_failed(t) \/ unlock_count(t) PROVE MutexInv'
  <2>1. live /\ t \in OnTheWay
    BY <1>7, Zenon DEF lock_failed, unlock_count, UsersCounted, OnTheWay
  <2>2. N' = N - 1
    BY <1>7, <2>1, UserMoves, Zenon DEF lock_failed, unlock_count
  <2>3. count < users
    BY <2>1, Bounds, Zenon
  <2>4. MutexTypeOK'
    BY <1>7, <1>t, <2>3 DEF lock_failed, unlock_count, MutexTypeOK
  <2>5. UsersCounted'
    <3>1. users' = users - 1 /\ count' = count /\ live' = live
      BY <1>7, Zenon DEF lock_failed, unlock_count
    <3>2. users' = count' + N'
      BY <1>t, <2>2, <3>1 DEF MutexTypeOK
    <3> QED BY <1>u, <2>1, <3>1, <3>2, Zenon
  <2>6. WordsFollow'
    BY <1>7, Zenon DEF lock_failed, unlock_count, WordsFollow, MutexTypeOK
  <2> QED BY <2>4, <2>5, <2>6, Zenon
<1>8. ASSUME NEW t \in Threads, unlock(t) PROVE MutexInv'
  <2>1. live /\ t \notin OnTheWay /\ t # NoThread
    BY <1>8, NoThreadIsNoThread, Zenon DEF unlock, OnTheWay
  <2>2. N' = N
    BY <1>8, <2>1, UserMoves DEF unlock
  <2>3. CASE owner # t
    BY <1>8, <1>t, <1>u, <2>1, <2>2, <2>3 DEF unlock, MutexTypeOK, WordsFollow
  <2>4. CASE owner = t
    <3>1. holder = t /\ depth > 0
      BY <2>1, <2>4 DEF WordsFollow, MutexTypeOK
    <3>2. \A u \in Threads : at[u] \notin {"lock_record", "unlock_native"}
      BY <1>8, <3>1, Zenon DEF unlock, WordsFollow
    <3>3. depth = count /\ depth' = count - 1
      BY <1>8, <2>4, <3>2, Zenon DEF unlock, WordsFollow
    <3>4. MutexTypeOK'
      BY <1>8, <1>t, <2>4, <3>1, <3>3 DEF unlock, MutexTypeOK
    <3>5. UsersCounted'
      BY <1>8, <1>t, <1>u, <2>1, <2>2, Zenon DEF unlock
    <3>6. at' = [at EXCEPT ![t] = "unlock_native"] /\ at'[t] = "unlock_native"
      BY <1>8, <2>4, Zenon DEF unlock, MutexTypeOK
    <3>7. WordsFollow'
      BY <1>8, <2>4, <3>1, <3>2, <3>3, <3>6 DEF unlock, WordsFollow, MutexTypeOK
    <3> QED BY <3>4, <3>5, <3>7, Zenon
  <2> QED BY <2>3, <2>4, Zenon
<1>9. ASSUME NEW t \in Threads, unlock_native(t) PROVE MutexInv'
  <2>1. live /\ t \notin OnTheWay /\ t # NoThread /\ holder = t
    BY <1>9, NoThreadIsNoThread, Zenon DEF unlock_native, UsersCounted, OnTheWay, WordsFollow
  <2>2. at' = [at EXCEPT ![t] = "unlock_count"] /\ count' = count - 1
    BY <1>9, <2>1, Zenon DEF unlock_native
  <2>3. N' = N + 1
    BY <2>1, <2>2, UserMoves, Zenon
  <2>4. count # 0 /\ depth = count - 1
    BY <1>9, <2>1, Zenon DEF unlock_native, WordsFollow
  <2>5. MutexTypeOK'
    BY <1>9, <2>1, <2>2, <2>4 DEF unlock_native, MutexTypeOK
  <2>6. UsersCounted'
    BY <1>9, <1>t, <1>u, <2>1, <2>2, <2>3 DEF unlock_native, MutexTypeOK
  <2>7. \A u \in Threads : at'[u] \notin {"lock_record", "unlock_native"}
    BY <2>1, <2>2, Zenon DEF WordsFollow, MutexTypeOK
  <2>8. WordsFollow'
    <3>1. UNCHANGED <<owner, depth, recursive>> /\ holder' = IF count = 1 THEN NoThread ELSE holder
      BY <1>9, <2>1, Zenon DEF unlock_native
    <3>2. holder' = NoThread <=> count' = 0
      BY <2>1, <2>2, <2>4, <3>1 DEF MutexTypeOK
    <3>3. depth' = count'
      BY <2>2, <2>4, <3>1, Zenon
    <3>4. owner' = IF depth' = 0 THEN NoThread ELSE holder'
      BY <2>1, <2>2, <2>4, <3>1 DEF WordsFollow, MutexTypeOK
    <3>5. \A u \in Threads : at'[u] \in {"lock_count", "lock_native"} /\ holder' = u => recursive'
      BY <2>1, <2>2, <3>1, NoThreadIsNoThread, Zenon DEF WordsFollow, MutexTypeOK
    <3>6. count' > 1 => recursive'
      BY <2>2, <3>1 DEF WordsFollow, MutexTypeOK
    <3> QED BY <2>7, <3>2, <3>3, <3>4, <3>5, <3>6, Zenon DEF WordsFollow
  <2> QED BY <2>5, <2>6, <2>8, Zenon
<1>10. CASE UNCHANGED mutex
  BY <1>10, Zenon DEF mutex, MutexTypeOK, UsersCounted, OnTheWay, WordsFollow
<1> QED BY <1>1, <1>2, <1>3, <1>4, <1>5, <1>6, <1>7, <1>8, <1>9, <1>10, Zenon DEF MutexNext

\* The words and the pthread mutex keep in step, in every state.
THEOREM MutexInvariance == MutexSpec => []MutexInv
BY MutexInitially, MutexStepKeeps, PTL DEF MutexSpec

\* Every word keeps its type and its width: none of the additions and
\* subtractions the code does unchecked can wrap.
THEOREM MutexTyped == MutexSpec => []MutexTypeOK
<1>1. MutexInv => MutexTypeOK
  BY Zenon DEF MutexInv
<1> QED BY <1>1, MutexInvariance, PTL

\* `users` counts the levels held and the threads on their way, so destroy
\* frees a mutex that nobody holds and nobody will touch again.
THEOREM MutexCounted == MutexSpec => []UsersCounted
<1>1. MutexInv => UsersCounted
  BY Zenon DEF MutexInv
<1> QED BY <1>1, MutexInvariance, PTL

\* The owner word names the thread that holds the pthread mutex.
THEOREM MutexHeld == MutexSpec => []OwnerHolds
<1>1. MutexInv => OwnerHolds
  BY Zenon DEF MutexInv, WordsFollow, OwnerHolds
<1> QED BY <1>1, MutexInvariance, PTL

-----------------------------------------------------------------------------
\* The refinement: a lock takes effect when it is recorded and an unlock when it
\* is; the other steps change nothing that Mutexes speaks of.

\* At first there is no mutex.
LEMMA MutexInitRefines == MutexInit => AbstractMutex!Init
BY Zenon DEF MutexInit, AbstractMutex!Init

\* Every step of the Linux mutex is one of the boundary's, or changes nothing there.
LEMMA MutexStepRefines == MutexInv /\ [MutexNext]_mutex => [AbstractMutex!Next]_(AbstractMutex!vars)
<1> SUFFICES ASSUME MutexInv, [MutexNext]_mutex PROVE [AbstractMutex!Next]_(AbstractMutex!vars)
  BY Zenon
<1> USE DEF MutexInv, words, native, AbstractMutex!vars
<1>1. ASSUME NEW t \in Threads, NEW r \in BOOLEAN, mutex_create(t, r) PROVE AbstractMutex!Create(r)
  <2>1. owner = NoThread /\ depth = 0
    BY <1>1, Zenon DEF mutex_create, UsersCounted, WordsFollow
  <2> QED BY <1>1, <2>1, Zenon DEF mutex_create, AbstractMutex!Create
<1>2. ASSUME NEW t \in Threads, mutex_destroy(t) PROVE AbstractMutex!Destroy \/ UNCHANGED AbstractMutex!vars
  <2>1. CASE users # 0
    BY <1>2, <2>1, Zenon DEF mutex_destroy
  <2>2. CASE users = 0
    <3>1. owner = NoThread
      BY <2>2, Bounds DEF WordsFollow, MutexTypeOK
    <3> QED BY <1>2, <2>2, <3>1, Zenon DEF mutex_destroy, AbstractMutex!Destroy
  <2> QED BY <2>1, <2>2, Zenon
<1>3. ASSUME NEW t \in Threads, lock(t) \/ checked_increment(t) \/ lock_native(t)
                                \/ lock_failed(t) \/ unlock_count(t)
      PROVE  UNCHANGED AbstractMutex!vars
  BY <1>3, Zenon DEF lock, checked_increment, lock_native, lock_failed, unlock_count
<1>4. ASSUME NEW t \in Threads, lock_record(t) PROVE AbstractMutex!Lock(t)
  <2>1. live /\ holder = t
    BY <1>4, Zenon DEF lock_record, UsersCounted, WordsFollow
  <2>2. owner = NoThread \/ (owner = t /\ recursive)
    BY <1>4, <2>1 DEF lock_record, WordsFollow, MutexTypeOK
  <2> QED BY <1>4, <2>1, <2>2, Zenon DEF lock_record, AbstractMutex!Lock
<1>5. ASSUME NEW t \in Threads, unlock(t) PROVE AbstractMutex!Unlock(t) \/ UNCHANGED AbstractMutex!vars
  BY <1>5, Zenon DEF unlock, AbstractMutex!Unlock
<1>6. ASSUME NEW t \in Threads, unlock_native(t) PROVE UNCHANGED AbstractMutex!vars
  BY <1>6, Zenon DEF unlock_native, WordsFollow
<1>7. CASE UNCHANGED mutex
  BY <1>7, Zenon DEF mutex
<1> QED BY <1>1, <1>2, <1>3, <1>4, <1>5, <1>6, <1>7, Zenon DEF MutexNext, AbstractMutex!Next

\* The Linux mutex is a mutex as the boundary (Mutexes) describes it.
THEOREM MutexRefinement == MutexSpec => ImplementsMutexes
BY MutexInitRefines, MutexStepRefines, MutexInvariance, PTL DEF MutexSpec, ImplementsMutexes, AbstractMutex!SafeSpec

-----------------------------------------------------------------------------
\* The barrier.  A mode other than unknown is one the kernel has a command for and
\* the process is registered for; it is what the thread that asks next loads, and it
\* is never replaced (`barrier_mode`).
Works(m) ==
    /\ m = private => "PRIVATE" \in commands /\ registered
    /\ m = global => "GLOBAL" \in commands
\* What a thread that asks for the mode knows at each step.
AskerIsSound(t) ==
    /\ step[t] = "register" => "PRIVATE" \in commands
    /\ step[t] = "exchange" => own[t] # unknown /\ Works(own[t])
    /\ step[t] = "use" => mode # unknown /\ own[t] = mode
\* The inductive invariant of the barrier.
BarrierInv ==
    /\ step \in [Askers -> {"load", "query", "register", "exchange", "use"}]
    /\ own \in [Askers -> {unknown, unavailable, private, global}]
    /\ mode \in {unknown, unavailable, private, global}
    /\ registered \in BOOLEAN /\ failed = FALSE
    /\ Works(mode)
    /\ \A t \in Askers : AskerIsSound(t)
    /\ \A m \in modes : m = mode /\ m # unknown

\* Before anyone has asked (`BARRIER_MODE`).
LEMMA BarrierBegins == BarrierInit => BarrierInv
<1> SUFFICES ASSUME BarrierInit PROVE BarrierInv
  BY Zenon
<1>1. step \in [Askers -> {"load", "query", "register", "exchange", "use"}]
  BY Zenon DEF BarrierInit
<1>2. own \in [Askers -> {unknown, unavailable, private, global}]
  BY Zenon DEF BarrierInit
<1>3. Works(mode)
  BY DEF BarrierInit, Works, unknown, private, global
<1>4. \A t \in Askers : AskerIsSound(t)
  BY Zenon DEF BarrierInit, AskerIsSound
<1> QED
  BY <1>1, <1>2, <1>3, <1>4, Zenon DEF BarrierInit, BarrierInv

\* What Without finds works.
LEMMA WithoutWorks ==
    /\ Without # unknown /\ Without # private
    /\ Without \in {unknown, unavailable, private, global}
    /\ Without = global => "GLOBAL" \in commands
BY DEF Without, unknown, unavailable, private, global

\* Every step of a thread that asks keeps it.
LEMMA BarrierStays == BarrierInv /\ [BarrierNext]_barrier_vars => BarrierInv'
<1> SUFFICES ASSUME BarrierInv, [BarrierNext]_barrier_vars PROVE BarrierInv'
  BY Zenon
<1>1. CASE UNCHANGED barrier_vars
  BY <1>1, Zenon DEF BarrierInv, AskerIsSound, Works, barrier_vars
<1>2. ASSUME NEW t \in Askers, load(t) PROVE BarrierInv'
  <2>1. step' \in [Askers -> {"load", "query", "register", "exchange", "use"}] /\ own' \in [Askers -> {unknown, unavailable, private, global}]
    BY <1>2, Zenon DEF load, Has, BarrierInv
  <2>2. ASSUME NEW u \in Askers PROVE AskerIsSound(u)'
    BY <1>2, Zenon DEF load, BarrierInv, AskerIsSound, Works, Has, unknown, unavailable, private, global
  <2> QED
    BY <1>2, <2>1, <2>2, Zenon DEF load, BarrierInv, Works
<1>3. ASSUME NEW t \in Askers, query(t) PROVE BarrierInv'
  BY <1>3, WithoutWorks, Zenon DEF query, BarrierInv, AskerIsSound, Works, Has, unknown, unavailable, private, global
<1>4. ASSUME NEW t \in Askers, register(t) PROVE BarrierInv'
  <2>1. CASE registered' = TRUE /\ Has(t, private, "exchange")
    BY <1>4, <2>1 DEF register, BarrierInv, AskerIsSound, Works, Has, unknown, unavailable, private, global
  <2>2. CASE UNCHANGED registered /\ Has(t, Without, "exchange")
    BY <1>4, <2>2, WithoutWorks, Zenon DEF register, BarrierInv, AskerIsSound, Works, Has, unknown, unavailable, private, global
  <2> QED
    BY <1>4, <2>1, <2>2, Zenon DEF register
<1>5. ASSUME NEW t \in Askers, settle(t) PROVE BarrierInv'
  <2>1. CASE mode = unknown
    BY <1>5, <2>1, Zenon DEF settle, exchange, BarrierInv, AskerIsSound, Works, Has
  <2>2. CASE mode # unknown
    BY <1>5, <2>2, Zenon DEF settle, exchange, BarrierInv, AskerIsSound, Works, Has
  <2> QED
    BY <2>1, <2>2, Zenon
<1>6. ASSUME NEW t \in Askers, barrier(t) PROVE BarrierInv'
  BY <1>6, Zenon DEF barrier, BarrierInv, AskerIsSound, Works, Has, unknown, unavailable, private, global
<1> QED
  BY <1>1, <1>2, <1>3, <1>4, <1>5, <1>6, Zenon DEF BarrierNext

\* One mode at most, and it works.
LEMMA BarrierHolds == BarrierInv => BarriersWork
<1> SUFFICES ASSUME BarrierInv PROVE BarriersWork
  BY Zenon
<1>1. modes \subseteq {mode}
  BY Zenon DEF BarrierInv
<1>2. IsFiniteSet({mode}) /\ Cardinality({mode}) = 1
  BY FS_Singleton, Zenon
<1>3. Cardinality(modes) <= 1
  BY <1>1, <1>2, FS_Subset, Zenon
<1> QED
  BY <1>3, Zenon DEF BarrierInv, BarriersWork

-----------------------------------------------------------------------------
\* The slot of a signal.  One installer at most is past the claim; what it stores is
\* in place before the trampoline is, and stays from then on (`install`, `restore`).
Fixed(i) == stage[i] \in {"installed", "restored"}
\* The installer has saved the action that was there.
Past(i) == stage[i] \notin {"idle", "save"}
\* What an installer has stored at each step, in the order it stores it.
InstallerIsSound(i) ==
    /\ stage[i] # "idle" => claimed
    /\ stage[i] = "save" => action = "earlier"
    /\ Past(i) => previous[i] = "earlier"
    /\ stage[i] \in {"callback", "signal", "enable", "installed", "restored"} => data = i
    /\ stage[i] \in {"signal", "enable", "installed", "restored"} => callback = i
    /\ stage[i] \in {"enable", "installed", "restored"} => signal
    /\ stage[i] # "installed" /\ stage[i] # "idle" => action = "earlier"
\* What a signal in flight has loaded: never of another install.
TakerIsSound(t) ==
    /\ phase[t] # "idle" => \E i \in Installers : Fixed(i)
    /\ phase[t] \in {"data", "inside"} => called[t].callback = callback
    /\ phase[t] = "inside" => called[t].data = data
\* The steps of an install.
Stages ==
    {"idle", "save", "data", "callback", "signal", "enable", "installed", "restored",
     "undo_signal", "undo_callback", "undo_claim"}
\* The inductive invariant of the slot.
ContextInv ==
    /\ claimed \in BOOLEAN /\ signal \in BOOLEAN
    /\ action \in {"earlier", "trampoline"}
    /\ previous \in [Installers -> {None, "earlier"}]
    /\ stage \in [Installers -> Stages]
    /\ phase \in [Takers -> {"idle", "callback", "data", "inside"}]
    /\ called \in [Takers -> [callback : Installers \union {None}, data : Installers \union {None}]]
    /\ callback \in Installers \union {None} /\ data \in Installers \union {None}
    /\ \A i, j \in Installers : stage[i] # "idle" /\ stage[j] # "idle" => i = j
    /\ action = "trampoline" => \E i \in Installers : stage[i] = "installed"
    /\ \A i \in Installers : InstallerIsSound(i)
    /\ \A t \in Takers : TakerIsSound(t)

\* Before the first install.
LEMMA ContextBegins == ContextInit => ContextInv
<1> SUFFICES ASSUME ContextInit PROVE ContextInv
  BY Zenon
<1>1. stage \in [Installers -> Stages] /\ previous \in [Installers -> {None, "earlier"}]
  BY Zenon DEF ContextInit, Stages
<1>2. phase \in [Takers -> {"idle", "callback", "data", "inside"}]
  BY Zenon DEF ContextInit
<1>3. called \in [Takers -> [callback : Installers \union {None}, data : Installers \union {None}]]
  BY Zenon DEF ContextInit, NoCall
<1>4. \A i \in Installers : InstallerIsSound(i)
  BY Zenon DEF ContextInit, InstallerIsSound, Past
<1>5. \A t \in Takers : TakerIsSound(t)
  BY Zenon DEF ContextInit, TakerIsSound
<1> QED
  BY <1>1, <1>2, <1>3, <1>4, <1>5, Zenon DEF ContextInit, ContextInv

\* Every store, every load and every step of the kernel keeps it.
LEMMA ContextStays == ContextInv /\ [ContextNext]_context_vars => ContextInv'
<1> SUFFICES ASSUME ContextInv, [ContextNext]_context_vars PROVE ContextInv'
  BY Zenon
<1> USE NoneIsNothing DEF ContextInv, InstallerIsSound, TakerIsSound, Stages, Fixed, Past, Moves, Enters,
        slot_vars, taker_vars
<1>1. CASE UNCHANGED context_vars
  BY <1>1, Zenon DEF context_vars
<1>2. ASSUME NEW i \in Installers, claim(i) PROVE ContextInv'
  BY <1>2 DEF claim
<1>3. ASSUME NEW i \in Installers, save(i) PROVE ContextInv'
  <2>1. action = "earlier" /\ stage[i] = "save" /\ claimed
    BY <1>3, Zenon DEF save
  <2>2. CASE stage' = [stage EXCEPT ![i] = "data"] /\ previous' = [previous EXCEPT ![i] = action] /\ UNCHANGED claimed
    BY <1>3, <2>1, <2>2 DEF save
  <2>3. CASE stage' = [stage EXCEPT ![i] = "idle"] /\ claimed' = FALSE /\ UNCHANGED previous
    BY <1>3, <2>1, <2>3, Zenon DEF save
  <2> QED
    BY <1>3, <2>1, <2>2, <2>3, Zenon DEF save
<1>4. ASSUME NEW i \in Installers, store_data(i) PROVE ContextInv'
  BY <1>4 DEF store_data
<1>5. ASSUME NEW i \in Installers, store_callback(i) PROVE ContextInv'
  BY <1>5 DEF store_callback
<1>6. ASSUME NEW i \in Installers, store_signal(i) PROVE ContextInv'
  BY <1>6 DEF store_signal
<1>7. ASSUME NEW i \in Installers, enable(i) PROVE ContextInv'
  BY <1>7 DEF enable
<1>8. ASSUME NEW i \in Installers, undo(i) PROVE ContextInv'
  <2>1. CASE Moves(i, "undo_signal", "undo_callback") /\ signal' = FALSE /\ UNCHANGED <<callback, claimed>>
    BY <1>8, <2>1, Zenon DEF undo
  <2>2. CASE Moves(i, "undo_callback", "undo_claim") /\ callback' = None /\ UNCHANGED <<signal, claimed>>
    BY <1>8, <2>2 DEF undo
  <2>3. CASE Moves(i, "undo_claim", "idle") /\ claimed' = FALSE /\ UNCHANGED <<signal, callback>>
    BY <1>8, <2>3, Zenon DEF undo
  <2> QED
    BY ONLY <1>8, <2>1, <2>2, <2>3, Zenon DEF undo
<1>9. ASSUME NEW i \in Installers, restore(i) PROVE ContextInv'
  BY <1>9 DEF restore, kept
<1>10. ASSUME NEW t \in Takers, arrive(t) PROVE ContextInv'
  BY <1>10, Zenon DEF arrive
<1>11. ASSUME NEW t \in Takers, load_callback(t) PROVE ContextInv'
  BY <1>11 DEF load_callback
<1>12. ASSUME NEW t \in Takers, load_data(t) PROVE ContextInv'
  BY <1>12 DEF load_data
<1>13. ASSUME NEW t \in Takers, leave(t) PROVE ContextInv'
  BY <1>13, Zenon DEF leave, NoCall
<1> QED
  BY ONLY Zenon, <1>1, <1>2, <1>3, <1>4, <1>5, <1>6, <1>7, <1>8, <1>9, <1>10, <1>11, <1>12, <1>13,
     [ContextNext]_context_vars DEF ContextNext

\* It says what a callback may rely on.
LEMMA ContextHolds == ContextInv => CallbacksAreWhole
BY NoneIsNothing DEF ContextInv, InstallerIsSound, TakerIsSound, Fixed, Past, CallbacksAreWhole

-----------------------------------------------------------------------------
\* The wake channel.  The descriptor of the slot is open and never replaced; whoever
\* is past wake_descriptor has that one, and whoever is about to publish has one of
\* its own (`wake_descriptor`).
Has_slot == {"has", "timed", "forever", "drain"}
\* The descriptor a caller has at each step.
CallerIsSound(t) ==
    /\ where[t] \in Has_slot => slot # NoFd /\ fd[t] = slot
    /\ where[t] = "publish" => fd[t] \in DOMAIN counters /\ fd[t] # slot
\* The inductive invariant of the channel: a wake that is owed is in the counter of the
\* slot's descriptor.
WakeInv ==
    /\ where \in [Callers -> {"idle", "create", "publish"} \union Has_slot]
    /\ fd \in [Callers -> Int]
    /\ owed \in BOOLEAN /\ revents \in BOOLEAN
    /\ DOMAIN counters \subseteq Nat
    /\ counters \in [DOMAIN counters -> Nat]
    /\ slot = NoFd \/ slot \in DOMAIN counters
    /\ \A t \in Callers : CallerIsSound(t)
    /\ \A t, u \in Callers : where[t] = "publish" /\ where[u] = "publish" /\ fd[t] = fd[u] => t = u
    /\ \A f \in DOMAIN counters : f = slot \/ \E t \in Callers : where[t] = "publish" /\ fd[t] = f
    /\ owed => slot # NoFd /\ counters[slot] > 0

\* Before the first poll or wake.
LEMMA WakeBegins == WakeInit => WakeInv
<1> SUFFICES ASSUME WakeInit PROVE WakeInv
  BY Zenon
<1>1. counters \in [{} -> Nat] /\ DOMAIN counters = {}
  BY DEF WakeInit
<1>2. where \in [Callers -> {"idle", "create", "publish"} \union Has_slot] /\ fd \in [Callers -> Int]
  BY DEF WakeInit, Has_slot, NoFd
<1> QED
  BY <1>1, <1>2, Zenon DEF WakeInit, WakeInv, CallerIsSound, Has_slot

\* Every step of the poll and of the wakers keeps it.
LEMMA WakeStays == WakeInv /\ [WakeNext]_wake_vars => WakeInv'
<1> SUFFICES ASSUME WakeInv, [WakeNext]_wake_vars PROVE WakeInv'
  BY Zenon
<1> USE PollerWakesNobody, CounterHolds DEF WakeInv, CallerIsSound, Has_slot, Goes, NoFd
<1>0. Poller \in Callers /\ Wakers \subseteq Callers
  BY Zenon DEF Callers
<1>1. CASE UNCHANGED wake_vars
  BY <1>1, Zenon DEF wake_vars
<1>2. ASSUME NEW t \in Callers, wake_load(t) PROVE WakeInv'
  BY <1>2 DEF wake_load, Loaded
<1>3. ASSUME NEW t \in Callers, eventfd(t) PROVE WakeInv'
  <2>1. CASE where' = [where EXCEPT ![t] = "idle"] /\ UNCHANGED <<counters, fd>>
    BY <1>3, <2>1, Zenon DEF eventfd
  <2>2. ASSUME NEW new \in Numbers \ DOMAIN counters,
               counters' = [f \in DOMAIN counters \union {new} |-> IF f = new THEN 0 ELSE counters[f]],
               fd' = [fd EXCEPT ![t] = new],
               where' = [where EXCEPT ![t] = "publish"]
        PROVE  WakeInv'
    <3>1. new \in Nat /\ new # NoFd
      BY DEF Numbers
    <3>2. DOMAIN counters' = DOMAIN counters \union {new}
      BY <2>2, Zenon
    <3> QED
      BY <1>3, <2>2, <3>1, <3>2 DEF eventfd
  <2> QED
    BY <1>3, <2>1, <2>2, Zenon DEF eventfd
<1>4. ASSUME NEW t \in Callers, publish(t) PROVE WakeInv'
  <2>1. CASE slot = NoFd
    BY <1>4, <2>1 DEF publish, published
  <2>2. CASE slot # NoFd
    <3>1. DOMAIN counters' = DOMAIN counters \ {fd[t]} /\ \A f \in DOMAIN counters' : counters'[f] = counters[f]
      BY <1>4, <2>2, Zenon DEF publish, published, Restrict
    <3> QED
      BY <1>4, <2>2, <3>1 DEF publish, published, Restrict
  <2> QED
    BY <2>1, <2>2, Zenon
<1>5. ASSUME NEW t \in Callers, wake(t) PROVE WakeInv'
  <2>1. counters[slot] \in Nat /\ counters'[slot] > 0 /\ slot # NoFd /\ DOMAIN counters' = DOMAIN counters
    BY <1>5 DEF wake
  <2>2. counters' \in [DOMAIN counters -> Nat]
    BY <1>5 DEF wake
  <2> QED
    BY <1>5, <2>1, <2>2, Zenon DEF wake
<1>6. ASSUME NEW last \in Lasts \union {"idle"}, poll(last) PROVE WakeInv'
  BY <1>0, <1>6 DEF poll, Lasts
<1>7. CASE ppoll
  <2>0. Readable \in BOOLEAN
    BY <1>0, <1>7 DEF ppoll, Lasts, Readable
  <2>1. revents' \in BOOLEAN
    BY ONLY <1>7, <2>0, WakeInv, Zenon DEF ppoll, WakeInv
  <2>2. PICK to \in {"drain", "idle"} : where' = [where EXCEPT ![Poller] = to]
    BY <1>7, Zenon DEF ppoll
  <2>3. where[Poller] \in {"timed", "forever"} /\ UNCHANGED <<slot, counters, fd, owed>>
    BY <1>7, Zenon DEF ppoll, Lasts
  <2> QED
    BY <1>0, <2>1, <2>2, <2>3
<1>8. CASE drain
  <2>1. CASE revents
    BY <1>0, <1>8, <2>1, Zenon DEF drain, drains
  <2>2. CASE ~revents
    BY <1>0, <1>8, <2>2 DEF drain, drains
  <2> QED
    BY <2>1, <2>2, Zenon
<1> QED
  BY ONLY <1>1, <1>2, <1>3, <1>4, <1>5, <1>6, <1>7, <1>8, [WakeNext]_wake_vars, Zenon DEF WakeNext

\* It says that wakes are kept.
LEMMA WakeHolds == WakeInv => WakesAreKept
<1> SUFFICES ASSUME WakeInv PROVE WakesAreKept
  BY Zenon
<1> DEFINE publishing == {fd[t] : t \in {u \in Callers : where[u] = "publish"}}
<1>1. ASSUME NEW f \in DOMAIN counters PROVE f \in ({slot} \ {NoFd}) \union publishing
  BY DEF WakeInv, NoFd
<1>2. ASSUME NEW f \in ({slot} \ {NoFd}) \union publishing PROVE f \in DOMAIN counters
  BY DEF WakeInv, CallerIsSound
<1>3. DOMAIN counters = ({slot} \ {NoFd}) \union publishing
  BY <1>1, <1>2, Zenon
<1> QED
  BY <1>3, Zenon DEF WakeInv, WakesAreKept

-----------------------------------------------------------------------------
\* The read of a watcher: what the hook was told and what is left are the timeout.
ReadsInv ==
    /\ timeout \in 0 .. FOREVER /\ left \in Nat /\ waited \in Nat
    /\ timeout = FOREVER => waited = 0
    /\ timeout # FOREVER => waited + left = timeout

\* Before the first read.
LEMMA ReadsBegin == ReadsInit => ReadsInv
BY WaitsAreNumbers DEF ReadsInit, ReadsInv, FOREVER

\* A slice is no longer than what is left.
LEMMA SliceFits == ASSUME NEW rest \in Nat PROVE slice(rest) \in 0 .. rest
<1>1. \E x \in {rest, WAIT_SLICE} : \A y \in {rest, WAIT_SLICE} : x <= y
  BY WaitsAreNumbers
<1> QED
  BY <1>1, WaitsAreNumbers DEF slice, Min

\* Every step of the read keeps it.
LEMMA ReadsStay == ReadsInv /\ [ReadsNext]_reads_vars => ReadsInv'
<1> SUFFICES ASSUME ReadsInv, [ReadsNext]_reads_vars PROVE ReadsInv'
  BY Zenon
<1> USE WaitsAreNumbers DEF ReadsInv, FOREVER
<1>1. CASE UNCHANGED reads_vars
  BY <1>1, Zenon DEF reads_vars
<1>2. CASE hook_waits
  BY <1>2, SliceFits DEF hook_waits
<1>3. CASE event \/ look \/ pause \/ tick
  BY <1>3, Zenon DEF event, look, pause, tick
<1>4. ASSUME NEW limit \in 0 .. FOREVER, read(limit) PROVE ReadsInv'
  BY <1>4 DEF read
<1> QED
  BY <1>1, <1>2, <1>3, <1>4, Zenon DEF ReadsNext

\* It says that no wait is longer than asked.
LEMMA ReadsHold == ReadsInv => WaitsAreBounded
BY WaitsAreNumbers DEF ReadsInv, WaitsAreBounded, FOREVER

-----------------------------------------------------------------------------
\* The locks of a file.  Over(l, b): the lock covers the byte; Says(l): the mode that
\* its owner has of it.
AllLocks == [owner : Handles, whole : BOOLEAN, start : 0 .. END, end : 0 .. END, exclusive : BOOLEAN]
\* The bytes and the mode of a lock.
Over(l, b) == l.start <= b /\ b < l.end
Says(l) == IF l.exclusive THEN "EXCLUSIVE" ELSE "SHARED"
\* What the handles have been told about every byte.
Covering == [Handles -> [BOOLEAN -> [Bytes -> Modes]]]

\* Locks that exclude each other as they should, and the bytes they cover.
Apart(L) ==
    /\ L \subseteq AllLocks
    /\ \A l \in L : l.start < l.end
    /\ \A one, two \in L : one # two /\ meets(one, two) =>
          one.owner # two.owner /\ ~one.exclusive /\ ~two.exclusive
\* The handles have exactly the locks that they were told of.
Told(L, cover) ==
    /\ cover \in Covering
    /\ \A l \in L, b \in Bytes : Over(l, b) => cover[l.owner][l.whole][b] = Says(l)
    /\ \A h \in Handles, w \in BOOLEAN, b \in Bytes : cover[h][w][b] # "UNLOCK" =>
          \E l \in L : l.owner = h /\ l.whole = w /\ Over(l, b)

\* x is l, or what is left of l beside the bytes of wanted.
Within(x, l) ==
    /\ x.owner = l.owner /\ x.whole = l.whole /\ x.exclusive = l.exclusive
    /\ l.start <= x.start /\ x.end <= l.end

\* A piece of a lock keeps its owner, its kind and its mode, and misses what is wanted.
LEMMA PieceIsWithin ==
    ASSUME NEW l \in AllLocks, NEW wanted \in AllLocks, l.start < l.end, wanted.start < wanted.end,
           meets(l, wanted), NEW x \in pieces(l, wanted)
    PROVE  /\ x \in AllLocks /\ Within(x, l) /\ x.start < x.end
           /\ x.end <= wanted.start \/ wanted.end <= x.start
<1>1. CASE x = [l EXCEPT !.end = wanted.start]
  BY <1>1 DEF AllLocks, Within, pieces, meets
<1>2. CASE x = [l EXCEPT !.start = wanted.end]
  BY <1>2 DEF AllLocks, Within, pieces, meets
<1> QED
  BY <1>1, <1>2, Zenon DEF pieces

\* Two pieces of one lock lie on the two sides of what is wanted.
LEMMA PiecesAreApart ==
    ASSUME NEW l \in AllLocks, NEW wanted \in AllLocks, l.start < l.end, wanted.start < wanted.end,
           meets(l, wanted), NEW x \in pieces(l, wanted), NEW y \in pieces(l, wanted), x # y
    PROVE  ~meets(x, y)
BY DEF AllLocks, pieces, meets

\* A byte of a lock that is not wanted is in one of its pieces.
LEMMA PiecesCover ==
    ASSUME NEW l \in AllLocks, NEW wanted \in AllLocks, NEW b \in Bytes, Over(l, b), ~Over(wanted, b)
    PROVE  \E x \in pieces(l, wanted) : x.owner = l.owner /\ x.whole = l.whole /\ Over(x, b)
<1> USE FilesHaveBytes DEF AllLocks, Over, Bytes
<1>1. CASE b < wanted.start
  <2>1. [l EXCEPT !.end = wanted.start] \in pieces(l, wanted)
    BY <1>1 DEF pieces
  <2> QED
    BY <1>1, <2>1, Zenon
<1>2. CASE wanted.end <= b
  <2>1. [l EXCEPT !.start = wanted.end] \in pieces(l, wanted)
    BY <1>2 DEF pieces
  <2> QED
    BY <1>2, <2>1, Zenon
<1> QED
  BY <1>1, <1>2

\* What relock leaves: the lock asked for, locks it has nothing to do with, and what
\* is left of those of the owner that were in the way.
LEMMA RelockedMembers ==
    ASSUME NEW L, NEW m, NEW wanted, NEW x
    PROVE  x \in Relocked(L, m, wanted) <=>
             \/ x \in L /\ ~(x.owner = wanted.owner /\ meets(x, wanted))
             \/ \E l \in L : l.owner = wanted.owner /\ meets(l, wanted) /\ x \in pieces(l, wanted)
             \/ m # "UNLOCK" /\ x = wanted
<1> DEFINE own_locks == {l \in L : l.owner = wanted.owner /\ meets(l, wanted)}
           rest == UNION {pieces(l, wanted) : l \in own_locks}
           asked == IF m = "UNLOCK" THEN {} ELSE {wanted}
<1>1. Relocked(L, m, wanted) = (L \ own_locks) \union rest \union asked
  BY Zenon DEF Relocked
<1>2. x \in rest <=> \E l \in L : l.owner = wanted.owner /\ meets(l, wanted) /\ x \in pieces(l, wanted)
  BY Zenon
<1>3. x \in asked <=> m # "UNLOCK" /\ x = wanted
  BY Zenon
<1>4. x \in L \ own_locks <=> x \in L /\ ~(x.owner = wanted.owner /\ meets(x, wanted))
  BY Zenon
<1> HIDE DEF own_locks, rest, asked
<1> QED
  BY <1>1, <1>2, <1>3, <1>4, Zenon

\* relock keeps the locks apart, and does to the bytes what was asked.
LEMMA RelockIsExact ==
    ASSUME NEW L, NEW cover, NEW m \in Modes, NEW wanted \in AllLocks,
           Apart(L), Told(L, cover),
           wanted.start < wanted.end, wanted.exclusive = (m = "EXCLUSIVE"),
           m # "UNLOCK" => ~Blocked(L, wanted)
    PROVE  /\ Apart(Relocked(L, m, wanted))
           /\ Told(Relocked(L, m, wanted), Covers(cover, wanted, m))
<1> DEFINE R == Relocked(L, m, wanted)
           new == Covers(cover, wanted, m)
<1>1. ASSUME NEW x \in R, x # wanted \/ m = "UNLOCK"
      PROVE  /\ x \in AllLocks /\ x.start < x.end
             /\ \E l \in L : /\ Within(x, l)
                             /\ \/ x = l /\ ~(l.owner = wanted.owner /\ meets(l, wanted))
                                \/ l.owner = wanted.owner /\ meets(l, wanted) /\ x \in pieces(l, wanted)
             /\ ~(x.owner = wanted.owner /\ meets(x, wanted))
  <2>1. CASE x \in L /\ ~(x.owner = wanted.owner /\ meets(x, wanted))
    BY <2>1 DEF Apart, AllLocks, Within
  <2>2. ASSUME NEW l \in L, l.owner = wanted.owner /\ meets(l, wanted) /\ x \in pieces(l, wanted)
        PROVE  /\ x \in AllLocks /\ x.start < x.end /\ Within(x, l) /\ ~meets(x, wanted)
    <3>1. l \in AllLocks /\ l.start < l.end
      BY Zenon DEF Apart
    <3>2. /\ x \in AllLocks /\ Within(x, l) /\ x.start < x.end
          /\ x.end <= wanted.start \/ wanted.end <= x.start
      BY <2>2, <3>1, PieceIsWithin, Zenon
    <3> QED
      BY <3>2 DEF meets, AllLocks
  <2> QED
    BY <1>1, <2>1, <2>2, RelockedMembers
<1>2. R \subseteq AllLocks /\ \A x \in R : x.start < x.end
  BY <1>1, Zenon
<1>3. ASSUME NEW x \in R, NEW y \in R, x # y, meets(x, y), x # wanted \/ m = "UNLOCK", y # wanted \/ m = "UNLOCK"
      PROVE  x.owner # y.owner /\ ~x.exclusive /\ ~y.exclusive
  <2>1. PICK l \in L : /\ Within(x, l)
                       /\ \/ x = l /\ ~(l.owner = wanted.owner /\ meets(l, wanted))
                          \/ l.owner = wanted.owner /\ meets(l, wanted) /\ x \in pieces(l, wanted)
    BY <1>1, <1>3, Zenon
  <2>2. PICK k \in L : /\ Within(y, k)
                       /\ \/ y = k /\ ~(k.owner = wanted.owner /\ meets(k, wanted))
                          \/ k.owner = wanted.owner /\ meets(k, wanted) /\ y \in pieces(k, wanted)
    BY <1>1, <1>3, Zenon
  <2>3. l \in AllLocks /\ k \in AllLocks /\ x \in AllLocks /\ y \in AllLocks /\ l.start < l.end /\ k.start < k.end
    BY <1>2, Zenon DEF Apart
  <2>4. l # k
    BY <1>3, <2>1, <2>2, <2>3, PiecesAreApart, Zenon
  <2>5. meets(l, k)
    <3>1. x.whole = y.whole /\ x.start < y.end /\ y.start < x.end
      BY <1>3, Zenon DEF meets
    <3>2. l.whole = x.whole /\ k.whole = y.whole /\ l.start <= x.start /\ x.end <= l.end /\ k.start <= y.start /\ y.end <= k.end
      BY <2>1, <2>2, Zenon DEF Within
    <3> QED
      BY <2>3, <3>1, <3>2 DEF meets, AllLocks
  <2>6. l.owner # k.owner /\ ~l.exclusive /\ ~k.exclusive
    BY <2>4, <2>5, Zenon DEF Apart
  <2> QED
    BY <2>1, <2>2, <2>6, Zenon DEF Within
<1>4. ASSUME NEW x \in R, x # wanted, meets(x, wanted), m # "UNLOCK"
      PROVE  x.owner # wanted.owner /\ ~x.exclusive /\ ~wanted.exclusive
  <2>1. x.owner # wanted.owner
    BY <1>1, <1>4, Zenon
  <2>2. x \in L
    BY <1>1, <1>4, <2>1, Zenon DEF Within
  <2> QED
    BY <1>4, <2>1, <2>2, Zenon DEF Blocked
<1>5. Apart(R)
  <2>1. ASSUME NEW x \in R, NEW y \in R, x # y, meets(x, y)
        PROVE  x.owner # y.owner /\ ~x.exclusive /\ ~y.exclusive
    <3>1. meets(y, x)
      BY <2>1, <1>2, Zenon DEF meets, AllLocks
    <3> QED
      BY <2>1, <3>1, <1>3, <1>4, Zenon
  <2> QED
    BY <1>2, <2>1, Zenon DEF Apart
<1>6. /\ new \in Covering
      /\ \A h \in Handles, w \in BOOLEAN, b \in Bytes :
            new[h][w][b] = IF h = wanted.owner /\ w = wanted.whole /\ Over(wanted, b) THEN m ELSE cover[h][w][b]
  BY DEF Covers, Over, Told, Covering, AllLocks
<1>7. ASSUME NEW x \in R, NEW b \in Bytes, Over(x, b) PROVE new[x.owner][x.whole][b] = Says(x)
  <2>1. CASE x = wanted /\ m # "UNLOCK"
    BY <1>6, <1>7, <2>1, Zenon DEF Says, Modes, AllLocks
  <2>2. CASE x # wanted \/ m = "UNLOCK"
    <3>1. PICK l \in L : Within(x, l)
      BY <1>1, <2>2, Zenon
    <3>2. l \in AllLocks /\ x \in AllLocks /\ ~(x.owner = wanted.owner /\ meets(x, wanted))
      BY <1>1, <2>2, Zenon DEF Apart
    <3>3. ~(x.owner = wanted.owner /\ x.whole = wanted.whole /\ Over(wanted, b))
      BY <1>7, <3>2, FilesHaveBytes DEF meets, Over, AllLocks, Bytes
    <3>4. Over(l, b)
      BY <1>7, <3>1, <3>2, FilesHaveBytes DEF Over, Within, AllLocks, Bytes
    <3>5. cover[l.owner][l.whole][b] = Says(l)
      BY <3>4, Zenon DEF Told
    <3> QED
      BY <1>6, <3>1, <3>2, <3>3, <3>5 DEF Within, Says, AllLocks
  <2> QED
    BY <2>1, <2>2, Zenon
<1>8. ASSUME NEW h \in Handles, NEW w \in BOOLEAN, NEW b \in Bytes, new[h][w][b] # "UNLOCK"
      PROVE  \E x \in R : x.owner = h /\ x.whole = w /\ Over(x, b)
  <2>1. CASE h = wanted.owner /\ w = wanted.whole /\ Over(wanted, b)
    BY <1>6, <1>8, <2>1, RelockedMembers, Zenon
  <2>2. CASE ~(h = wanted.owner /\ w = wanted.whole /\ Over(wanted, b))
    <3>1. cover[h][w][b] # "UNLOCK"
      BY <1>6, <1>8, <2>2, Zenon
    <3>2. PICK l \in L : l.owner = h /\ l.whole = w /\ Over(l, b)
      BY <3>1 DEF Told
    <3>3. CASE ~(l.owner = wanted.owner /\ meets(l, wanted))
      BY <3>2, <3>3, RelockedMembers, Zenon
    <3>4. CASE l.owner = wanted.owner /\ meets(l, wanted)
      <4>1. ~Over(wanted, b) /\ l \in AllLocks
        BY <2>2, <3>2, <3>4, Zenon DEF meets, Apart
      <4>2. PICK x \in pieces(l, wanted) : x.owner = l.owner /\ x.whole = l.whole /\ Over(x, b)
        BY <3>2, <4>1, PiecesCover, Zenon
      <4> QED
        BY <3>2, <3>4, <4>2, RelockedMembers, Zenon
    <3> QED
      BY <3>3, <3>4, Zenon
  <2> QED
    BY <2>1, <2>2, Zenon
<1> HIDE DEF R, new
<1>9. Told(R, new)
  BY <1>6, <1>7, <1>8, Zenon DEF Told
<1> QED
  BY <1>5, <1>9, Zenon DEF R, new

-----------------------------------------------------------------------------
\* The inductive invariant of the locks: only open handles hold or wait for one.
LocksInv ==
    /\ Apart(locks) /\ Told(locks, covered)
    /\ access \in [Handles -> SUBSET {"READ", "WRITE"}]
    /\ waits \in [Handles -> Modes]
    /\ \A h \in Handles : waits[h] # "UNLOCK" => access[h] # {}
    /\ \A l \in locks : access[l.owner] # {}

\* Before a file is opened.
LEMMA LocksBegin == LocksInit => LocksInv
<1> SUFFICES ASSUME LocksInit PROVE LocksInv
  BY Zenon
<1>1. covered \in Covering /\ \A h \in Handles, w \in BOOLEAN, b \in Bytes : covered[h][w][b] = "UNLOCK"
  BY Zenon DEF LocksInit, Covering, Modes
<1>2. Apart(locks) /\ Told(locks, covered)
  BY <1>1, Zenon DEF LocksInit, Apart, Told
<1> QED
  BY <1>2, Zenon DEF LocksInit, LocksInv, Modes

\* The lock of a whole file is a lock, and giving up is asking for none.
LEMMA WholeIsLock ==
    ASSUME NEW h \in Handles, NEW m \in Modes
    PROVE  /\ Whole(h, m) \in AllLocks /\ Whole(h, m).start < Whole(h, m).end
           /\ Whole(h, m).exclusive = (m = "EXCLUSIVE") /\ Whole(h, m).owner = h
BY FilesHaveBytes DEF Whole, Lock, AllLocks, Modes

\* Every lock that relock leaves is one that was there, a piece of one, or the one asked
\* for, so that its owner is an owner of before or the caller.
LEMMA RelockedOwners ==
    ASSUME NEW L, Apart(L), NEW m, NEW wanted \in AllLocks, wanted.start < wanted.end,
           NEW x \in Relocked(L, m, wanted)
    PROVE  x.owner = wanted.owner \/ x \in L
<1>1. ASSUME NEW l \in L, l.owner = wanted.owner /\ meets(l, wanted) /\ x \in pieces(l, wanted)
      PROVE  x.owner = wanted.owner
  BY <1>1, PieceIsWithin, Zenon DEF Apart, Within
<1> QED
  BY <1>1, RelockedMembers

\* Giving up and asking anew, as one attempt of lock does.
LEMMA GivenUp ==
    ASSUME NEW h \in Handles, NEW m \in Modes, LocksInv
    PROVE  /\ Apart(given_up(locks, h)) /\ Told(given_up(locks, h), Covers(covered, Whole(h, m), "UNLOCK"))
           /\ \A l \in given_up(locks, h) : l.owner = h \/ l \in locks
<1>1. "UNLOCK" \in Modes
  BY Zenon DEF Modes
<1>2. Covers(covered, Whole(h, m), "UNLOCK") = Covers(covered, Whole(h, "UNLOCK"), "UNLOCK")
  BY Zenon DEF Covers, Whole, Lock
<1>3. Whole(h, "UNLOCK") \in AllLocks /\ Whole(h, "UNLOCK").start < Whole(h, "UNLOCK").end
      /\ Whole(h, "UNLOCK").exclusive = ("UNLOCK" = "EXCLUSIVE") /\ Whole(h, "UNLOCK").owner = h
  BY <1>1, WholeIsLock, Zenon
<1>4. Apart(locks) /\ Told(locks, covered)
  BY Zenon DEF LocksInv
<1>5. Apart(given_up(locks, h)) /\ Told(given_up(locks, h), Covers(covered, Whole(h, "UNLOCK"), "UNLOCK"))
  BY <1>1, <1>3, <1>4, RelockIsExact, Zenon DEF given_up
<1>6. \A l \in given_up(locks, h) : l.owner = h \/ l \in locks
  BY <1>3, <1>4, RelockedOwners, Zenon DEF given_up
<1> QED
  BY <1>2, <1>5, <1>6, Zenon

\* One attempt keeps the invariant, whatever comes of it.
LEMMA AttemptStays ==
    ASSUME LocksInv, NEW h \in Handles, NEW m \in Modes, NEW stays \in BOOLEAN,
           access[h] # {}, Attempt(h, m, stays)
    PROVE  LocksInv'
<1> DEFINE free == given_up(locks, h)
           without == Covers(covered, Whole(h, m), "UNLOCK")
           blocked == m # "UNLOCK" /\ Blocked(free, Whole(h, m))
<1>1. /\ Apart(free) /\ Told(free, without)
      /\ \A l \in free : l.owner = h \/ l \in locks
  BY GivenUp, Zenon
<1>2. /\ Whole(h, m) \in AllLocks /\ Whole(h, m).start < Whole(h, m).end
      /\ Whole(h, m).exclusive = (m = "EXCLUSIVE") /\ Whole(h, m).owner = h
  BY WholeIsLock, Zenon
<1>3. ~blocked => /\ Apart(Relocked(free, m, Whole(h, m)))
                  /\ Told(Relocked(free, m, Whole(h, m)), Covers(without, Whole(h, m), m))
                  /\ \A l \in Relocked(free, m, Whole(h, m)) : l.owner = h \/ l \in free
  BY <1>1, <1>2, RelockIsExact, RelockedOwners, Zenon
<1>4. Covers(without, Whole(h, m), m) = Covers(covered, Whole(h, m), m)
  <2>1. covered \in Covering
    BY Zenon DEF LocksInv, Told
  <2> QED
    BY <1>2, <2>1, Zenon DEF Covers, Covering, AllLocks
<1>5. PICK w \in Modes : waits' = [waits EXCEPT ![h] = w]
  BY Zenon DEF Attempt, Modes
<1>6. Apart(locks') /\ Told(locks', covered') /\ \A l \in locks' : l.owner = h \/ l \in locks
  <2>1. CASE ~blocked /\ locks' = Relocked(free, m, Whole(h, m)) /\ covered' = Covers(covered, Whole(h, m), m)
    BY <2>1, <1>1, <1>3, <1>4, Zenon
  <2>2. CASE locks' = free /\ covered' = without
    BY <2>2, <1>1, Zenon
  <2>3. CASE UNCHANGED <<locks, covered>>
    BY <2>3, Zenon DEF LocksInv
  <2> QED
    BY <2>1, <2>2, <2>3, Zenon DEF Attempt
<1>7. access' = access
  BY Zenon DEF Attempt
<1> HIDE DEF free, without, blocked
<1> QED
  BY <1>5, <1>6, <1>7, Zenon DEF LocksInv

\* Every call keeps it.
LEMMA LocksStay == LocksInv /\ [LocksNext]_locks_vars => LocksInv'
<1> SUFFICES ASSUME LocksInv, [LocksNext]_locks_vars PROVE LocksInv'
  BY Zenon
<1>1. CASE UNCHANGED locks_vars
  BY <1>1, Zenon DEF locks_vars, LocksInv
<1>2. ASSUME NEW h \in Handles, NEW rights \in {{"READ"}, {"READ", "WRITE"}}, open(h, rights) PROVE LocksInv'
  BY <1>2 DEF open, LocksInv
<1>3. ASSUME NEW h \in Handles, close(h) PROVE LocksInv'
  <2>1. Apart(locks')
    BY <1>3, Zenon DEF close, LocksInv, Apart
  <2>2. covered' \in Covering
    BY <1>3, Zenon DEF close, LocksInv, Told, Covering, Modes
  <2>3. ASSUME NEW l \in locks', NEW b \in Bytes, Over(l, b) PROVE covered'[l.owner][l.whole][b] = Says(l)
    BY <1>3, <2>3, Zenon DEF close, LocksInv, Told, Covering, Apart, AllLocks
  <2>4. ASSUME NEW k \in Handles, NEW w \in BOOLEAN, NEW b \in Bytes, covered'[k][w][b] # "UNLOCK"
        PROVE  \E l \in locks' : l.owner = k /\ l.whole = w /\ Over(l, b)
    BY <1>3, <2>4 DEF close, LocksInv, Told, Covering
  <2>5. Told(locks', covered')
    BY <2>2, <2>3, <2>4, Zenon DEF Told
  <2> QED
    BY <1>3, <2>1, <2>5, Zenon DEF close, Idle, LocksInv, Apart, AllLocks
<1>4. ASSUME NEW h \in Handles, again(h) PROVE LocksInv'
  BY <1>4, AttemptStays, Zenon DEF again, LocksInv
<1>5. ASSUME NEW h \in Handles, NEW m \in Modes, NEW stays \in BOOLEAN, lock_file(h, m, stays) PROVE LocksInv'
  BY <1>5, AttemptStays, Zenon DEF lock_file, Idle
<1>6. ASSUME NEW h \in Handles, NEW m \in Modes, NEW offset \in 0 .. END, NEW until_byte \in 0 .. END,
             lock_range(h, offset, until_byte, m)
      PROVE  LocksInv'
  <2> DEFINE wanted == Lock(h, FALSE, offset, until_byte, m = "EXCLUSIVE")
  <2>1. wanted \in AllLocks /\ wanted.start < wanted.end /\ wanted.exclusive = (m = "EXCLUSIVE") /\ wanted.owner = h
    BY <1>6, Zenon DEF lock_range, Lock, AllLocks
  <2>2. /\ locks' = Relocked(locks, m, wanted) /\ covered' = Covers(covered, wanted, m)
        /\ m # "UNLOCK" => ~Blocked(locks, wanted)
        /\ access[h] # {} /\ UNCHANGED <<access, waits>>
    BY <1>6, Zenon DEF lock_range, Idle
  <2> HIDE DEF wanted
  <2>3. Apart(locks) /\ Told(locks, covered)
    BY Zenon DEF LocksInv
  <2>4. Apart(locks') /\ Told(locks', covered')
    BY <2>1, <2>2, <2>3, RelockIsExact, Zenon
  <2>5. \A l \in locks' : l.owner = h \/ l \in locks
    BY <2>1, <2>2, <2>3, RelockedOwners, Zenon
  <2> QED
    BY <2>2, <2>4, <2>5, Zenon DEF LocksInv
<1> QED
  BY <1>1, <1>2, <1>3, <1>4, <1>5, <1>6, Zenon DEF LocksNext

\* It says that the locks are exact.
LEMMA LocksHold == LocksInv => LocksAreExact
<1> SUFFICES ASSUME LocksInv PROVE LocksAreExact
  BY Zenon
<1>1. ASSUME NEW h \in Handles, NEW whole \in BOOLEAN, NEW b \in Bytes
      PROVE  covered[h][whole][b] =
              LET own_locks == {l \in locks : l.owner = h /\ l.whole = whole /\ l.start <= b /\ b < l.end}
              IN  IF own_locks = {} THEN "UNLOCK"
                  ELSE IF \E l \in own_locks : l.exclusive THEN "EXCLUSIVE" ELSE "SHARED"
  <2> DEFINE own_locks == {l \in locks : l.owner = h /\ l.whole = whole /\ l.start <= b /\ b < l.end}
  <2>1. \A l \in own_locks : covered[h][whole][b] = Says(l)
    BY DEF LocksInv, Told, Over
  <2>2. covered[h][whole][b] # "UNLOCK" => own_locks # {}
    BY DEF LocksInv, Told, Over
  <2>3. \A l \in own_locks : l.exclusive \in BOOLEAN
    BY Zenon DEF LocksInv, Apart, AllLocks
  <2> HIDE DEF own_locks
  <2>4. covered[h][whole][b] = IF own_locks = {} THEN "UNLOCK"
                  ELSE IF \E l \in own_locks : l.exclusive THEN "EXCLUSIVE" ELSE "SHARED"
    BY <2>1, <2>2, <2>3, Zenon DEF Says
  <2> QED
    BY <2>4, Zenon DEF own_locks
<1> QED
  BY <1>1, Zenon DEF LocksInv, Apart, LocksAreExact
-----------------------------------------------------------------------------
(* What threads share, together.  A behaviour is about one kind, whose     *)
(* steps are the only ones.                                                *)
SharedInv ==
    /\ kind = "wake" => WakeInv
    /\ kind = "barrier" => BarrierInv
    /\ kind = "context" => ContextInv
    /\ kind = "locks" => LocksInv
    /\ kind = "read" => ReadsInv

\* Every kind begins as it should.
LEMMA SharedBegins == ObjectsInit => SharedInv
BY WakeBegins, BarrierBegins, ContextBegins, LocksBegin, ReadsBegin, Zenon DEF ObjectsInit, SharedInv

\* A step is one of the kind the behaviour is about.
LEMMA SharedStays == SharedInv /\ [ObjectsNext]_all => SharedInv'
<1> SUFFICES ASSUME SharedInv, [ObjectsNext]_all PROVE SharedInv'
  BY Zenon
<1>1. kind' = kind
  BY Zenon DEF ObjectsNext, all, OfWake, OfLocks, OfRead
<1>2. kind = "wake" => [WakeNext]_wake_vars
  BY Zenon DEF ObjectsNext, all, linux, OfWake, OfLocks, OfRead
<1>3. kind = "barrier" => [BarrierNext]_barrier_vars
  BY Zenon DEF ObjectsNext, all, linux, OfWake, OfLocks, OfRead
<1>4. kind = "context" => [ContextNext]_context_vars
  BY Zenon DEF ObjectsNext, all, linux, OfWake, OfLocks, OfRead
<1>5. kind = "locks" => [LocksNext]_locks_vars
  BY Zenon DEF ObjectsNext, all, memory, OfWake, OfLocks, OfRead
<1>6. kind = "read" => [ReadsNext]_reads_vars
  BY Zenon DEF ObjectsNext, all, memory, OfWake, OfLocks, OfRead
<1> QED
  BY ONLY SharedInv, <1>1, <1>2, <1>3, <1>4, <1>5, <1>6, WakeStays, BarrierStays, ContextStays, LocksStay, ReadsStay, Zenon
     DEF SharedInv

\* What threads share through a provider stays whole, for any threads, handles, bytes
\* and counters, whoever comes first to the words they share: a wake is not lost to the
\* race for the eventfd, one barrier mode is told and works, a callback meets its own
\* data, a file's locks exclude and cover what was asked, and a read does not outwait
\* its timeout (`wake_descriptor`, `barrier_mode`, `install`, `relock`, `Watches::read`).
THEOREM SharedStaysWhole == ObjectsSpec => []SharedIsWhole
<1>1. SharedInv => SharedIsWhole
  BY WakeHolds, BarrierHolds, ContextHolds, LocksHold, ReadsHold, Zenon DEF SharedInv, SharedIsWhole
<1> QED
  BY <1>1, SharedBegins, SharedStays, PTL DEF ObjectsSpec
=============================================================================
