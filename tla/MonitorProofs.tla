---------------------------- MODULE MonitorProofs ----------------------------
(***************************************************************************)
(* The monitors of System.Native, for any number of threads and monitors:  *)
(* no wake-up is lost, spurious or left over, and the events and mutexes   *)
(* they are made of are used as Events and Mutexes allow.                  *)
(***************************************************************************)
EXTENDS LowLevelMonitor, TLAPS

-----------------------------------------------------------------------------
\* The waiters of a monitor that no signal has chosen.
Queued(m) == {t \in Threads : mon[t] = m /\ Waiting(t) /\ ~signaled[t]}
\* The queues hold them, each once (see QueueHoldsWaiters).
QueuesHold == \A m \in Monitors : IsInjective(queue[m]) /\ Range(queue[m]) = Queued(m)

\* What a thread has at each step of a wait: its event is set exactly between the
\* signal and the event_wait that takes it, a wait that came back without it has a
\* limit, and the event is in the slot that all threads use.
ThreadIsSound(t) ==
    /\ event[t] => Waiting(t) /\ signaled[t]
    /\ pc[t] = "event_wait" /\ signaled[t] => event[t]
    /\ pc[t] = "reacquire" /\ status[t] = "OK" => signaled[t] /\ ~event[t]
    /\ pc[t] = "reacquire" /\ status[t] # "OK" => timeout[t] # "INFINITE"
    /\ tls[t] \subseteq {waiter_slot}
    /\ pc[t] = "slot_get" => waiter_slot # NoThread
    /\ pc[t] \in {"enqueue", "event_wait", "reacquire"} => tls[t] # {}

\* Who is inside a monitor holds its mutex, nobody else does, and the monitors that
\* are used exist.
HoldersAreInside ==
    /\ \A t \in Threads : Inside(t) => holder[mon[t]] = t
    /\ \A t \in Threads : pc[t] \notin {"outside", "exited"} => exists[mon[t]]
    /\ \A m \in Monitors, t \in Threads : holder[m] = t => Inside(t) /\ mon[t] = m

\* The inductive invariant of the monitors.
MonitorInv == TypeOK /\ QueuesHold /\ (\A t \in Threads : ThreadIsSound(t)) /\ HoldersAreInside

-----------------------------------------------------------------------------
(* What the three changes of a queue do to it.                             *)

\* A waiter at the end of a queue it was not in (`m->tail->next = &self`).
LEMMA Appended ==
    ASSUME NEW q \in Seq(Threads), IsInjective(q), NEW t \in Threads \ Range(q)
    PROVE  /\ Append(q, t) \in Seq(Threads) /\ IsInjective(Append(q, t))
           /\ Range(Append(q, t)) = Range(q) \union {t}
<1>1. /\ Len(q) \in Nat /\ DOMAIN q = 1 .. Len(q) /\ DOMAIN Append(q, t) = 1 .. Len(q) + 1
      /\ Append(q, t) \in Seq(Threads) /\ Append(q, t)[Len(q) + 1] = t
      /\ \A i \in 1 .. Len(q) : Append(q, t)[i] = q[i]
  OBVIOUS
<1>2. \A i \in 1 .. Len(q) : q[i] # t
  BY <1>1, Zenon DEF Range
<1>3. \A i \in 1 .. Len(q) + 1 : i \in 1 .. Len(q) \/ i = Len(q) + 1
  BY <1>1
<1>4. \A i \in 1 .. Len(q) : i \in 1 .. Len(q) + 1
  BY <1>1
<1>5. Len(q) + 1 \in 1 .. Len(q) + 1
  BY <1>1
<1>6. IsInjective(Append(q, t))
  BY <1>1, <1>2, <1>3, Zenon DEF IsInjective
<1>7. Range(Append(q, t)) = Range(q) \union {t}
  BY <1>1, <1>3, <1>4, <1>5, Zenon DEF Range
<1> QED BY <1>1, <1>6, <1>7, Zenon

\* The oldest waiter leaves (`m->head = w->next`).
LEMMA Headed ==
    ASSUME NEW q \in Seq(Threads), IsInjective(q), q # <<>>
    PROVE  /\ Head(q) \in Range(q) /\ Tail(q) \in Seq(Threads) /\ IsInjective(Tail(q))
           /\ Range(Tail(q)) = Range(q) \ {Head(q)}
<1>1. /\ Len(q) \in Nat /\ Len(q) > 0 /\ DOMAIN q = 1 .. Len(q) /\ Head(q) = q[1]
      /\ Tail(q) \in Seq(Threads) /\ DOMAIN Tail(q) = 1 .. Len(q) - 1
      /\ \A i \in 1 .. Len(q) - 1 : Tail(q)[i] = q[i + 1]
  OBVIOUS
<1>2. /\ 1 \in 1 .. Len(q)
      /\ \A i \in 1 .. Len(q) - 1 : i + 1 \in 1 .. Len(q) /\ i + 1 # 1
      /\ \A i \in 1 .. Len(q) : i # 1 => i - 1 \in 1 .. Len(q) - 1 /\ i = (i - 1) + 1
  BY <1>1
<1>3. \A i, j \in 1 .. Len(q) : q[i] = q[j] => i = j
  BY <1>1, Zenon DEF IsInjective
<1>4. IsInjective(Tail(q))
  <2>1. ASSUME NEW i \in 1 .. Len(q) - 1, NEW j \in 1 .. Len(q) - 1, Tail(q)[i] = Tail(q)[j] PROVE i = j
    <3>1. q[i + 1] = q[j + 1]
      BY <1>1, <2>1, Zenon
    <3>2. i + 1 = j + 1
      BY <1>2, <1>3, <3>1, Zenon
    <3> QED BY <3>2
  <2> QED BY <1>1, <2>1, Zenon DEF IsInjective
<1>5. Range(Tail(q)) \subseteq Range(q) \ {Head(q)}
  <2>1. ASSUME NEW i \in 1 .. Len(q) - 1 PROVE Tail(q)[i] \in Range(q) /\ Tail(q)[i] # Head(q)
    <3>1. Tail(q)[i] = q[i + 1] /\ i + 1 \in 1 .. Len(q) /\ i + 1 # 1
      BY <1>1, <1>2, Zenon
    <3>2. q[i + 1] # q[1]
      BY <1>2, <1>3, <3>1, Zenon
    <3> QED BY <1>1, <3>1, <3>2, Zenon DEF Range
  <2> QED BY <1>1, <2>1, Zenon DEF Range
<1>6. ASSUME NEW i \in 1 .. Len(q), i # 1 PROVE q[i] \in Range(Tail(q))
  <2>1. Tail(q)[i - 1] = q[i]
    BY <1>1, <1>2, <1>6, Zenon
  <2> QED BY <1>1, <1>2, <1>6, <2>1, Zenon DEF Range
<1>7. Range(q) \ {Head(q)} \subseteq Range(Tail(q))
  BY <1>1, <1>6, Zenon DEF Range
<1> QED BY <1>1, <1>2, <1>4, <1>5, <1>7, Zenon DEF Range

\* A waiter leaves from where it is (`*link = self.next`).
LEMMA Unlinked ==
    ASSUME NEW q \in Seq(Threads), IsInjective(q), NEW t \in Range(q)
    PROVE  /\ unlink(q, t) \in Seq(Threads) /\ IsInjective(unlink(q, t))
           /\ Range(unlink(q, t)) = Range(q) \ {t}
<1>1. Len(q) \in Nat /\ DOMAIN q = 1 .. Len(q)
  OBVIOUS
<1>2. PICK i \in 1 .. Len(q) : q[i] = t
  BY <1>1, Zenon DEF Range
<1>3. \A j, k \in 1 .. Len(q) : q[j] = q[k] => j = k
  BY <1>1, Zenon DEF IsInjective
<1> DEFINE r == [j \in 1 .. Len(q) - 1 |-> IF j < i THEN q[j] ELSE q[j + 1]]
<1>4. unlink(q, t) = r
  <2> DEFINE places == {j \in DOMAIN q : q[j] = t}
             first == CHOOSE k \in places : \A j \in places : k <= j
  <2>1. places = {i}
    BY <1>1, <1>2, <1>3, Zenon
  <2>2. i <= i
    BY <1>1, <1>2
  <2>3. first = i
    BY <2>1, <2>2, Zenon
  <2>4. unlink(q, t) = IF places = {} THEN q
                       ELSE [j \in 1 .. Len(q) - 1 |-> IF j < first THEN q[j] ELSE q[j + 1]]
    BY Zenon DEF unlink
  <2> HIDE DEF places, first
  <2> QED BY <2>1, <2>3, <2>4, Zenon
<1>5. /\ Len(q) - 1 \in Nat
      /\ \A j \in 1 .. Len(q) - 1 : r[j] = IF j < i THEN q[j] ELSE q[j + 1]
  BY <1>1, <1>2
<1>6. /\ r \in Seq(Threads) /\ Len(r) = Len(q) - 1 /\ DOMAIN r = 1 .. Len(q) - 1
      /\ \A j \in 1 .. Len(q) - 1 : r[j] = IF j < i THEN q[j] ELSE q[j + 1]
  <2>1. \A j \in 1 .. Len(q) - 1 : r[j] \in Threads
    BY <1>1, <1>2, <1>5
  <2>2. r \in [1 .. Len(q) - 1 -> Threads]
    BY <2>1, Zenon
  <2>3. DOMAIN r = 1 .. Len(q) - 1
    BY Zenon
  <2> HIDE DEF r
  <2>4. r \in Seq(Threads) /\ Len(r) = Len(q) - 1
    BY <1>5, <2>2
  <2> QED BY <1>5, <2>3, <2>4, Zenon
<1> HIDE DEF r
<1>7. ASSUME NEW j \in 1 .. Len(q) - 1, NEW k \in 1 .. Len(q) - 1, r[j] = r[k] PROVE j = k
  BY <1>1, <1>3, <1>6, <1>7
<1>8. ASSUME NEW j \in 1 .. Len(q) - 1 PROVE r[j] \in Range(q) \ {t}
  <2>1. PICK k \in 1 .. Len(q) : r[j] = q[k] /\ k # i
    BY <1>1, <1>2, <1>6
  <2> QED BY <1>1, <1>2, <1>3, <2>1, Zenon DEF Range
<1>9. ASSUME NEW k \in 1 .. Len(q), k # i PROVE \E j \in 1 .. Len(q) - 1 : r[j] = q[k]
  <2>1. CASE k < i
    BY <1>1, <1>2, <1>6, <2>1
  <2>2. CASE k > i
    <3>1. k - 1 \in 1 .. Len(q) - 1 /\ ~(k - 1 < i) /\ (k - 1) + 1 = k
      BY <1>1, <1>2, <2>2
    <3> QED BY <3>1, <1>6, Zenon
  <2> QED BY <1>1, <1>2, <1>9, <2>1, <2>2
<1>10. Range(r) = Range(q) \ {t}
  <2>1. Range(r) = {r[j] : j \in 1 .. Len(q) - 1} /\ Range(q) = {q[j] : j \in 1 .. Len(q)}
    BY <1>1, <1>6, Zenon DEF Range
  <2>2. Range(r) \subseteq Range(q) \ {t}
    BY <1>8, <2>1, Zenon
  <2>3. \A k \in 1 .. Len(q) : q[k] # t => q[k] \in Range(r)
    BY <1>2, <1>9, <2>1, Zenon
  <2> QED BY <2>1, <2>2, <2>3, Zenon
<1>11. IsInjective(r)
  BY <1>6, <1>7, Zenon DEF IsInjective
<1> QED BY <1>4, <1>6, <1>10, <1>11, Zenon

-----------------------------------------------------------------------------
(* The steps.                                                              *)

\* It holds before a monitor is created.
LEMMA MonitorsBegin == Init => MonitorInv
<1> SUFFICES ASSUME Init PROVE MonitorInv
  BY Zenon
<1>1. TypeOK
  <2>1. <<>> \in Seq(Threads)
    OBVIOUS
  <2> QED BY <2>1, Zenon DEF Init, TypeOK, Timeouts, Places
<1>2. \A m \in Monitors : IsInjective(queue[m]) /\ Range(queue[m]) = {}
  <2>1. DOMAIN <<>> = {}
    OBVIOUS
  <2> QED BY <2>1, Zenon DEF Init, IsInjective, Range
<1>3. \A m \in Monitors : Queued(m) = {}
  BY Zenon DEF Init, Queued, Waiting
<1>4. \A t \in Threads : ThreadIsSound(t)
  BY Zenon DEF Init, ThreadIsSound
<1>5. HoldersAreInside
  BY NoThreadIsNone, Zenon DEF Init, HoldersAreInside, Inside
<1> QED BY <1>1, <1>2, <1>3, <1>4, <1>5, Zenon DEF MonitorInv, QueuesHold

\* A step that no waiter takes or sees leaves the queues right.
LEMMA NoWaiterMoves ==
    ASSUME QueuesHold, queue' = queue, signaled' = signaled,
           \A u \in Threads : Waiting(u)' <=> Waiting(u),
           \A u \in Threads : Waiting(u) => mon'[u] = mon[u]
    PROVE  QueuesHold'
<1>1. \A m \in Monitors : Queued(m)' = Queued(m)
  BY Zenon DEF Queued
<1> QED BY <1>1, Zenon DEF QueuesHold

\* Create and Destroy: nobody uses the monitor.
LEMMA ExistenceKeeps ==
    ASSUME MonitorInv, NEW t \in Threads, NEW m \in Monitors, Create(t, m) \/ Destroy(t, m)
    PROVE  MonitorInv'
<1>1. UNCHANGED <<holder, queue, waits, mon, pc>> /\ exists' \in [Monitors -> BOOLEAN]
  BY Zenon DEF Create, Destroy, MonitorInv, TypeOK
<1>2. TypeOK'
  BY <1>1, Zenon DEF MonitorInv, TypeOK, waits
<1>3. QueuesHold'
  BY <1>1, NoWaiterMoves, Zenon DEF MonitorInv, Waiting, waits
<1>4. \A u \in Threads : ThreadIsSound(u)'
  BY <1>1, Zenon DEF MonitorInv, ThreadIsSound, Waiting, waits
<1>5. \A u \in Threads : pc[u] \notin {"outside", "exited"} => exists'[mon[u]]
  <2>1. \A u \in Threads : mon[u] \in Monitors /\ (pc[u] \notin {"outside", "exited"} => exists[mon[u]])
    BY Zenon DEF MonitorInv, TypeOK, HoldersAreInside
  <2>2. CASE Create(t, m)
    <3>1. \A n \in Monitors : exists'[n] = IF n = m THEN TRUE ELSE exists[n]
      BY <2>2, Zenon DEF Create, MonitorInv, TypeOK
    <3> QED BY <2>1, <3>1, Zenon
  <2>3. CASE Destroy(t, m)
    <3>1. \A n \in Monitors : n # m => exists'[n] = exists[n]
      BY <2>3, Zenon DEF Destroy, MonitorInv, TypeOK
    <3>2. \A u \in Threads : mon[u] = m => pc[u] \in {"outside", "exited"}
      BY <2>3, Zenon DEF Destroy
    <3> QED BY <2>1, <3>1, <3>2, Zenon
  <2> QED BY <2>2, <2>3, Zenon
<1>6. HoldersAreInside'
  BY <1>1, <1>5, Zenon DEF MonitorInv, HoldersAreInside, Inside
<1> QED BY <1>2, <1>3, <1>4, <1>6, Zenon DEF MonitorInv

\* Acquire, from outside.
LEMMA AcquireKeeps ==
    ASSUME MonitorInv, NEW t \in Threads, NEW m \in Monitors, Acquire(t, m)
    PROVE  MonitorInv'
<1> USE DEF MonitorInv
<1>1. TypeOK'
  BY Zenon DEF Acquire, Goto, TypeOK, waits, Places
<1>2. \A u \in Threads : pc'[u] = (IF u = t THEN "held" ELSE pc[u]) /\ mon'[u] = (IF u = t THEN m ELSE mon[u])
  BY Zenon DEF Acquire, Goto, TypeOK
<1>3. QueuesHold'
  BY <1>2, NoWaiterMoves, Zenon DEF Acquire, Waiting, waits
<1>4. \A u \in Threads : ThreadIsSound(u)'
  BY <1>2, Zenon DEF Acquire, ThreadIsSound, Waiting, waits
<1>5. HoldersAreInside'
  <2>1. \A n \in Monitors : holder'[n] = IF n = m THEN t ELSE holder[n]
    BY Zenon DEF Acquire, TypeOK
  <2>2. exists' = exists /\ exists[m] /\ holder[m] = NoThread /\ pc[t] = "outside"
    BY Zenon DEF Acquire
  <2>3. \A u \in Threads : Inside(u)' <=> u = t \/ Inside(u)
    BY <1>2, Zenon DEF Inside
  <2>4. ASSUME NEW u \in Threads, Inside(u)' PROVE holder'[mon'[u]] = u
    <3>1. CASE u = t
      BY <1>2, <2>1, <3>1, Zenon
    <3>2. CASE u # t
      <4>1. holder[mon[u]] = u /\ mon[u] \in Monitors /\ mon'[u] = mon[u]
        BY <1>2, <2>3, <2>4, <3>2, Zenon DEF TypeOK, HoldersAreInside
      <4>2. mon[u] # m
        BY <2>2, <4>1, NoThreadIsNone, Zenon
      <4> QED BY <2>1, <4>1, <4>2, Zenon
    <3> QED BY <3>1, <3>2, Zenon
  <2>5. \A u \in Threads : pc'[u] \notin {"outside", "exited"} => exists'[mon'[u]]
    BY <1>2, <2>2, Zenon DEF HoldersAreInside
  <2>6. ASSUME NEW n \in Monitors, NEW u \in Threads, holder'[n] = u PROVE Inside(u)' /\ mon'[u] = n
    <3>1. CASE n = m
      BY <3>1, <1>2, <2>1, <2>3, <2>6, Zenon
    <3>2. CASE n # m
      <4>1. Inside(u) /\ mon[u] = n
        BY <3>2, <2>1, <2>6, Zenon DEF HoldersAreInside
      <4>2. u # t
        BY <4>1, <2>2, Zenon DEF Inside
      <4> QED BY <4>1, <4>2, <1>2, <2>3, Zenon
    <3> QED BY <3>1, <3>2, Zenon
  <2> QED BY <2>4, <2>5, <2>6, Zenon DEF HoldersAreInside
<1> QED BY <1>1, <1>3, <1>4, <1>5, Zenon

\* What a thread that holds a monitor may assume: it alone is inside.
LEMMA AloneInside ==
    ASSUME MonitorInv, NEW t \in Threads, Inside(t)
    PROVE  /\ mon[t] \in Monitors /\ holder[mon[t]] = t /\ t # NoThread
           /\ \A u \in Threads : Inside(u) /\ mon[u] = mon[t] => u = t
           /\ \A n \in Monitors : n # mon[t] => holder[n] # t
BY NoThreadIsNone, Zenon DEF MonitorInv, TypeOK, HoldersAreInside

\* A step inside a monitor, or to its outside, leaves the mutexes right when it gives
\* the mutex back exactly when it leaves.
LEMMA HoldersFollow ==
    ASSUME MonitorInv, NEW t \in Threads, Inside(t), mon' = mon, exists' = exists,
           NEW place \in Places, Goto(t, place), place \notin {"exited", "reacquire"},
           Inside(t)' => holder' = holder, ~Inside(t)' => Unlock(t)
    PROVE  HoldersAreInside'
<1> USE DEF MonitorInv
<1>1. \A u \in Threads : pc'[u] = IF u = t THEN place ELSE pc[u]
  BY Zenon DEF Goto, TypeOK
<1>2. \A u \in Threads : u # t => (Inside(u)' <=> Inside(u))
  BY <1>1, Zenon DEF Inside
<1>3. \A u \in Threads : pc'[u] \notin {"outside", "exited"} => exists'[mon'[u]]
  BY <1>1, Zenon DEF HoldersAreInside, Inside
<1>4. CASE Inside(t)'
  <2>1. \A u \in Threads : Inside(u)' <=> Inside(u)
    BY <1>2, <1>4, Zenon
  <2> QED BY <1>3, <1>4, <2>1, Zenon DEF HoldersAreInside
<1>5. CASE ~Inside(t)'
  <2>1. \A n \in Monitors : holder'[n] = IF n = mon[t] THEN NoThread ELSE holder[n]
    BY <1>5, Zenon DEF Unlock, TypeOK
  <2>2. \A u \in Threads : Inside(u)' => u # t /\ Inside(u) /\ mon[u] # mon[t] /\ mon[u] \in Monitors
    BY <1>2, <1>5, AloneInside, Zenon DEF TypeOK
  <2>3. \A u \in Threads : Inside(u)' => holder'[mon'[u]] = u
    BY <2>1, <2>2, Zenon DEF HoldersAreInside
  <2>4. ASSUME NEW n \in Monitors, NEW u \in Threads, holder'[n] = u PROVE Inside(u)' /\ mon'[u] = n
    <3>1. n # mon[t] /\ holder[n] = u
      BY <2>1, <2>4, NoThreadIsNone, Zenon
    <3>2. u # t /\ Inside(u) /\ mon[u] = n
      BY <3>1, AloneInside, Zenon DEF HoldersAreInside
    <3> QED BY <1>2, <3>2, Zenon
  <2> QED BY <1>3, <2>3, <2>4, Zenon DEF HoldersAreInside
<1> QED BY <1>4, <1>5, Zenon

\* Release: the holder leaves.
LEMMA ReleaseKeeps ==
    ASSUME MonitorInv, NEW t \in Threads, Release(t)
    PROVE  MonitorInv'
<1> USE DEF MonitorInv
<1>1. TypeOK'
  BY Zenon DEF Release, Unlock, Goto, TypeOK, waits, Places
<1>2. \A u \in Threads : pc'[u] = IF u = t THEN "outside" ELSE pc[u]
  BY Zenon DEF Release, Goto, TypeOK
<1>3. QueuesHold'
  BY <1>2, NoWaiterMoves, Zenon DEF Release, Waiting, waits
<1>4. \A u \in Threads : ThreadIsSound(u)'
  BY <1>2, Zenon DEF Release, ThreadIsSound, Waiting, waits
<1>5. HoldersAreInside'
  BY <1>2, HoldersFollow, Zenon DEF Release, Inside, Places
<1> QED BY <1>1, <1>3, <1>4, <1>5, Zenon

\* The start of a wait: the slot of the events, and the thread's own.
LEMMA PreparesKeep ==
    ASSUME MonitorInv, NEW t \in Threads,
           (\E ns \in Timeouts : Wait(t, ns)) \/ publish_slot(t) \/ get_event(t)
    PROVE  MonitorInv'
<1> USE DEF MonitorInv
<1>1. PICK place \in {"slot_create", "slot_get", "enqueue"} : Goto(t, place)
  BY Zenon DEF Wait, publish_slot, get_event
<1>2. Inside(t) /\ UNCHANGED <<exists, holder, queue, signaled, status, mon, answer>>
  BY Zenon DEF Wait, publish_slot, get_event, Inside
<1>3. \A u \in Threads : pc'[u] = IF u = t THEN place ELSE pc[u]
  BY <1>1, Zenon DEF Goto, TypeOK
<1>4. waiter_slot # NoThread => waiter_slot' = waiter_slot
  BY Zenon DEF Wait, publish_slot, get_event
<1>5. TypeOK'
  <2>1. pc' \in [Threads -> Places]
    BY <1>1, Zenon DEF Goto, TypeOK, Places
  <2>2. timeout' \in [Threads -> Timeouts] /\ waiter_slot' \in Threads \union {NoThread}
    BY Zenon DEF Wait, publish_slot, get_event, TypeOK
  <2>3. tls' \in [Threads -> SUBSET Threads] /\ event' \in [Threads -> BOOLEAN]
    <3>1. CASE UNCHANGED <<tls, event>>
      BY <3>1, Zenon DEF TypeOK
    <3>2. CASE get_event(t)
      <4>1. waiter_slot \in Threads
        BY <3>2, Zenon DEF get_event, TypeOK, ThreadIsSound
      <4>2. tls \in [Threads -> SUBSET Threads] /\ event \in [Threads -> BOOLEAN] /\ tls[t] \union {waiter_slot} \in SUBSET Threads
        BY <4>1, Zenon DEF TypeOK
      <4>3. tls' = tls \/ tls' = [tls EXCEPT ![t] = tls[t] \union {waiter_slot}]
        BY <3>2, Zenon DEF get_event
      <4>4. event' = event \/ event' = [event EXCEPT ![t] = FALSE]
        BY <3>2, Zenon DEF get_event
      <4>5. tls' \in [Threads -> SUBSET Threads]
        BY <4>2, <4>3, Zenon
      <4>6. event' \in [Threads -> BOOLEAN]
        BY <4>2, <4>4, Zenon
      <4> QED BY <4>5, <4>6, Zenon
    <3> QED BY <3>1, <3>2, Zenon DEF Wait, publish_slot
  <2> QED BY <1>2, <2>1, <2>2, <2>3, Zenon DEF TypeOK
<1>6. QueuesHold'
  BY <1>2, <1>3, NoWaiterMoves, Zenon DEF Inside, Waiting
<1>7. ASSUME NEW u \in Threads, u # t PROVE ThreadIsSound(u)'
  <2>1. pc'[u] = pc[u] /\ tls'[u] = tls[u] /\ event'[u] = event[u] /\ timeout'[u] = timeout[u]
    BY <1>3, <1>7, Zenon DEF Wait, publish_slot, get_event, TypeOK
  <2>2. tls[u] \subseteq {waiter_slot} /\ tls[u] \subseteq Threads
    BY <1>7, Zenon DEF ThreadIsSound, TypeOK
  <2>3. tls[u] \subseteq {waiter_slot'}
    BY <1>4, <2>2, NoThreadIsNone, Zenon
  <2> QED BY <1>2, <1>4, <2>1, <2>3, NoThreadIsNone, Zenon DEF ThreadIsSound, Waiting
<1>8. ThreadIsSound(t)'
  <2>1. ~event[t] /\ tls[t] \subseteq {waiter_slot}
    BY <1>2, Zenon DEF ThreadIsSound, Inside, Waiting
  <2>2. ~event'[t] /\ pc'[t] = place
    BY <2>1, <1>3, Zenon DEF Wait, publish_slot, get_event, TypeOK
  <2>3. tls'[t] \subseteq {waiter_slot'}
    <3>1. CASE get_event(t)
      BY <3>1, <2>1, Zenon DEF get_event, TypeOK
    <3>2. CASE tls' = tls
      <4>1. tls[t] \subseteq Threads
        BY Zenon DEF TypeOK
      <4>2. tls'[t] = tls[t]
        BY <3>2, Zenon
      <4> QED BY <4>1, <4>2, <2>1, <1>4, NoThreadIsNone, Zenon
    <3> QED BY <3>1, <3>2, Zenon DEF Wait, publish_slot
  <2>4. place = "slot_get" => waiter_slot' # NoThread
    <3>1. CASE \E ns \in Timeouts : Wait(t, ns)
      BY <3>1, <1>3, Zenon DEF Wait, Goto, TypeOK
    <3>2. CASE publish_slot(t)
      BY <3>2, NoThreadIsNone, Zenon DEF publish_slot
    <3>3. CASE get_event(t)
      <4>1. pc'[t] = "enqueue"
        BY <3>3, Zenon DEF get_event, Goto, TypeOK
      <4> QED BY <4>1, <2>2, Zenon
    <3> QED BY <3>1, <3>2, <3>3, Zenon
  <2>5. place = "enqueue" => tls'[t] # {}
    <3>1. CASE \E ns \in Timeouts : Wait(t, ns)
      <4>1. pc'[t] # "enqueue"
        BY <3>1, Zenon DEF Wait, Goto, TypeOK
      <4> QED BY <4>1, <2>2, Zenon
    <3>2. CASE publish_slot(t)
      <4>1. pc'[t] # "enqueue"
        BY <3>2, Zenon DEF publish_slot, Goto, TypeOK
      <4> QED BY <4>1, <2>2, Zenon
    <3>3. CASE get_event(t)
      <4>1. CASE waiter_slot \in tls[t]
        BY <3>3, <4>1, Zenon DEF get_event
      <4>2. CASE waiter_slot \notin tls[t]
        <5>1. tls'[t] = tls[t] \union {waiter_slot}
          BY <3>3, <4>2, Zenon DEF get_event, TypeOK
        <5> QED BY <5>1, Zenon
      <4> QED BY <4>1, <4>2, Zenon
    <3> QED BY <3>1, <3>2, <3>3, Zenon
  <2> QED BY <2>2, <2>3, <2>4, <2>5, Zenon DEF ThreadIsSound
<1>9. HoldersAreInside'
  <2>1. Inside(t)' /\ place \in Places /\ place \notin {"exited", "reacquire"}
    BY <1>3, Zenon DEF Inside, Places
  <2> QED BY <1>1, <1>2, <2>1, HoldersFollow, Zenon
<1> QED BY <1>5, <1>6, <1>7, <1>8, <1>9, Zenon

\* The waiter joins its queue and gives the monitor back.
LEMMA EnqueueKeeps ==
    ASSUME MonitorInv, NEW t \in Threads, enqueue(t)
    PROVE  MonitorInv'
<1> USE DEF MonitorInv
<1> DEFINE m == mon[t]
<1>1. /\ m \in Monitors /\ pc[t] = "enqueue" /\ ~Waiting(t) /\ ~event[t]
      /\ \A u \in Threads : pc'[u] = IF u = t THEN "event_wait" ELSE pc[u]
      /\ \A u \in Threads : signaled'[u] = IF u = t THEN FALSE ELSE signaled[u]
      /\ \A n \in Monitors : queue'[n] = IF n = m THEN Append(queue[m], t) ELSE queue[n]
  BY Zenon DEF enqueue, Goto, TypeOK, Waiting, ThreadIsSound
<1>2. /\ Append(queue[m], t) \in Seq(Threads) /\ IsInjective(Append(queue[m], t))
      /\ Range(Append(queue[m], t)) = Queued(m) \union {t}
  <2>1. queue[m] \in Seq(Threads) /\ IsInjective(queue[m]) /\ Range(queue[m]) = Queued(m)
    BY <1>1, Zenon DEF TypeOK, QueuesHold
  <2>2. t \notin Range(queue[m])
    BY <1>1, <2>1, Zenon DEF Queued
  <2> QED BY <2>1, <2>2, Appended, Zenon
<1>3. TypeOK'
  BY <1>2, Zenon DEF enqueue, Unlock, Goto, TypeOK, Places
<1>4. \A n \in Monitors : Queued(n)' = IF n = m THEN Queued(n) \union {t} ELSE Queued(n)
  <2>1. mon' = mon /\ \A u \in Threads : Waiting(u)' <=> u = t \/ Waiting(u)
    BY <1>1, Zenon DEF enqueue, Waiting
  <2>2. \A n \in Monitors, u \in Threads : u \in Queued(n)' <=> u \in Queued(n) \/ (u = t /\ n = m)
    BY <1>1, <2>1, Zenon DEF Queued
  <2>3. \A n \in Monitors : Queued(n) \subseteq Threads /\ Queued(n)' \subseteq Threads
    BY Zenon DEF Queued
  <2> QED BY <2>2, <2>3, Zenon
<1>5. QueuesHold'
  BY <1>1, <1>2, <1>4, Zenon DEF QueuesHold
<1>6. \A u \in Threads : ThreadIsSound(u)'
  BY <1>1, Zenon DEF enqueue, ThreadIsSound, Waiting
<1>7. HoldersAreInside'
  <2>1. Inside(t) /\ ~Inside(t)' /\ "event_wait" \in Places
    BY <1>1, Zenon DEF Inside, Places
  <2> QED BY <2>1, HoldersFollow, Zenon DEF enqueue
<1> QED BY <1>3, <1>5, <1>6, <1>7, Zenon

\* The mutexes are right after a step outside them that keeps the thread on its monitor.
LEMMA HoldersStay ==
    ASSUME MonitorInv, NEW t \in Threads, ~Inside(t), mon' = mon, exists' = exists, holder' = holder,
           NEW place \in {"outside", "exited", "reacquire"}, Goto(t, place),
           place = "reacquire" => pc[t] = "event_wait"
    PROVE  HoldersAreInside'
<1>1. \A u \in Threads : pc'[u] = IF u = t THEN place ELSE pc[u]
  BY Zenon DEF Goto, MonitorInv, TypeOK
<1>2. \A u \in Threads : Inside(u)' <=> Inside(u)
  BY <1>1, Zenon DEF Inside
<1> QED BY <1>1, <1>2, Zenon DEF MonitorInv, HoldersAreInside

\* The wait for the event ends.
LEMMA EventWaitKeeps ==
    ASSUME MonitorInv, NEW t \in Threads, event_wait(t)
    PROVE  MonitorInv'
<1> USE DEF MonitorInv
<1>1. \A u \in Threads : pc'[u] = IF u = t THEN "reacquire" ELSE pc[u]
  BY Zenon DEF event_wait, Goto, TypeOK
<1>2. TypeOK'
  BY Zenon DEF event_wait, Goto, TypeOK, Places
<1>3. QueuesHold'
  BY <1>1, NoWaiterMoves, Zenon DEF event_wait, Waiting
<1>4. ASSUME NEW u \in Threads, u # t PROVE ThreadIsSound(u)'
  <2>1. pc'[u] = pc[u] /\ event'[u] = event[u] /\ status'[u] = status[u]
    BY <1>1, <1>4, Zenon DEF event_wait, TypeOK
  <2> QED BY <2>1, <1>4, Zenon DEF event_wait, ThreadIsSound, Waiting
<1>5. ThreadIsSound(t)'
  <2>1. pc[t] = "event_wait" /\ pc'[t] = "reacquire" /\ ThreadIsSound(t)
    BY <1>1, Zenon DEF event_wait
  <2>2. UNCHANGED <<waiter_slot, tls, signaled, timeout>>
    BY Zenon DEF event_wait
  <2>3. CASE event[t] /\ event' = [event EXCEPT ![t] = FALSE] /\ status' = [status EXCEPT ![t] = "OK"]
    BY <2>1, <2>2, <2>3, Zenon DEF ThreadIsSound, Waiting, TypeOK
  <2>4. CASE ~event[t] /\ timeout[t] # "INFINITE" /\ status' = [status EXCEPT ![t] = "TIMEOUT"] /\ event' = event
    BY <2>1, <2>2, <2>4, Zenon DEF ThreadIsSound, Waiting, TypeOK
  <2> QED BY <2>3, <2>4, Zenon DEF event_wait
<1>6. HoldersAreInside'
  BY HoldersStay, Zenon DEF event_wait, Inside
<1> QED BY <1>2, <1>3, <1>4, <1>5, <1>6, Zenon

\* The wait returns: the waiter is off the queue, and its event is unset.
LEMMA ReacquireKeeps ==
    ASSUME MonitorInv, NEW t \in Threads, reacquire(t)
    PROVE  MonitorInv'
<1> USE DEF MonitorInv
<1> DEFINE m == mon[t]
<1>1. /\ m \in Monitors /\ pc[t] = "reacquire" /\ Waiting(t) /\ holder[m] = NoThread /\ ThreadIsSound(t)
      /\ UNCHANGED <<exists, waiter_slot, tls, mon>>
      /\ \A u \in Threads : pc'[u] = IF u = t THEN "held" ELSE pc[u]
      /\ \A u \in Threads : signaled'[u] = IF u = t THEN FALSE ELSE signaled[u]
      /\ \A n \in Monitors : holder'[n] = IF n = m THEN t ELSE holder[n]
  BY Zenon DEF reacquire, Return, Goto, TypeOK, Waiting
<1>2. \A n \in Monitors : Queued(n)' = Queued(n) \ {t}
  <2>1. \A u \in Threads : Waiting(u)' <=> u # t /\ Waiting(u)
    BY <1>1, Zenon DEF Waiting
  <2>2. \A n \in Monitors, u \in Threads : u \in Queued(n)' <=> u \in Queued(n) /\ u # t
    BY <1>1, <2>1, Zenon DEF Queued
  <2>3. \A n \in Monitors : Queued(n) \subseteq Threads /\ Queued(n)' \subseteq Threads
    BY Zenon DEF Queued
  <2> QED BY <2>2, <2>3, Zenon
<1>3. \A n \in Monitors : queue'[n] \in Seq(Threads) /\ IsInjective(queue'[n]) /\ Range(queue'[n]) = Queued(n) \ {t}
  <2>1. \A n \in Monitors : queue[n] \in Seq(Threads) /\ IsInjective(queue[n]) /\ Range(queue[n]) = Queued(n)
    BY Zenon DEF TypeOK, QueuesHold
  <2>2. CASE signaled[t]
    <3>1. queue' = queue /\ \A n \in Monitors : t \notin Queued(n)
      BY <2>2, Zenon DEF reacquire, Queued
    <3> QED BY <2>1, <3>1, Zenon
  <2>3. CASE ~signaled[t]
    <3>1. \A n \in Monitors : queue'[n] = IF n = m THEN unlink(queue[m], t) ELSE queue[n]
      <4>1. queue' = [queue EXCEPT ![m] = unlink(queue[m], t)]
        BY <2>3, Zenon DEF reacquire
      <4> QED BY <1>1, <4>1, Zenon DEF TypeOK
    <3>2. t \in Range(queue[m]) /\ \A n \in Monitors : n # m => t \notin Queued(n)
      BY <1>1, <2>1, <2>3, Zenon DEF Queued
    <3>3. /\ unlink(queue[m], t) \in Seq(Threads) /\ IsInjective(unlink(queue[m], t))
          /\ Range(unlink(queue[m], t)) = Range(queue[m]) \ {t}
      BY <1>1, <2>1, <3>2, Unlinked, Zenon
    <3> QED BY <1>1, <2>1, <3>1, <3>2, <3>3, Zenon
  <2> QED BY <2>2, <2>3, Zenon
<1>4. QueuesHold'
  BY <1>2, <1>3, Zenon DEF QueuesHold
<1>5. TypeOK'
  <2>1. queue' \in [Monitors -> Seq(Threads)]
    <3>1. queue \in [Monitors -> Seq(Threads)] /\ queue'[m] \in Seq(Threads)
      BY <1>1, <1>3, Zenon DEF TypeOK
    <3>2. queue' = queue \/ queue' = [queue EXCEPT ![m] = unlink(queue[m], t)]
      BY Zenon DEF reacquire
    <3>3. CASE queue' = [queue EXCEPT ![m] = unlink(queue[m], t)]
      <4>1. unlink(queue[m], t) \in Seq(Threads)
        BY <1>1, <3>1, <3>3, Zenon
      <4> QED BY <3>1, <3>3, <4>1, Zenon
    <3> QED BY <3>1, <3>2, <3>3, Zenon
  <2>2. event' \in [Threads -> BOOLEAN] /\ answer' \in {0, 1}
    BY Zenon DEF reacquire, Return, TypeOK
  <2>3. /\ holder' \in [Monitors -> Threads \union {NoThread}] /\ pc' \in [Threads -> Places]
        /\ signaled' \in [Threads -> BOOLEAN] /\ status' \in [Threads -> {"OK", "TIMEOUT"}]
        /\ timeout' \in [Threads -> Timeouts]
    BY Zenon DEF reacquire, Return, Goto, TypeOK, Places, Timeouts
  <2> QED BY <1>1, <2>1, <2>2, <2>3, Zenon DEF TypeOK
<1>6. ASSUME NEW u \in Threads, u # t PROVE ThreadIsSound(u)'
  <2>1. pc'[u] = pc[u] /\ event'[u] = event[u] /\ status'[u] = status[u] /\ timeout'[u] = timeout[u] /\ signaled'[u] = signaled[u]
    BY <1>6, Zenon DEF reacquire, Return, Goto, TypeOK
  <2> QED BY <2>1, <1>1, <1>6, Zenon DEF ThreadIsSound, Waiting
<1>7. ThreadIsSound(t)'
  <2>1. ~event'[t]
    BY <1>1, Zenon DEF reacquire, ThreadIsSound, TypeOK
  <2> QED BY <2>1, <1>1, Zenon DEF ThreadIsSound
<1>8. HoldersAreInside'
  <2>1. \A u \in Threads : Inside(u)' <=> u = t \/ Inside(u)
    BY <1>1, Zenon DEF Inside
  <2>2. ASSUME NEW u \in Threads, Inside(u)' PROVE holder'[mon'[u]] = u
    <3>1. CASE u = t
      BY <1>1, <3>1, Zenon
    <3>2. CASE u # t
      <4>1. holder[mon[u]] = u /\ mon[u] \in Monitors /\ mon' = mon
        BY <1>1, <2>1, <2>2, <3>2, Zenon DEF TypeOK, HoldersAreInside
      <4>2. mon[u] # m
        BY <1>1, <4>1, NoThreadIsNone, Zenon
      <4> QED BY <1>1, <4>1, <4>2, Zenon
    <3> QED BY <3>1, <3>2, Zenon
  <2>3. \A u \in Threads : pc'[u] \notin {"outside", "exited"} => exists'[mon'[u]]
    BY <1>1, Zenon DEF HoldersAreInside
  <2>4. ASSUME NEW n \in Monitors, NEW u \in Threads, holder'[n] = u PROVE Inside(u)' /\ mon'[u] = n
    <3>1. CASE n = m
      BY <1>1, <2>1, <2>4, <3>1, Zenon
    <3>2. CASE n # m
      BY <1>1, <2>1, <2>4, <3>2, Zenon DEF HoldersAreInside
    <3> QED BY <3>1, <3>2, Zenon
  <2> QED BY <2>2, <2>3, <2>4, Zenon DEF HoldersAreInside
<1> QED BY <1>4, <1>5, <1>6, <1>7, <1>8, Zenon

\* A signal: the oldest waiter is taken off the queue, and its event is set.
LEMMA SignalKeeps ==
    ASSUME MonitorInv, NEW t \in Threads, Signal(t)
    PROVE  MonitorInv'
<1> USE DEF MonitorInv
<1> DEFINE m == mon[t]
           w == Head(queue[m])
<1>1. /\ m \in Monitors /\ pc[t] = "held" /\ UNCHANGED <<exists, holder, waiter_slot, tls, status, timeout, mon, answer>>
      /\ \A u \in Threads : pc'[u] = IF u = t THEN "release" ELSE pc[u]
      /\ pc' \in [Threads -> Places]
  BY Zenon DEF Signal, Goto, TypeOK, Places
<1>2. \A u \in Threads : Waiting(u)' <=> Waiting(u)
  BY <1>1, Zenon DEF Waiting
<1>3. HoldersAreInside'
  <2>1. Inside(t) /\ Inside(t)' /\ "release" \in Places
    BY <1>1, Zenon DEF Inside, Places
  <2> QED BY <1>1, <2>1, HoldersFollow, Zenon DEF Signal
<1>4. CASE UNCHANGED <<queue, signaled, event>>
  <2>1. TypeOK'
    BY <1>1, <1>4, Zenon DEF TypeOK
  <2>2. QueuesHold'
    BY <1>1, <1>2, <1>4, NoWaiterMoves, Zenon
  <2>3. \A u \in Threads : ThreadIsSound(u)'
    BY <1>1, <1>4, Zenon DEF ThreadIsSound, Waiting
  <2> QED BY <1>3, <2>1, <2>2, <2>3, Zenon
<1>5. CASE /\ queue[m] # <<>> /\ queue' = [queue EXCEPT ![m] = Tail(@)]
           /\ signaled' = [signaled EXCEPT ![w] = TRUE] /\ event' = [event EXCEPT ![w] = TRUE]
  <2>1. queue[m] \in Seq(Threads) /\ IsInjective(queue[m]) /\ Range(queue[m]) = Queued(m)
    BY <1>1, Zenon DEF TypeOK, QueuesHold
  <2>2. /\ w \in Queued(m) /\ Tail(queue[m]) \in Seq(Threads) /\ IsInjective(Tail(queue[m]))
        /\ Range(Tail(queue[m])) = Queued(m) \ {w}
    BY <1>5, <2>1, Headed, Zenon
  <2>3. w \in Threads /\ mon[w] = m /\ Waiting(w) /\ ~signaled[w]
    BY <2>2, Zenon DEF Queued
  <2> HIDE DEF w
  <2>4. /\ \A u \in Threads : signaled'[u] = IF u = w THEN TRUE ELSE signaled[u]
        /\ \A u \in Threads : event'[u] = IF u = w THEN TRUE ELSE event[u]
        /\ \A n \in Monitors : queue'[n] = IF n = m THEN Tail(queue[m]) ELSE queue[n]
    BY <1>5, <2>3, Zenon DEF TypeOK
  <2>5. TypeOK'
    BY <1>1, <1>5, <2>2, Zenon DEF TypeOK
  <2>6. \A n \in Monitors : Queued(n)' = Queued(n) \ {w}
    <3>1. \A n \in Monitors, u \in Threads : u \in Queued(n)' <=> u \in Queued(n) /\ u # w
      BY <1>1, <1>2, <2>4, Zenon DEF Queued
    <3>2. \A n \in Monitors : Queued(n) \subseteq Threads /\ Queued(n)' \subseteq Threads
      BY Zenon DEF Queued
    <3> QED BY <3>1, <3>2, Zenon
  <2>7. \A n \in Monitors : n # m => w \notin Queued(n)
    BY <2>3, Zenon DEF Queued
  <2>8. QueuesHold'
    <3>1. ASSUME NEW n \in Monitors PROVE IsInjective(queue'[n]) /\ Range(queue'[n]) = Queued(n)'
      <4>1. CASE n = m
        <5>1. queue'[n] = Tail(queue[m]) /\ Queued(n)' = Queued(m) \ {w}
          BY <2>4, <2>6, <4>1, Zenon
        <5> QED BY <2>2, <5>1, Zenon
      <4>2. CASE n # m
        <5>1. queue'[n] = queue[n] /\ Queued(n)' = Queued(n)
          BY <2>4, <2>6, <2>7, <4>2, Zenon
        <5> QED BY <5>1, Zenon DEF QueuesHold
      <4> QED BY <4>1, <4>2, Zenon
    <3> QED BY <3>1, Zenon DEF QueuesHold
  <2>9. ASSUME NEW u \in Threads PROVE ThreadIsSound(u)'
    <3>1. CASE u = w
      BY <1>1, <1>2, <2>3, <2>4, <3>1, Zenon DEF ThreadIsSound, Waiting
    <3>2. CASE u # w
      BY <1>1, <1>2, <2>4, <3>2, Zenon DEF ThreadIsSound, Waiting
    <3> QED BY <3>1, <3>2, Zenon
  <2> QED BY <1>3, <2>5, <2>8, <2>9, Zenon
<1> QED BY <1>4, <1>5, Zenon DEF Signal

\* A thread ends, and its event with it; another is started in its place.
LEMMA ThreadsComeAndGo ==
    ASSUME MonitorInv, NEW t \in Threads, Exit(t) \/ Start(t)
    PROVE  MonitorInv'
<1> USE DEF MonitorInv
<1>1. PICK place \in {"outside", "exited"} : Goto(t, place)
  BY Zenon DEF Exit, Start
<1>2. /\ pc[t] \in {"outside", "exited"} /\ tls' \in [Threads -> SUBSET Threads]
      /\ \A u \in Threads : tls'[u] = tls[u] \/ (u = t /\ tls'[u] = {})
      /\ UNCHANGED <<exists, holder, queue, waiter_slot, event, signaled, status, timeout, mon, answer>>
  BY Zenon DEF Exit, Start, TypeOK, waits
<1>3. \A u \in Threads : pc'[u] = IF u = t THEN place ELSE pc[u]
  BY <1>1, Zenon DEF Goto, TypeOK
<1>4. TypeOK'
  BY <1>1, <1>2, Zenon DEF Goto, TypeOK, Places
<1>5. QueuesHold'
  BY <1>2, <1>3, NoWaiterMoves, Zenon DEF Waiting
<1>6. \A u \in Threads : ThreadIsSound(u)'
  BY <1>2, <1>3, Zenon DEF ThreadIsSound, Waiting
<1>7. HoldersAreInside'
  BY <1>1, <1>2, HoldersStay, Zenon DEF Inside
<1> QED BY <1>4, <1>5, <1>6, <1>7, Zenon

\* Every step of a monitor keeps the invariant.
LEMMA MonitorsKeep == MonitorInv /\ [Next]_vars => MonitorInv'
<1> SUFFICES ASSUME MonitorInv, [Next]_vars PROVE MonitorInv'
  BY Zenon
<1>1. CASE UNCHANGED vars
  BY <1>1, Zenon DEF vars, MonitorInv, TypeOK, QueuesHold, Queued, ThreadIsSound, HoldersAreInside, Waiting, Inside
<1>2. ASSUME NEW t \in Threads, NEW m \in Monitors, Create(t, m) \/ Destroy(t, m) \/ Acquire(t, m) PROVE MonitorInv'
  BY <1>2, ExistenceKeeps, AcquireKeeps, Zenon
<1>3. ASSUME NEW t \in Threads, Release(t) PROVE MonitorInv'
  BY <1>3, ReleaseKeeps, Zenon
<1>4. ASSUME NEW t \in Threads, (\E ns \in Timeouts : Wait(t, ns)) \/ publish_slot(t) \/ get_event(t) PROVE MonitorInv'
  BY <1>4, PreparesKeep, Zenon
<1>5. ASSUME NEW t \in Threads, enqueue(t) \/ event_wait(t) \/ reacquire(t) PROVE MonitorInv'
  BY <1>5, EnqueueKeeps, EventWaitKeeps, ReacquireKeeps, Zenon
<1>6. ASSUME NEW t \in Threads, Signal(t) \/ Exit(t) \/ Start(t) PROVE MonitorInv'
  BY <1>6, SignalKeeps, ThreadsComeAndGo, Zenon
<1> QED BY <1>1, <1>2, <1>3, <1>4, <1>5, <1>6, Zenon DEF Next

-----------------------------------------------------------------------------
(* Wake-ups are exact.                                                     *)

\* Only the end of a wait takes a thread from the wait to inside.
LEMMA OnlyReacquire ==
    ASSUME TypeOK, Next, NEW t \in Threads, pc[t] = "reacquire", pc'[t] = "held"
    PROVE  reacquire(t)
<1>1. PICK u \in Threads :
        \/ pc' = pc
        \/ pc[u] # "reacquire" /\ \E place \in Places : Goto(u, place)
        \/ reacquire(u)
  BY Zenon DEF Next, Create, Destroy, Acquire, Release, Wait, publish_slot, get_event, enqueue, event_wait,
               Signal, Exit, Start, Places
<1>2. u = t
  BY <1>1, Zenon DEF reacquire, Return, Goto, TypeOK
<1> QED BY <1>1, <1>2, Zenon

\* The answer of a wait says whether a signal chose it.
LEMMA AnswersAreTrue ==
    ASSUME MonitorInv, NEW t \in Threads, reacquire(t)
    PROVE  answer' = 1 <=> t \notin Range(queue[mon[t]])
<1>1. mon[t] \in Monitors /\ Waiting(t) /\ Range(queue[mon[t]]) = Queued(mon[t])
  BY Zenon DEF MonitorInv, TypeOK, QueuesHold, reacquire, Waiting
<1>2. answer' = IF signaled[t] THEN 1 ELSE 0
  BY Zenon DEF reacquire, Return
<1>3. t \in Queued(mon[t]) <=> ~signaled[t]
  BY <1>1, Zenon DEF Queued
<1> QED BY <1>1, <1>2, <1>3

\* For any number of threads and monitors, whatever signals, time-outs and returns
\* race: the queues hold the waiters, an event is set for a waiter that a signal chose
\* and for nobody else, and a wait answers 1 if and only if a signal chose it
\* (`monitor_wait`, `Signal_Release`).
THEOREM WakeupsStayExact == Spec => WakeupsAreExact
<1> DEFINE Waits == \A t \in Threads :
             /\ event[t] => Waiting(t) /\ signaled[t]
             /\ pc[t] = "event_wait" /\ signaled[t] => event[t]
             /\ pc[t] = "reacquire" /\ timeout[t] = "INFINITE" => signaled[t]
             /\ tls[t] \subseteq {waiter_slot}
           Answers == \A t \in Threads :
             pc[t] = "reacquire" /\ pc'[t] = "held" =>
                 (answer' = 1 <=> t \notin Range(queue[mon[t]]))
<1>1. MonitorInv => QueueHoldsWaiters
  BY Zenon DEF MonitorInv, QueuesHold, Queued, QueueHoldsWaiters
<1>2. MonitorInv => Waits
  BY Zenon DEF MonitorInv, ThreadIsSound
<1>3. MonitorInv /\ [Next]_vars => [Answers]_vars
  <2>1. ASSUME MonitorInv, Next, NEW t \in Threads, pc[t] = "reacquire", pc'[t] = "held"
        PROVE  answer' = 1 <=> t \notin Range(queue[mon[t]])
    BY <2>1, OnlyReacquire, AnswersAreTrue, Zenon DEF MonitorInv
  <2> QED BY <2>1, Zenon
<1> QED BY <1>1, <1>2, <1>3, MonitorsBegin, MonitorsKeep, PTL DEF Spec, WakeupsAreExact

-----------------------------------------------------------------------------
(* The events and mutexes are used within their contracts.                 *)

\* What a step does to a thread's event, and to a monitor's mutex: one of the things
\* the contracts allow, or nothing.
EventStep(u) == [EventOf(u)!Next]_(EventOf(u)!vars)
MutexStep(m) == [MutexOf(m)!Next]_(MutexOf(m)!vars)
Contracted == (\A u \in Threads : EventStep(u)) /\ (\A m \in Monitors : MutexStep(m))

\* A step that leaves a thread's event and its wait alone.
LEMMA EventIdles ==
    ASSUME NEW u \in Threads, tls'[u] = tls[u], event'[u] = event[u],
           pc'[u] = "event_wait" <=> pc[u] = "event_wait",
           pc[u] = "event_wait" => timeout'[u] = timeout[u]
    PROVE  EventStep(u)
<1>1. UNCHANGED EventOf(u)!vars
  BY Zenon DEF EventOf!vars
<1> QED BY <1>1, Zenon DEF EventStep

\* `thread_event` creates an auto-reset event, unset.
LEMMA EventCreated ==
    ASSUME NEW u \in Threads, tls[u] = {}, tls'[u] # {}, event'[u] = FALSE,
           pc[u] # "event_wait", pc'[u] # "event_wait"
    PROVE  EventStep(u)
<1>1. EventOf(u)!Create(FALSE, FALSE)
  BY Zenon DEF EventOf!Create
<1> QED BY <1>1, Zenon DEF EventStep, EventOf!Next

\* The destructor of the slot destroys an event nobody waits for.
LEMMA EventDestroyed ==
    ASSUME NEW u \in Threads, tls[u] # {}, tls'[u] = {}, event'[u] = event[u],
           pc[u] # "event_wait", pc'[u] # "event_wait"
    PROVE  EventStep(u)
<1>1. EventOf(u)!Destroy
  BY Zenon DEF EventOf!Destroy
<1> QED BY <1>1, Zenon DEF EventStep, EventOf!Next

\* A signal sets the event of a waiter.
LEMMA EventSet ==
    ASSUME NEW u \in Threads, tls[u] # {}, tls'[u] = tls[u], event'[u] = TRUE,
           pc'[u] = pc[u], timeout'[u] = timeout[u]
    PROVE  EventStep(u)
<1>1. EventOf(u)!Set
  BY Zenon DEF EventOf!Set
<1> QED BY <1>1, Zenon DEF EventStep, EventOf!Next

\* A wait whose time was up takes the event its signal set.
LEMMA EventReset ==
    ASSUME NEW u \in Threads, tls[u] # {}, tls'[u] = tls[u], event'[u] = FALSE,
           pc[u] # "event_wait", pc'[u] # "event_wait"
    PROVE  EventStep(u)
<1>1. EventOf(u)!Reset
  BY Zenon DEF EventOf!Reset
<1> QED BY <1>1, Zenon DEF EventStep, EventOf!Next

\* A thread begins to wait for its event, which is unset.
LEMMA EventAwaited ==
    ASSUME NEW u \in Threads, tls[u] # {}, tls'[u] = tls[u], ~event[u], event'[u] = event[u],
           pc[u] # "event_wait", pc'[u] = "event_wait", timeout'[u] = timeout[u]
    PROVE  EventStep(u)
<1>1. EventOf(u)!Wait(u)
  BY Zenon DEF EventOf!Wait
<1> QED BY <1>1, Zenon DEF EventStep, EventOf!Next

\* The wait is satisfied.
LEMMA EventTaken ==
    ASSUME NEW u \in Threads, tls'[u] = tls[u], event[u], event'[u] = FALSE,
           pc[u] = "event_wait", pc'[u] # "event_wait"
    PROVE  EventStep(u)
<1>1. EventOf(u)!Satisfied(u)
  BY Zenon DEF EventOf!Satisfied, EventOf!Leave, EventOf!Consume
<1> QED BY <1>1, Zenon DEF EventStep, EventOf!Next

\* The wait times out.
LEMMA EventMissed ==
    ASSUME NEW u \in Threads, tls'[u] = tls[u], ~event[u], event'[u] = event[u],
           pc[u] = "event_wait", pc'[u] # "event_wait", timeout[u] # "INFINITE"
    PROVE  EventStep(u)
<1>1. EventOf(u)!Expired(u)
  BY Zenon DEF EventOf!Expired, EventOf!Leave
<1> QED BY <1>1, Zenon DEF EventStep, EventOf!Next

\* A step that leaves a monitor's mutex alone.
LEMMA MutexIdles ==
    ASSUME NEW m \in Monitors, exists'[m] = exists[m], holder'[m] = holder[m]
    PROVE  MutexStep(m)
<1>1. UNCHANGED MutexOf(m)!vars
  BY Zenon DEF MutexOf!vars
<1> QED BY <1>1, Zenon DEF MutexStep

\* A mutex is created, or destroyed when nobody holds it.
LEMMA MutexComesAndGoes ==
    ASSUME NEW m \in Monitors, holder'[m] = holder[m], exists[m] \in BOOLEAN,
           \/ ~exists[m] /\ exists'[m] = TRUE
           \/ exists[m] /\ exists'[m] = FALSE /\ holder[m] = NoThread
    PROVE  MutexStep(m)
<1>1. CASE ~exists[m] /\ exists'[m] = TRUE
  <2>1. MutexOf(m)!Create(FALSE)
    BY <1>1, Zenon DEF MutexOf!Create
  <2> QED BY <2>1, Zenon DEF MutexStep, MutexOf!Next
<1>2. CASE exists[m] /\ exists'[m] = FALSE /\ holder[m] = NoThread
  <2>1. MutexOf(m)!Destroy
    BY <1>2, Zenon DEF MutexOf!Destroy
  <2> QED BY <2>1, Zenon DEF MutexStep, MutexOf!Next
<1> QED BY <1>1, <1>2, Zenon

\* The mutex is locked by a thread that enters the monitor.
LEMMA MutexLocked ==
    ASSUME NEW m \in Monitors, NEW t \in Threads, exists[m], exists'[m] = exists[m],
           holder[m] = NoThread, holder'[m] = t
    PROVE  MutexStep(m)
<1>1. MutexOf(m)!Lock(t)
  BY NoThreadIsNone DEF MutexOf!Lock
<1> QED BY <1>1, Zenon DEF MutexStep, MutexOf!Next

\* It is unlocked by the thread that holds it.
LEMMA MutexUnlocked ==
    ASSUME NEW m \in Monitors, NEW t \in Threads, exists[m], exists'[m] = exists[m],
           holder[m] = t, holder'[m] = NoThread
    PROVE  MutexStep(m)
<1>1. MutexOf(m)!Unlock(t)
  BY NoThreadIsNone DEF MutexOf!Unlock
<1> QED BY <1>1, Zenon DEF MutexStep, MutexOf!Next

-----------------------------------------------------------------------------
\* What the steps outside the waits do.
LEMMA MonitorsStayWithin ==
    ASSUME MonitorInv, NEW t \in Threads, NEW m \in Monitors, Create(t, m) \/ Destroy(t, m) \/ Acquire(t, m)
    PROVE  Contracted
<1> USE DEF MonitorInv
<1>1. ASSUME NEW u \in Threads PROVE EventStep(u)
  <2>1. tls' = tls /\ event' = event /\ timeout' = timeout /\ (pc'[u] = "event_wait" <=> pc[u] = "event_wait")
    BY Zenon DEF Create, Destroy, Acquire, Goto, TypeOK, waits
  <2> QED BY <2>1, EventIdles, Zenon
<1>2. ASSUME NEW n \in Monitors PROVE MutexStep(n)
  <2>1. CASE Create(t, m)
    <3>1. holder'[n] = holder[n] /\ exists[n] \in BOOLEAN /\ exists'[n] = (IF n = m THEN TRUE ELSE exists[n]) /\ ~exists[m]
      BY <2>1, Zenon DEF Create, TypeOK
    <3> QED BY <3>1, MutexIdles, MutexComesAndGoes, Zenon
  <2>2. CASE Destroy(t, m)
    <3>1. holder'[n] = holder[n] /\ exists[n] \in BOOLEAN /\ exists'[n] = (IF n = m THEN FALSE ELSE exists[n]) /\ exists[m]
      BY <2>2, Zenon DEF Destroy, TypeOK
    <3>2. \A u \in Threads : mon[u] = m => ~Inside(u)
      BY <2>2, Zenon DEF Destroy, Inside
    <3>3. holder[m] = NoThread
      <4>1. holder[m] \in Threads \union {NoThread}
        BY Zenon DEF TypeOK
      <4>2. \A u \in Threads : holder[m] # u
        BY <3>2, Zenon DEF HoldersAreInside
      <4> QED BY <4>1, <4>2, Zenon
    <3> QED BY <3>1, <3>3, MutexIdles, MutexComesAndGoes, Zenon
  <2>3. CASE Acquire(t, m)
    <3>1. holder'[n] = (IF n = m THEN t ELSE holder[n]) /\ exists' = exists /\ exists[m] /\ holder[m] = NoThread
      BY <2>3, Zenon DEF Acquire, TypeOK
    <3> QED BY <3>1, MutexIdles, MutexLocked, Zenon
  <2> QED BY <2>1, <2>2, <2>3, Zenon
<1> QED BY <1>1, <1>2, Zenon DEF Contracted

\* A thread that gives the monitor back holds its mutex, which exists.
LEMMA UnlocksStayWithin ==
    ASSUME MonitorInv, NEW t \in Threads, Inside(t), Unlock(t), exists' = exists
    PROVE  \A n \in Monitors : MutexStep(n)
<1> USE DEF MonitorInv
<1>1. mon[t] \in Monitors /\ holder[mon[t]] = t
  BY AloneInside, Zenon
<1>2. exists[mon[t]]
  BY Zenon DEF HoldersAreInside, Inside
<1>3. \A n \in Monitors : holder'[n] = IF n = mon[t] THEN NoThread ELSE holder[n]
  BY Zenon DEF Unlock, TypeOK
<1>4. ASSUME NEW n \in Monitors PROVE MutexStep(n)
  <2>1. CASE n = mon[t]
    BY <1>1, <1>2, <1>3, <2>1, MutexUnlocked, Zenon
  <2>2. CASE n # mon[t]
    BY <1>3, <2>2, MutexIdles, Zenon
  <2> QED BY <2>1, <2>2, Zenon
<1> QED BY <1>4, Zenon

\* What the steps of a wait do, up to its sleep.
LEMMA WaitsStayWithin ==
    ASSUME MonitorInv, NEW t \in Threads,
           Release(t) \/ (\E ns \in Timeouts : Wait(t, ns)) \/ publish_slot(t) \/ get_event(t) \/ enqueue(t)
    PROVE  Contracted
<1> USE DEF MonitorInv
<1>1. Inside(t) /\ exists' = exists
  BY Zenon DEF Release, Wait, publish_slot, get_event, enqueue, Inside
<1>2. ASSUME NEW n \in Monitors PROVE MutexStep(n)
  <2>1. CASE Unlock(t)
    BY <1>1, <2>1, UnlocksStayWithin, Zenon
  <2>2. CASE holder' = holder
    BY <1>1, <2>2, MutexIdles, Zenon
  <2> QED BY <2>1, <2>2, Zenon DEF Release, Wait, publish_slot, get_event, enqueue
<1>3. ASSUME NEW u \in Threads, u # t PROVE EventStep(u)
  <2>1. tls'[u] = tls[u] /\ event'[u] = event[u] /\ timeout'[u] = timeout[u] /\ pc'[u] = pc[u]
    BY <1>3, Zenon DEF Release, Wait, publish_slot, get_event, enqueue, Goto, TypeOK, waits
  <2> QED BY <2>1, EventIdles, Zenon
<1>4. EventStep(t)
  <2>1. ~event[t] /\ pc[t] # "event_wait" /\ tls[t] \subseteq {waiter_slot}
    BY <1>1, Zenon DEF ThreadIsSound, Waiting, Inside
  <2>2. CASE Release(t) \/ (\E ns \in Timeouts : Wait(t, ns)) \/ publish_slot(t)
    <3>1. tls' = tls /\ event' = event /\ pc'[t] # "event_wait"
      BY <2>2, Zenon DEF Release, Wait, publish_slot, Goto, TypeOK, waits
    <3> QED BY <2>1, <3>1, EventIdles, Zenon
  <2>3. CASE get_event(t)
    <3>1. pc'[t] # "event_wait"
      BY <2>3, Zenon DEF get_event, Goto, TypeOK
    <3>2. CASE waiter_slot \in tls[t]
      <4>1. tls' = tls /\ event' = event
        BY <2>3, <3>2, Zenon DEF get_event
      <4> QED BY <2>1, <3>1, <4>1, EventIdles, Zenon
    <3>3. CASE waiter_slot \notin tls[t]
      <4>1. tls'[t] = tls[t] \union {waiter_slot} /\ event'[t] = FALSE
        BY <2>3, <3>3, Zenon DEF get_event, TypeOK
      <4>2. tls[t] = {} /\ tls'[t] # {}
        BY <2>1, <3>3, <4>1, Zenon
      <4> QED BY <2>1, <3>1, <4>1, <4>2, EventCreated, Zenon
    <3> QED BY <3>2, <3>3, Zenon
  <2>4. CASE enqueue(t)
    <3>1. pc'[t] = "event_wait" /\ tls[t] # {} /\ tls' = tls /\ event' = event /\ timeout' = timeout
      BY <2>4, Zenon DEF enqueue, Goto, TypeOK, ThreadIsSound
    <3> QED BY <2>1, <3>1, EventAwaited, Zenon
  <2> QED BY <2>2, <2>3, <2>4, Zenon
<1> QED BY <1>2, <1>3, <1>4, Zenon DEF Contracted

\* What the end of a wait does.
LEMMA ReturnsStayWithin ==
    ASSUME MonitorInv, NEW t \in Threads, event_wait(t) \/ reacquire(t)
    PROVE  Contracted
<1> USE DEF MonitorInv
<1>1. exists' = exists /\ tls' = tls /\ mon[t] \in Monitors /\ exists[mon[t]] /\ tls[t] # {}
  BY Zenon DEF event_wait, reacquire, TypeOK, HoldersAreInside, ThreadIsSound
<1>2. ASSUME NEW n \in Monitors PROVE MutexStep(n)
  <2>1. CASE event_wait(t)
    <3>1. holder' = holder
      BY <2>1, Zenon DEF event_wait
    <3> QED BY <1>1, <3>1, MutexIdles, Zenon
  <2>2. CASE reacquire(t)
    <3>1. holder[mon[t]] = NoThread /\ holder'[n] = IF n = mon[t] THEN t ELSE holder[n]
      BY <2>2, Zenon DEF reacquire, TypeOK
    <3>2. CASE n = mon[t]
      BY <1>1, <3>1, <3>2, MutexLocked, Zenon
    <3>3. CASE n # mon[t]
      BY <1>1, <3>1, <3>3, MutexIdles, Zenon
    <3> QED BY <3>2, <3>3, Zenon
  <2> QED BY <2>1, <2>2, Zenon
<1>3. ASSUME NEW u \in Threads, u # t PROVE EventStep(u)
  <2>1. event'[u] = event[u] /\ timeout'[u] = timeout[u] /\ pc'[u] = pc[u]
    BY <1>3, Zenon DEF event_wait, reacquire, Return, Goto, TypeOK
  <2> QED BY <1>1, <2>1, EventIdles, Zenon
<1>4. EventStep(t)
  <2>1. CASE event_wait(t)
    <3>1. pc[t] = "event_wait" /\ pc'[t] # "event_wait"
      BY <2>1, Zenon DEF event_wait, Goto, TypeOK
    <3>2. CASE event[t] /\ event' = [event EXCEPT ![t] = FALSE]
      <4>1. event'[t] = FALSE
        BY <3>2, Zenon DEF TypeOK
      <4> QED BY <1>1, <3>1, <3>2, <4>1, EventTaken, Zenon
    <3>3. CASE ~event[t] /\ timeout[t] # "INFINITE" /\ event' = event
      BY <1>1, <3>1, <3>3, EventMissed, Zenon
    <3> QED BY <2>1, <3>2, <3>3, Zenon DEF event_wait
  <2>2. CASE reacquire(t)
    <3>1. pc[t] # "event_wait" /\ pc'[t] # "event_wait"
      BY <2>2, Zenon DEF reacquire, Return, Goto, TypeOK
    <3>2. event'[t] = event[t] \/ event'[t] = FALSE
      BY <2>2, Zenon DEF reacquire, TypeOK
    <3> QED BY <1>1, <3>1, <3>2, EventIdles, EventReset, Zenon
  <2> QED BY <2>1, <2>2, Zenon
<1> QED BY <1>2, <1>3, <1>4, Zenon DEF Contracted

\* What a signal does.
LEMMA SignalsStayWithin ==
    ASSUME MonitorInv, NEW t \in Threads, Signal(t)
    PROVE  Contracted
<1> USE DEF MonitorInv
<1>1. /\ UNCHANGED <<exists, holder, tls, timeout>> /\ pc[t] = "held"
      /\ \A u \in Threads : pc'[u] = IF u = t THEN "release" ELSE pc[u]
  BY Zenon DEF Signal, Goto, TypeOK
<1>2. \A n \in Monitors : MutexStep(n)
  BY <1>1, MutexIdles, Zenon
<1>3. ASSUME NEW u \in Threads PROVE EventStep(u)
  <2>1. CASE event'[u] = event[u]
    BY <1>1, <2>1, EventIdles, Zenon
  <2>2. CASE event'[u] # event[u]
    <3> DEFINE m == mon[t]
               w == Head(queue[m])
    <3>1. m \in Monitors /\ queue[m] # <<>> /\ event' = [event EXCEPT ![w] = TRUE]
      BY <2>2, Zenon DEF Signal, TypeOK
    <3>2. queue[m] \in Seq(Threads) /\ IsInjective(queue[m]) /\ Range(queue[m]) = Queued(m)
      BY <3>1, Zenon DEF TypeOK, QueuesHold
    <3>3. w \in Queued(m)
      BY <3>1, <3>2, Headed, Zenon
    <3>4. w \in Threads /\ Waiting(w)
      BY <3>3, Zenon DEF Queued
    <3> HIDE DEF w
    <3>5. u = w /\ event'[u] = TRUE
      BY <2>2, <3>1, <3>4, Zenon DEF TypeOK
    <3>6. tls[u] # {} /\ pc'[u] = pc[u]
      BY <1>1, <3>4, <3>5, Zenon DEF Waiting, ThreadIsSound
    <3> QED BY <1>1, <3>5, <3>6, EventSet, Zenon
  <2> QED BY <2>1, <2>2, Zenon
<1> QED BY <1>2, <1>3, Zenon DEF Contracted

\* What the end and the start of a thread do.
LEMMA ThreadsStayWithin ==
    ASSUME MonitorInv, NEW t \in Threads, Exit(t) \/ Start(t)
    PROVE  Contracted
<1> USE DEF MonitorInv
<1>1. UNCHANGED <<exists, holder, event, timeout>>
  BY Zenon DEF Exit, Start, waits
<1>2. \A n \in Monitors : MutexStep(n)
  BY <1>1, MutexIdles, Zenon
<1>3. ASSUME NEW u \in Threads PROVE EventStep(u)
  <2>1. pc'[u] = "event_wait" <=> pc[u] = "event_wait"
    BY Zenon DEF Exit, Start, Goto, TypeOK
  <2>2. CASE tls'[u] = tls[u]
    BY <1>1, <2>1, <2>2, EventIdles, Zenon
  <2>3. CASE tls'[u] # tls[u]
    <3>1. tls'[u] = {} /\ pc[u] = "outside"
      BY <2>3, Zenon DEF Exit, Start, TypeOK, waits
    <3> QED BY <1>1, <2>1, <2>3, <3>1, EventDestroyed, Zenon
  <2> QED BY <2>2, <2>3, Zenon
<1> QED BY <1>2, <1>3, Zenon DEF Contracted

\* For any number of threads and monitors: a thread's event is created once, waited for
\* only by its thread, and destroyed only when that thread does not wait; a monitor's
\* mutex is unlocked only by its holder and destroyed only when nobody holds it.  Every
\* step of a monitor is one of Events and one of Mutexes, or none.
THEOREM MonitorsKeepContracts == Spec => BoundaryContracts
<1>1. Init => \A t \in Threads : EventOf(t)!Init
  <2>1. ASSUME Init, NEW t \in Threads PROVE tls[t] = {} /\ event[t] = FALSE /\ pc[t] # "event_wait"
    BY <2>1, Zenon DEF Init
  <2>2. ASSUME Init, NEW t \in Threads PROVE EventOf(t)!Init
    BY <2>1, <2>2, Zenon DEF EventOf!Init
  <2> QED BY <2>2, Zenon
<1>2. Init => \A m \in Monitors : MutexOf(m)!Init
  <2>1. ASSUME Init, NEW m \in Monitors PROVE exists[m] = FALSE /\ holder[m] = NoThread
    BY <2>1, Zenon DEF Init
  <2>2. ASSUME Init, NEW m \in Monitors PROVE MutexOf(m)!Init
    BY <2>1, <2>2, Zenon DEF MutexOf!Init
  <2> QED BY <2>2, Zenon
<1>3. MonitorInv /\ Next => Contracted
  <2> SUFFICES ASSUME MonitorInv, Next PROVE Contracted
    BY Zenon
  <2>1. ASSUME NEW t \in Threads, NEW m \in Monitors, Create(t, m) \/ Destroy(t, m) \/ Acquire(t, m) PROVE Contracted
    BY <2>1, MonitorsStayWithin, Zenon
  <2>2. ASSUME NEW t \in Threads,
               Release(t) \/ (\E ns \in Timeouts : Wait(t, ns)) \/ publish_slot(t) \/ get_event(t) \/ enqueue(t)
        PROVE  Contracted
    BY <2>2, WaitsStayWithin, Zenon
  <2>3. ASSUME NEW t \in Threads, event_wait(t) \/ reacquire(t) PROVE Contracted
    BY <2>3, ReturnsStayWithin, Zenon
  <2>4. ASSUME NEW t \in Threads, Signal(t) \/ Exit(t) \/ Start(t) PROVE Contracted
    BY <2>4, SignalsStayWithin, ThreadsStayWithin, Zenon
  <2> QED BY <2>1, <2>2, <2>3, <2>4, Zenon DEF Next
<1>4. MonitorInv /\ [Next]_vars =>
        [/\ \A t \in Threads : [EventOf(t)!Next]_(EventOf(t)!vars)
         /\ \A m \in Monitors : [MutexOf(m)!Next]_(MutexOf(m)!vars)]_vars
  BY <1>3, Zenon DEF Contracted, EventStep, MutexStep
<1> QED BY <1>1, <1>2, <1>4, MonitorsBegin, MonitorsKeep, PTL DEF Spec, BoundaryContracts
=============================================================================
