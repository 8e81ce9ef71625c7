---------------------------- MODULE SharedProofs ----------------------------
(***************************************************************************)
(* State that threads share without a lock around the whole of it.  The    *)
(* safety of `negotiate`, for any number of callers, and of the counters   *)
(* its calls end in, for any number of threads, of calls, and any width of *)
(* a counter; of the faults group, however installs race or fail; and of   *)
(* the records of children, for any number of callers and children.        *)
(***************************************************************************)
EXTENDS Negotiation, Counters, Faults, Children, FiniteSetTheorems, TLAPS

-----------------------------------------------------------------------------
(* `negotiate`.  SlotIsOwned is the inductive invariant: the               *)
(* compare_exchange lets one caller in, and the state tells everyone else  *)
(* what that caller has written.                                           *)

\* What `build` returns is a table it may offer, or None.
LEMMA BuildOffers == \A outcome \in Outcomes : outcome = None \/ Offered(outcome)
<1> SUFFICES ASSUME NEW p \in Ports, build(p) # None PROVE Offered(build(p))
  BY Zenon DEF Outcomes
<1>1. ~Rejects(p)
  BY Zenon DEF build
<1>2. build(p) \in Tables
  BY <1>1, Zenon DEF build, Tables
<1>3. ~(p.vm /\ p.linear)
  BY <1>1, Zenon DEF Rejects
<1>4. "VM" \in build(p) => p.vm
  BY <1>1, Zenon DEF build, Capabilities
<1>5. "LINEAR" \in build(p) => p.linear
  BY <1>1, Zenon DEF build, Capabilities
<1> QED BY <1>2, <1>3, <1>4, <1>5, Zenon DEF Offered

\* The static before anyone has written it is no table to hand out.
LEMMA UnwrittenIsNoTable == ~Offered(Unwritten)
BY Zenon DEF Offered, Unwritten, Tables, Capabilities

\* The inductive invariant of `negotiate`.
NegotiationInv == TypeOK /\ SlotIsOwned

\* It holds before the first `negotiate`, and every step of a caller keeps it.
LEMMA InitialNegotiation == Init => NegotiationInv
BY Zenon DEF Init, NegotiationInv, TypeOK, SlotIsOwned, Places, Building

\* Every step of a caller keeps it.
LEMMA NegotiationKeeps == NegotiationInv /\ [Next]_vars => NegotiationInv'
<1> SUFFICES ASSUME NegotiationInv, [Next]_vars PROVE NegotiationInv'
  BY Zenon
<1> USE DEF NegotiationInv, Places, Building, Goto, Return
<1>1. ASSUME NEW c \in Callers, NEW matches \in BOOLEAN, negotiate(c, matches) PROVE NegotiationInv'
  <2>1. /\ pc[c] = "idle" /\ state' = state /\ api' = api
        /\ \/ pc' = [pc EXCEPT ![c] = "load"] /\ got' = got
           \/ /\ pc' = [pc EXCEPT ![c] = "idle"]
              /\ got' = [got EXCEPT ![c] = "null, wrong version"]
    BY <1>1, Zenon DEF negotiate
  <2>2. TypeOK'
    BY <2>1, Zenon DEF TypeOK
  <2>3. pc'[c] \notin Building /\ got'[c] \in {got[c], "null, wrong version"}
    BY <2>1, Zenon DEF TypeOK
  <2>4. \A d \in Callers : d # c => pc'[d] = pc[d] /\ got'[d] = got[d]
    BY <2>1, Zenon DEF TypeOK
  <2>5. SlotIsOwned'
    BY <2>1, <2>3, <2>4, Zenon DEF SlotIsOwned, Offered
  <2> QED BY <2>2, <2>5, Zenon
<1>2. ASSUME NEW c \in Callers, load(c) PROVE NegotiationInv'
  BY <1>2, Zenon DEF load, TypeOK, SlotIsOwned
<1>3. ASSUME NEW c \in Callers, exchange(c) PROVE NegotiationInv'
  <2>1. TypeOK'
    BY <1>3, Zenon DEF exchange, TypeOK
  <2>2. CASE state = "UNINITIALIZED"
    <3>1. /\ state' = "NEGOTIATING" /\ api' = Unwritten /\ got' = got
          /\ pc' = [pc EXCEPT ![c] = "build"]
      BY <1>3, <2>2, Zenon DEF exchange, SlotIsOwned
    <3>2. \A d \in Callers : pc[d] \notin Building /\ got[d] \notin {"table", "null"}
      BY <2>2, Zenon DEF SlotIsOwned
    <3>3. pc'[c] = "build" /\ \A d \in Callers : d # c => pc'[d] = pc[d]
      BY <3>1, Zenon DEF TypeOK
    <3>4. SlotIsOwned'
      BY <3>1, <3>2, <3>3, Zenon DEF SlotIsOwned
    <3> QED BY <2>1, <3>4, Zenon
  <2>3. CASE state # "UNINITIALIZED"
    <3>1. /\ state' = state /\ api' = api /\ got' = got
          /\ pc' = [pc EXCEPT ![c] = "load"]
      BY <1>3, <2>3, Zenon DEF exchange
    <3>2. pc'[c] = "load" /\ \A d \in Callers : d # c => pc'[d] = pc[d]
      BY <3>1, Zenon DEF TypeOK
    <3>3. SlotIsOwned'
      BY <3>1, <3>2, Zenon DEF SlotIsOwned, Offered
    <3> QED BY <2>1, <3>3, Zenon
  <2> QED BY <2>2, <2>3, Zenon
<1>4. ASSUME NEW c \in Callers, NEW outcome \in Outcomes, build_table(c, outcome) PROVE NegotiationInv'
  <2>1. outcome = None \/ Offered(outcome)
    BY BuildOffers, Zenon
  <2>2. TypeOK'
    BY <1>4, <2>1, Zenon DEF build_table, TypeOK, Offered
  <2>3. CASE outcome = None
    <3>1. /\ pc[c] = "build" /\ api' = api
          /\ pc' = [pc EXCEPT ![c] = "store rejected"]
          /\ state' = state /\ got' = got
      BY <1>4, <2>3, Zenon DEF build_table
    <3>2. state' = "NEGOTIATING" /\ api' = Unwritten
      BY <3>1, Zenon DEF SlotIsOwned
    <3>3. \A d \in Callers : d # c => pc'[d] = pc[d] /\ pc[d] \notin Building
      BY <3>1, Zenon DEF TypeOK, SlotIsOwned
    <3>4. pc'[c] = "store rejected"
      BY <3>1, Zenon DEF TypeOK
    <3>5. SlotIsOwned'
      BY <3>1, <3>2, <3>3, <3>4, Zenon DEF SlotIsOwned
    <3> QED BY <2>2, <3>5, Zenon
  <2>4. CASE outcome # None
    <3>1. /\ pc[c] = "build" /\ Offered(api')
          /\ pc' = [pc EXCEPT ![c] = "store ready"]
          /\ state' = state /\ got' = got
      BY <1>4, <2>1, <2>4, Zenon DEF build_table
    <3>2. state' = "NEGOTIATING"
      BY <3>1, Zenon DEF SlotIsOwned
    <3>3. \A d \in Callers : d # c => pc'[d] = pc[d] /\ pc[d] \notin Building
      BY <3>1, Zenon DEF TypeOK, SlotIsOwned
    <3>4. pc'[c] = "store ready"
      BY <3>1, Zenon DEF TypeOK
    <3>5. SlotIsOwned'
      BY <3>1, <3>2, <3>3, <3>4, Zenon DEF SlotIsOwned
    <3> QED BY <2>2, <3>5, Zenon
  <2> QED BY <2>3, <2>4, Zenon
<1>5. ASSUME NEW c \in Callers, store(c) PROVE NegotiationInv'
  BY <1>5, Zenon DEF store, TypeOK, SlotIsOwned
<1>6. CASE UNCHANGED vars
  BY <1>6, Zenon DEF vars, TypeOK, SlotIsOwned, Offered
<1> QED BY <1>1, <1>2, <1>3, <1>4, <1>5, <1>6, Zenon DEF Next

\* Every field keeps its type, and the slot belongs to the caller that won the
\* compare_exchange until it stores the outcome.
THEOREM Ownership == Spec => [](TypeOK /\ SlotIsOwned)
<1>1. Spec => []NegotiationInv
  BY InitialNegotiation, NegotiationKeeps, PTL DEF Spec
<1> QED BY <1>1, PTL DEF NegotiationInv

\* Whoever has the pointer can read the table, for as long as it likes.
THEOREM Readable == Spec => []TableIsReadable
<1>1. SlotIsOwned => TableIsReadable
  BY Zenon DEF SlotIsOwned, TableIsReadable
<1> QED BY <1>1, Ownership, PTL

\* All callers get the same outcome.
THEOREM Final == Spec => []OutcomeIsFinal
<1>1. SlotIsOwned => OutcomeIsFinal
  BY Zenon DEF SlotIsOwned, OutcomeIsFinal
<1> QED BY <1>1, Ownership, PTL

\* The table is written once, while nobody else may look at it.
THEOREM OneWrite == Spec => WrittenOnce
<1>1. SlotIsOwned /\ [Next]_vars => [api' # api => api = Unwritten /\ state = "NEGOTIATING"]_vars
  BY Zenon DEF SlotIsOwned, Building, Next, negotiate, load, exchange, build_table, store, vars
<1> QED BY <1>1, Ownership, PTL DEF Spec, WrittenOnce

-----------------------------------------------------------------------------
(* The counters lose nothing and never start over.                         *)

\* What a reader of the statistics may hold.
Statistics == {<<>>} \union {<<a>> : a \in 0..USIZE_MAX} \union {<<a, b>> : a \in 0..USIZE_MAX, b \in 0..USIZE_MAX}

\* What the step from one state to the next needs to know: the types, that a
\* counter holds the number of calls that ended in it up to its largest value,
\* that it does not fall, and that a call that is being counted has not ended.
CountersInv ==
    /\ CountersTypeOK
    /\ ended \in [Indices -> Nat]
    /\ seen \in Statistics
    /\ \A i \in Indices : before[i] <= counter[i]
    /\ \A t \in Counting : phase[t] = "exchange" => left[t] > 0
    /\ NoCallUncounted

\* The invariant of the counters, and what each step of `increment` and of a reader
\* of the statistics does to it.
LEMMA InitialCounters == CountersInit => CountersInv
  BY WidthAssumption DEF CountersInit, CountersInv, CountersTypeOK, NoCallUncounted, Indices, Statistics

\* A call loads the counter it will increment.
LEMMA LoadKeeps ==
    ASSUME CountersInv, NEW t \in Counting, NEW i \in Indices, increment_load(t, i)
    PROVE  CountersInv'
  BY WidthAssumption, Zenon DEF increment_load, CountersInv, CountersTypeOK, NoCallUncounted

\* A compare_exchange that fails gives the value to try with.
LEMMA RetryKeeps ==
    ASSUME CountersInv, NEW t \in Counting, increment_retry(t)
    PROVE  CountersInv'
  BY WidthAssumption, Zenon DEF increment_retry, CountersInv, CountersTypeOK, NoCallUncounted

\* A compare_exchange that succeeds counts its call, once, and stops at the width.
LEMMA ExchangeKeeps ==
    ASSUME CountersInv, NEW t \in Counting, increment_exchange(t)
    PROVE  CountersInv'
  <1> DEFINE i == index[t]
  <1>1. i \in Indices /\ counter[i] \in 0..USIZE_MAX /\ ended[i] \in Nat /\ current[t] = counter[i]
    BY Zenon DEF increment_exchange, CountersInv, CountersTypeOK
  <1>2. saturating_add(current[t]) \in 0..USIZE_MAX /\ counter[i] <= saturating_add(current[t])
    BY <1>1, WidthAssumption DEF saturating_add
  <1>3. saturating_add(current[t]) = IF ended[i] + 1 < USIZE_MAX THEN ended[i] + 1 ELSE USIZE_MAX
    BY <1>1, WidthAssumption DEF saturating_add, CountersInv, NoCallUncounted
  <1>4. /\ counter' = [counter EXCEPT ![i] = saturating_add(current[t])]
        /\ ended' = [ended EXCEPT ![i] = @ + 1]
        /\ UNCHANGED <<index, current, seen, before>>
    BY Zenon DEF increment_exchange
  <1>5. CountersTypeOK'
    <2>1. left[t] \in 1..CALLS /\ phase' = [phase EXCEPT ![t] = "idle"] /\ left' = [left EXCEPT ![t] = @ - 1]
      BY WidthAssumption DEF increment_exchange, CountersInv, CountersTypeOK
    <2>2. phase' \in [Counting -> {"idle", "exchange"}] /\ left' \in [Counting -> 0..CALLS]
      BY <2>1, WidthAssumption DEF CountersInv, CountersTypeOK
    <2>3. counter' \in [Indices -> 0..USIZE_MAX]
      BY <1>1, <1>2, <1>4, Zenon DEF CountersInv, CountersTypeOK
    <2> QED BY <1>4, <2>2, <2>3, Zenon DEF CountersInv, CountersTypeOK
  <1>6. ended' \in [Indices -> Nat] /\ seen' \in Statistics
    BY <1>1, <1>4 DEF CountersInv, Statistics
  <1>7. \A k \in Indices : counter'[k] = IF ended'[k] < USIZE_MAX THEN ended'[k] ELSE USIZE_MAX
    BY <1>1, <1>3, <1>4, Zenon DEF CountersInv, CountersTypeOK, NoCallUncounted
  <1>8. \A k \in Indices : counter[k] \in Nat /\ counter'[k] \in Nat /\ counter[k] <= counter'[k]
    BY <1>1, <1>2, <1>4, WidthAssumption DEF CountersInv, CountersTypeOK
  <1>9. \A k \in DOMAIN seen : k - 1 \in Indices /\ seen[k] \in Nat
    BY WidthAssumption DEF CountersInv, Statistics, Indices
  <1>10. \A k \in DOMAIN seen' : before'[k - 1] <= seen'[k] /\ seen'[k] <= counter'[k - 1]
    <2> SUFFICES ASSUME NEW k \in DOMAIN seen PROVE before[k - 1] <= seen[k] /\ seen[k] <= counter'[k - 1]
      BY <1>4, Zenon
    <2> QED BY <1>8, <1>9 DEF CountersInv, NoCallUncounted
  <1>11. \A k \in Indices : before'[k] <= counter'[k]
    <2> SUFFICES ASSUME NEW k \in Indices PROVE before'[k] <= counter'[k]
      BY Zenon
    <2>1. before[k] \in Nat /\ before[k] <= counter[k]
      BY WidthAssumption DEF CountersInv, CountersTypeOK
    <2> QED BY <1>4, <1>8, <2>1
  <1>12. \A s \in Counting : phase'[s] = "exchange" => left'[s] > 0
    BY Zenon DEF increment_exchange, CountersInv, CountersTypeOK
  <1> QED BY <1>5, <1>6, <1>7, <1>10, <1>11, <1>12, Zenon DEF CountersInv, NoCallUncounted

\* A reader of the statistics sees no counter go back.
LEMMA ReaderKeeps ==
    ASSUME CountersInv, load_stats
    PROVE  CountersInv'
  <1>1. /\ UNCHANGED <<counter, phase, index, current, left, ended>>
        /\ counter[0] \in 0..USIZE_MAX /\ counter[1] \in 0..USIZE_MAX
    BY DEF load_stats, CountersInv, CountersTypeOK, Indices
  <1>2. CASE seen = <<>> \/ Len(seen) = 2
    <2>1. seen' = <<counter[0]>> /\ before' = counter
      BY <1>2, Zenon DEF load_stats
    <2> QED BY <1>1, <2>1, WidthAssumption DEF CountersInv, CountersTypeOK, NoCallUncounted, Statistics, Indices
  <1>3. CASE ~(seen = <<>> \/ Len(seen) = 2)
    <2>1. seen' = <<seen[1], counter[1]>> /\ before' = before
      BY <1>3, Zenon DEF load_stats
    <2>2. PICK a \in 0..USIZE_MAX : seen = <<a>>
      BY <1>3 DEF CountersInv, Statistics
    <2>3. before[0] <= a /\ a <= counter[0]
      BY <2>2 DEF CountersInv, NoCallUncounted
    <2>4. before[1] <= counter[1]
      BY DEF CountersInv, Indices
    <2> QED BY <1>1, <2>1, <2>2, <2>3, <2>4, WidthAssumption DEF CountersInv, CountersTypeOK, NoCallUncounted, Statistics, Indices
  <1> QED BY <1>2, <1>3, Zenon

\* However many threads end calls at once, and however often the exchange fails,
\* each call adds one to its counter until the counter is full, and the reader of
\* the statistics sees values between those at its start and those of now
\* (counter.rs, `increment` and `load`).
THEOREM CountersAreExact == CountersSpec => []NoCallUncounted
  <1>1. CountersInv /\ [CountersNext]_counters => CountersInv'
    <2> SUFFICES ASSUME CountersInv, [CountersNext]_counters
                 PROVE  CountersInv'
      BY Zenon
    <2>1. CASE \E t \in Counting, i \in Indices : increment_load(t, i)
      BY <2>1, LoadKeeps, Zenon
    <2>2. CASE \E t \in Counting : increment_exchange(t)
      BY <2>2, ExchangeKeeps, Zenon
    <2>3. CASE \E t \in Counting : increment_retry(t)
      BY <2>3, RetryKeeps, Zenon
    <2>4. CASE load_stats
      BY <2>4, ReaderKeeps, Zenon
    <2>5. CASE UNCHANGED counters
      BY <2>5 DEF counters, CountersInv, CountersTypeOK, NoCallUncounted, Statistics
    <2> QED BY <2>1, <2>2, <2>3, <2>4, <2>5, Zenon DEF CountersNext
  <1>2. CountersInv => NoCallUncounted
    BY Zenon DEF CountersInv
  <1> QED BY InitialCounters, <1>1, <1>2, PTL DEF CountersSpec

-----------------------------------------------------------------------------
(* Faults.  A fault nobody resumes ends as it would have without the       *)
(* provider.                                                               *)

\* The two signals of a fault, and where they stand in the list.
LEMMA TwoSignals ==
    /\ DOMAIN FAULT_SIGNALS = {1, 2} /\ Len(FAULT_SIGNALS) = 2
    /\ Signals = {FAULT_SIGNALS[1], FAULT_SIGNALS[2]} /\ FAULT_SIGNALS[1] # FAULT_SIGNALS[2]
BY DEF FAULT_SIGNALS, Signals

\* A fault stays one whatever a step notes about it.
LEMMA EditedFault ==
    ASSUME NEW f \in Faulted, NEW s \in Signals, NEW b \in BOOLEAN, NEW h \in Threads \union {NULL}
    PROVE  /\ NoFault \in Faulted
           /\ [NoFault EXCEPT !.signal = s, !.sent = b] \in Faulted
           /\ [f EXCEPT !.caught = TRUE] \in Faulted
           /\ [f EXCEPT !.handler = h] \in Faulted
           /\ [f EXCEPT !.inside = TRUE] \in Faulted
<1>1. NoFault \in Faulted
  BY Zenon DEF NoFault, Faulted, NULL
<1>2. [NoFault EXCEPT !.signal = s, !.sent = b] \in Faulted
  BY <1>1, Zenon DEF Faulted
<1>3. [f EXCEPT !.caught = TRUE] \in Faulted /\ [f EXCEPT !.inside = TRUE] \in Faulted
  BY Zenon DEF Faulted
<1>4. [f EXCEPT !.handler = h] \in Faulted
  BY Zenon DEF Faulted, NULL
<1> QED BY <1>1, <1>2, <1>3, <1>4, Zenon

\* The inductive invariant of the faults provider.
FaultsInv == FaultsTyped /\ LockIsHeld /\ FaultIsCaught /\ ActionsAreKept /\ EndsAsWithout

\* The invariant of the faults provider holds before the first install (`enable` and
\* `install` of linux-std/src/faults.rs have not run).
LEMMA FaultsInitially == FaultsInit => FaultsInv
<1> SUFFICES ASSUME FaultsInit PROVE FaultsInv
  BY Zenon
<1> USE TwoSignals, NobodyIsNoThread DEF FaultsInit, NULL, NoFault, Arming, Faulted
<1>1. FaultsTyped
  BY Zenon DEF FaultsTyped
<1>2. LockIsHeld /\ FaultIsCaught /\ EndsAsWithout
  BY Zenon DEF LockIsHeld, FaultIsCaught, EndsAsWithout
<1>3. ActionsAreKept
  BY Zenon DEF ActionsAreKept
<1> QED BY <1>1, <1>2, <1>3, Zenon DEF FaultsInv

\* Every step of an install, of the handler and of the process keeps it.
LEMMA FaultsStepKeeps == FaultsInv /\ [FaultsNext]_cpu => FaultsInv'
<1> SUFFICES ASSUME FaultsInv, [FaultsNext]_cpu PROVE FaultsInv'
  BY Zenon
<1> USE TwoSignals, NobodyIsNoThread DEF FaultsInv, NULL, Arming
<1>1. ASSUME NEW t \in Threads, faults_install(t) \/ faults_install_data(t) \/ faults_install_handler(t) \/ faults_install_undo(t) \/ faults_install_publish(t)
      PROVE FaultsInv'
  <2> USE <1>1 DEF faults_install, faults_install_data, faults_install_handler, faults_install_undo, faults_install_publish, f_goto
  <2>1. FaultsTyped'
    BY Zenon DEF FaultsTyped
  <2>2. LockIsHeld'
    BY DEF LockIsHeld, FaultsTyped
  <2>3. FaultIsCaught' /\ EndsAsWithout'
    BY Zenon DEF FaultIsCaught, EndsAsWithout
  <2>4. ActionsAreKept'
    BY DEF ActionsAreKept, FaultsTyped, Kept
  <2> QED BY <2>1, <2>2, <2>3, <2>4, Zenon
<1>2. ASSUME NEW t \in Threads, fate = NULL, faults_enable(t) PROVE FaultsInv'
  <2> USE <1>2 DEF faults_enable, f_goto, advance, f_front
  <2>1. FaultsTyped'
    BY Zenon DEF FaultsTyped
  <2>2. LockIsHeld'
    BY DEF LockIsHeld, FaultsTyped
  <2>3. FaultIsCaught' /\ EndsAsWithout'
    BY Zenon DEF FaultIsCaught, EndsAsWithout
  <2>4. ActionsAreKept'
    BY DEF ActionsAreKept, FaultsTyped, Kept
  <2> QED BY <2>1, <2>2, <2>3, <2>4, Zenon
<1>3. ASSUME NEW t \in Threads, fate = NULL, enable_previous(t) PROVE FaultsInv'
  <2> USE <1>3 DEF enable_previous, f_goto, f_front
  <2>1. FaultsTyped'
    BY DEF FaultsTyped
  <2>2. LockIsHeld' /\ lock = t /\ ~ARMED
    BY DEF LockIsHeld, FaultsTyped
  <2>3. FaultIsCaught' /\ EndsAsWithout'
    BY Zenon DEF FaultIsCaught, EndsAsWithout
  <2>4. f_action[FAULT_SIGNALS[f_index[t]]] = earlier[FAULT_SIGNALS[f_index[t]]]
    BY <2>2 DEF ActionsAreKept, FaultsTyped
  <2>5. \A s \in Signals : Kept(s) => Kept(s)'
    BY <2>4, Zenon DEF FaultsTyped, Kept
  <2>6. f_pc'[t] = "action" => Kept(FAULT_SIGNALS[f_index[t]])'
    BY <2>4, Zenon DEF FaultsTyped, Kept
  <2>7. \A u \in Threads : u # t => f_pc'[u] = f_pc[u]
    BY Zenon DEF FaultsTyped
  <2>8. ActionsAreKept'
    BY <2>5, <2>6, <2>7 DEF ActionsAreKept, FaultsTyped, FaultIsCaught
  <2> QED BY <2>1, <2>2, <2>3, <2>8, Zenon
<1>4. ASSUME NEW t \in Threads, fate = NULL, enable_action(t) PROVE FaultsInv'
  <2> USE <1>4 DEF enable_action, f_goto, advance, f_front
  <2>0. f_index[t] \in {1, 2} /\ FAULT_SIGNALS[f_index[t]] \in Signals
    BY Zenon DEF FaultsTyped
  <2>1. FaultsTyped'
    <3>1. f_action' \in [Signals -> {"default", "foreign", "ours"}]
      BY <2>0, Zenon DEF FaultsTyped
    <3>2. f_index' \in [Threads -> {1, 2}]
      BY <2>0 DEF FaultsTyped
    <3>3. lock' \in Threads \union {NULL} /\ ARMED' \in BOOLEAN
      BY Zenon DEF FaultsTyped
    <3>4. f_pc' \in [Threads -> Arming \union {"idle", "data", "handler", "enable", "undo", "release", "publish"}]
      BY DEF FaultsTyped
    <3> HIDE DEF Arming
    <3> QED BY <3>1, <3>2, <3>3, <3>4, Zenon DEF FaultsTyped
  <2>2. LockIsHeld' /\ lock = t
    BY DEF LockIsHeld, FaultsTyped
  <2>3. FaultIsCaught' /\ EndsAsWithout'
    BY Zenon DEF FaultIsCaught, EndsAsWithout
  <2>4. Kept(FAULT_SIGNALS[f_index[t]])
    BY <2>0, Zenon DEF ActionsAreKept
  <2>5. ActionsAreKept'
    BY <2>2, <2>4 DEF ActionsAreKept, FaultsTyped, Kept
  <2> QED BY <2>1, <2>2, <2>3, <2>5, Zenon
<1>5. ASSUME NEW t \in Threads, fate = NULL, faults_enable_failed(t) PROVE FaultsInv'
  <2> USE <1>5 DEF faults_enable_failed, f_goto, advance, f_front, undone
  <2>1. FaultsTyped'
    BY Zenon DEF FaultsTyped
  <2>2. LockIsHeld' /\ lock = t /\ ~ARMED
    BY DEF LockIsHeld, FaultsTyped
  <2>3. FaultIsCaught' /\ EndsAsWithout'
    BY Zenon DEF FaultIsCaught, EndsAsWithout
  <2>4. ASSUME NEW s \in Signals PROVE f_action'[s] = earlier[s]
    BY <2>2 DEF ActionsAreKept, FaultsTyped, Kept
  <2>5. ActionsAreKept'
    BY <2>4 DEF ActionsAreKept, FaultsTyped, Kept
  <2> QED BY <2>1, <2>2, <2>3, <2>5, Zenon
<1>6. ASSUME NEW s \in Signals, NEW was_sent \in BOOLEAN, Fault(s, was_sent) PROVE FaultsInv'
  <2> DEFINE f == [NoFault EXCEPT !.signal = s, !.sent = was_sent]
  <2>1. f \in Faulted /\ f.signal = s /\ f.sent = was_sent /\ ~f.caught
    BY EditedFault, Zenon DEF NoFault, FaultsTyped
  <2>2. [f EXCEPT !.caught = TRUE] \in Faulted
    BY <2>1, EditedFault, Zenon
  <2>3. [f EXCEPT !.caught = TRUE].caught /\ [f EXCEPT !.caught = TRUE].signal = s
    BY <2>1, Zenon DEF Faulted
  <2> HIDE DEF f
  <2>4. \/ f_action[s] = "ours" /\ at' = "report" /\ fault' = [f EXCEPT !.caught = TRUE] /\ fate' = NULL
        \/ f_action[s] # "ours" /\ at' = "run" /\ fault' = f /\ fate' = f_action[s]
    BY <1>6, <2>1, Zenon DEF take, Fault, f
  <2>5. fate = NULL /\ UNCHANGED <<f_front, installing, f_PREVIOUS, f_action, earlier>>
    BY <1>6, Zenon DEF Fault
  <2> USE <2>4, <2>5 DEF f_front, installing
  <2>6. FaultsTyped'
    BY <2>1, <2>2, Zenon DEF FaultsTyped
  <2>7. LockIsHeld'
    BY Zenon DEF LockIsHeld
  <2>8. f_action[s] # "ours" => f_action[s] = earlier[s] /\ f_action[s] # NULL
    BY Zenon DEF ActionsAreKept, FaultsTyped
  <2>9. f_action[s] = "ours" => Kept(s)
    BY DEF ActionsAreKept
  <2>10. FaultIsCaught' /\ EndsAsWithout'
    BY <2>1, <2>3, <2>8, Zenon DEF FaultIsCaught, EndsAsWithout
  <2>11. ActionsAreKept'
    BY <2>3, <2>8, <2>9, Zenon DEF ActionsAreKept, Kept
  <2> QED BY <2>6, <2>7, <2>10, <2>11, Zenon
<1>7. CASE faults_report \/ faults_deliver
  <2> USE <1>7 DEF faults_report, faults_deliver, f_front, installing
  <2>1. LockIsHeld'
    BY DEF LockIsHeld
  <2>2. fault' \in Faulted
    <3>1. NoFault \in Faulted /\ [fault EXCEPT !.inside = TRUE] \in Faulted
      BY EditedFault, Zenon DEF FaultsTyped
    <3>2. [fault EXCEPT !.handler = f_HANDLER] \in Faulted
      BY EditedFault, Zenon DEF FaultsTyped
    <3> QED BY <3>1, <3>2, Zenon DEF FaultsTyped
  <2>3. FaultsTyped'
    BY <2>2, Zenon DEF FaultsTyped
  <2>4. FaultIsCaught' /\ EndsAsWithout'
    BY DEF FaultIsCaught, EndsAsWithout, FaultsTyped, Faulted, NoFault
  <2>5. ActionsAreKept'
    BY DEF ActionsAreKept, FaultsTyped, Kept, Faulted
  <2> QED BY <2>1, <2>3, <2>4, <2>5, Zenon
<1>8. CASE on_signal_declined
  <2> USE <1>8 DEF on_signal_declined, restored, f_front, installing
  <2>1. FaultsTyped' /\ LockIsHeld'
    BY Zenon DEF FaultsTyped, LockIsHeld, FaultIsCaught
  <2>2. FaultIsCaught' /\ EndsAsWithout'
    BY Zenon DEF FaultIsCaught, EndsAsWithout
  <2>3. f_action'[fault.signal] = earlier[fault.signal] /\ earlier[fault.signal] # "ours"
    BY Zenon DEF ActionsAreKept, FaultsTyped, Kept, FaultIsCaught
  <2>4. \A s \in Signals : f_action'[s] = earlier[s] \/ f_action'[s] = f_action[s]
    BY <2>3, Zenon DEF FaultsTyped
  <2>5. ActionsAreKept'
    BY <2>3, <2>4 DEF ActionsAreKept, FaultsTyped, Kept
  <2> QED BY <2>1, <2>2, <2>5, Zenon
<1>9. CASE again
  <2> USE <1>9 DEF again, f_front, installing
  <2>1. FaultsTyped'
    <3>1. fault' \in Faulted
      BY EditedFault, Zenon DEF FaultsTyped, take
    <3>2. at' \in {"report", "again"}
      BY Zenon DEF take
    <3> QED BY <3>1, <3>2, Zenon DEF FaultsTyped
  <2>2. LockIsHeld'
    BY Zenon DEF LockIsHeld
  <2>3. /\ fate' = NULL => at' = "report" /\ f_action[fault.signal] = "ours"
        /\ fate' # NULL => at' = "again" /\ fate' = f_action[fault.signal] /\ f_action[fault.signal] # "ours"
        /\ fault'.signal = fault.signal /\ fault'.sent = fault.sent /\ fault'.caught /\ fault.signal \in Signals
    BY DEF take, FaultsTyped, FaultIsCaught, Faulted
  <2>4. FaultIsCaught' /\ EndsAsWithout'
    BY <2>3, Zenon DEF FaultIsCaught, EndsAsWithout, ActionsAreKept
  <2>5. ActionsAreKept'
    BY <2>3, Zenon DEF ActionsAreKept, Kept
  <2> QED BY <2>1, <2>2, <2>4, <2>5, Zenon
<1>10. CASE on_signal_sent
  BY <1>10, Zenon DEF on_signal_sent, f_front, installing, FaultsTyped, LockIsHeld,
    FaultIsCaught, ActionsAreKept, Kept, EndsAsWithout
<1>11. CASE UNCHANGED cpu
  BY <1>11 DEF cpu, f_front, installing, FaultsTyped, LockIsHeld,
    FaultIsCaught, ActionsAreKept, Kept, EndsAsWithout
<1> QED
  <2> HIDE DEF FaultsInv
  <2> QED BY Zenon, <1>1, <1>2, <1>3, <1>4, <1>5, <1>6, <1>7, <1>8, <1>9, <1>10, <1>11
             DEF FaultsNext, InsideFaults, Handling

\* A fault that nobody resumes is taken by the action its signal had before any
\* install: on_signal puts back what enable found, whichever installs raced or
\* failed (`on_signal`, `enable` of linux-std/src/faults.rs).
THEOREM FaultsEndAsWithout == FaultsSpec => []EndsAsWithout
<1>1. FaultsInv => EndsAsWithout
  BY Zenon DEF FaultsInv
<1> QED BY FaultsInitially, FaultsStepKeeps, <1>1, PTL DEF FaultsSpec

-----------------------------------------------------------------------------
(* The records of children.  The inductive invariant says who has a record *)
(* between the steps of a call and of the watcher: a starter that has not  *)
(* listed it yet, the list, or whoever took it from the list; and that no  *)
(* two of them do.                                                         *)

\* A thread's call, and the record it has: one that is not on the list yet, is on
\* it without a watcher, or has left it.
CallIsSound(t) ==
    LET c == owner[t] IN
    /\ c = NULL <=> child_op[t] = "none"
    /\ c # NULL => c \in allocated /\ watch[c] = "none"
    /\ child_op[t] = "thread" => c \in Listed /\ c \notin exited \union reaped \union watcher_done
    /\ child_op[t] \in {"list", "fail", "dispose"} => c \notin Listed
    /\ child_op[t] = "list" => c \notin exited \union reaped \union watcher_done

\* No two calls have the same record.
OwnersDiffer == \A t, u \in Threads : owner[t] = owner[u] /\ owner[t] # NULL => t = u

\* A record: its watcher until it is done, the list until the child is collected and
\* the watcher done, then whoever took it off the list.
RecordIsSound(c) ==
    /\ watch[c] # "none" => c \in allocated
    /\ watch[c] \in {"wait", "ended", "tell", "told"} => c \in Listed /\ c \notin watcher_done
    /\ watch[c] = "dispose" => c \notin Listed
    /\ c \in Listed => c \in allocated /\ ~(c \in reaped /\ c \in watcher_done)
    /\ c \in allocated => \/ c \in Listed
                          \/ watch[c] = "dispose"
                          \/ \E t \in Threads : owner[t] = c

\* The inductive invariant of the records.
ChildrenInv ==
    /\ ChildrenTypeOK
    /\ OwnersDiffer
    /\ \A t \in Threads : CallIsSound(t)
    /\ \A c \in Records : RecordIsSound(c)

-----------------------------------------------------------------------------
\* The list of children has every record once.
ListOK ==
    /\ children \in Seq(Records)
    /\ \A i, j \in DOMAIN children : children[i] = children[j] => i = j

\* A record at the head of the list.
LEMMA ListGains ==
    ASSUME ListOK, NEW c \in Records \ Listed, children' = <<c>> \o children
    PROVE  ListOK' /\ Listed' = Listed \union {c}
<1>1. Len(children) \in Nat /\ DOMAIN children = 1 .. Len(children)
  BY DEF ListOK
<1>2. /\ children' \in Seq(Records) /\ Len(children') = Len(children) + 1
      /\ DOMAIN children' = 1 .. Len(children) + 1
      /\ children'[1] = c /\ \A i \in 1 .. Len(children) : children'[i + 1] = children[i]
  BY <1>1 DEF ListOK
<1>3. \A i \in 1 .. Len(children) + 1 :
          i # 1 => i - 1 \in 1 .. Len(children) /\ children'[i] = children[i - 1]
  <2>1. \A i \in 1 .. Len(children) + 1 : i # 1 => i - 1 \in 1 .. Len(children) /\ i = (i - 1) + 1
    BY <1>1
  <2> QED BY <1>2, <2>1, Zenon
<1>4. Listed' = Listed \union {c}
  <2>1. Listed = {children[i] : i \in 1 .. Len(children)}
    BY <1>1, Zenon DEF Listed
  <2>2. Listed' = {children'[i] : i \in 1 .. Len(children) + 1}
    BY <1>2, Zenon DEF Listed
  <2>3. \A i \in 1 .. Len(children) + 1 : children'[i] \in Listed \union {c}
    BY <1>2, <1>3, <2>1, Zenon
  <2>4. \A i \in 1 .. Len(children) : children[i] \in Listed'
    <3>1. \A i \in 1 .. Len(children) : i + 1 \in 1 .. Len(children) + 1
      BY <1>1
    <3> QED BY <1>2, <2>2, <3>1, Zenon
  <2>5. c \in Listed'
    <3>1. 1 \in 1 .. Len(children) + 1
      BY <1>1
    <3> QED BY <1>2, <2>2, <3>1, Zenon
  <2> QED BY <2>1, <2>2, <2>3, <2>4, <2>5, Zenon
<1>5. ASSUME NEW i \in 1 .. Len(children) + 1, NEW j \in 1 .. Len(children) + 1, children'[i] = children'[j]
      PROVE  i = j
  <2>1. \A k \in 1 .. Len(children) : children[k] # c
    BY <1>1, Zenon DEF Listed
  <2>2. CASE i = 1 \/ j = 1
    BY <1>2, <1>3, <1>5, <2>1, <2>2
  <2>3. CASE i # 1 /\ j # 1
    <3>1. i - 1 = j - 1
      BY <1>1, <1>3, <1>5, <2>3, Zenon DEF ListOK
    <3> QED BY <3>1
  <2> QED BY <2>2, <2>3, Zenon
<1> QED BY <1>2, <1>4, <1>5, Zenon DEF ListOK

\* A record leaves the list.
LEMMA ListLoses ==
    ASSUME ListOK, NEW i \in DOMAIN children, children' = Unlinked(i)
    PROVE  ListOK' /\ Listed' = Listed \ {children[i]}
<1>1. Len(children) \in Nat /\ DOMAIN children = 1 .. Len(children) /\ i \in 1 .. Len(children)
  BY DEF ListOK
<1>2. /\ DOMAIN children' = 1 .. Len(children) - 1
      /\ \A j \in 1 .. Len(children) - 1 : children'[j] = IF j < i THEN children[j] ELSE children[j + 1]
  BY Zenon DEF Unlinked
<1>3. \A j \in 1 .. Len(children) - 1 : children'[j] \in Records
  BY <1>1, <1>2 DEF ListOK
<1>4. children' \in Seq(Records)
  <2>1. Len(children) - 1 \in Nat
    BY <1>1
  <2>2. children' = [j \in 1 .. Len(children) - 1 |-> children'[j]]
    BY <1>2, Zenon DEF Unlinked
  <2> QED BY <2>1, <2>2, <1>3
<1>5. ASSUME NEW j \in 1 .. Len(children) - 1, NEW k \in 1 .. Len(children) - 1, children'[j] = children'[k]
      PROVE  j = k
  BY <1>1, <1>2, <1>5 DEF ListOK
<1>6. Listed' = Listed \ {children[i]}
  <2>1. \A j \in 1 .. Len(children) - 1 : children'[j] \in Listed \ {children[i]}
    BY <1>1, <1>2 DEF ListOK, Listed
  <2>2. ASSUME NEW k \in 1 .. Len(children), k # i
        PROVE  \E j \in 1 .. Len(children) - 1 : children'[j] = children[k]
    <3>1. CASE k < i
      BY <1>1, <1>2, <3>1
    <3>2. CASE k > i
      <4>1. k - 1 \in 1 .. Len(children) - 1 /\ ~(k - 1 < i) /\ (k - 1) + 1 = k
        BY <1>1, <3>2
      <4> QED BY <4>1, <1>2, Zenon
    <3> QED BY <1>1, <2>2, <3>1, <3>2
  <2>3. Listed' = {children'[j] : j \in 1 .. Len(children) - 1}
    BY <1>2, Zenon DEF Listed
  <2>4. Listed = {children[k] : k \in 1 .. Len(children)}
    BY <1>1, Zenon DEF Listed
  <2> QED BY <2>1, <2>2, <2>3, <2>4
<1> QED BY <1>2, <1>4, <1>5, <1>6, Zenon DEF ListOK

\* detach_if_finished takes the record from the list exactly when it is finished.
LEMMA DetachTakes ==
    ASSUME ListOK, NEW c, NEW r, NEW w, detach_if_finished(c, r, w)
    PROVE  ListOK' /\ Listed' = IF Finished(c, r, w) THEN Listed \ {c} ELSE Listed
<1>1. CASE ~(Finished(c, r, w) /\ c \in Listed) /\ UNCHANGED children
  BY <1>1, Zenon DEF ListOK, Listed
<1>2. ASSUME Finished(c, r, w), NEW i \in DOMAIN children, children[i] = c, children' = Unlinked(i)
      PROVE  ListOK' /\ Listed' = Listed \ {c}
  BY <1>2, ListLoses, Zenon
<1> QED BY <1>1, <1>2, Zenon DEF detach_if_finished

-----------------------------------------------------------------------------
\* What the step of one call or watcher has to keep, given what it does to the list.
RecordsKept ==
    /\ ChildrenTypeOK'
    /\ OwnersDiffer'
    /\ \A t \in Threads : CallIsSound(t)'
    /\ \A c \in Records : RecordIsSound(c)'

\* Nothing names the record that a new child gets.
LEMMA SpawnKeeps ==
    ASSUME ChildrenInv, NEW t \in Threads, Spawn(t)
    PROVE  RecordsKept
<1> USE NullIsNoRecord DEF ChildrenInv
<1>1. PICK c \in Records \ (allocated \union holding), i \in Pids :
          /\ allocated' = allocated \union {c}
          /\ pid' = [pid EXCEPT ![c] = i]
          /\ holding' = holding \union {c}
          /\ running' = running \union {c}
          /\ owner' = [owner EXCEPT ![t] = c]
  BY Zenon DEF Spawn
<1>2. PICK call \in {"list", "fail"} : ChildGoto(t, call)
  BY Zenon DEF Spawn
<1>3. ListOK' /\ Listed' = Listed
  BY DEF Spawn, ChildrenTypeOK, ListOK, Listed
<1>4. ChildrenTypeOK'
  BY <1>1, <1>2, <1>3 DEF Spawn, ChildGoto, flags, ChildrenTypeOK, ListOK, CallIsSound, RecordIsSound
<1>5. OwnersDiffer'
  BY <1>1, <1>2, <1>3 DEF Spawn, ChildGoto, flags, ChildrenTypeOK, OwnersDiffer, CallIsSound, RecordIsSound
<1>6. ASSUME NEW u \in Threads PROVE CallIsSound(u)'
  BY <1>1, <1>2, <1>3 DEF Spawn, ChildGoto, flags, ChildrenTypeOK, OwnersDiffer, CallIsSound, RecordIsSound
<1>7. ASSUME NEW d \in Records PROVE RecordIsSound(d)'
  BY <1>1, <1>2, <1>3 DEF Spawn, ChildGoto, flags, ChildrenTypeOK, OwnersDiffer, CallIsSound, RecordIsSound
<1> QED BY <1>4, <1>5, <1>6, <1>7, Zenon DEF RecordsKept

\* The record of a started child goes on the list.
LEMMA ListKeeps ==
    ASSUME ChildrenInv, NEW t \in Threads, List(t)
    PROVE  RecordsKept
<1> USE NullIsNoRecord DEF ChildrenInv
<1>1. PICK c : c = owner[t]
  BY Zenon
<1>2. c \in Records /\ CallIsSound(t)
  BY <1>1, Zenon DEF List, CallIsSound, ChildrenTypeOK
<1>3. ListOK' /\ Listed' = Listed \union {c}
  <2>1. ListOK /\ c \notin Listed
    BY <1>1, <1>2, Zenon DEF List, ChildrenTypeOK, ListOK, CallIsSound
  <2> QED BY <1>1, <1>2, <2>1, ListGains, Zenon DEF List
<1>4. ChildrenTypeOK'
  BY <1>1, <1>2, <1>3, Zenon DEF List, ChildGoto, flags, ChildrenTypeOK, ListOK, CallIsSound, RecordIsSound
<1>5. OwnersDiffer'
  BY <1>1, <1>2, <1>3, Zenon DEF List, ChildGoto, flags, ChildrenTypeOK, OwnersDiffer, CallIsSound, RecordIsSound
<1>6. ASSUME NEW u \in Threads PROVE CallIsSound(u)'
  BY <1>1, <1>2, <1>3, Zenon DEF List, ChildGoto, flags, ChildrenTypeOK, OwnersDiffer, CallIsSound, RecordIsSound
<1>7. ASSUME NEW d \in Records PROVE RecordIsSound(d)'
  BY <1>1, <1>2, <1>3, Zenon DEF List, ChildGoto, flags, ChildrenTypeOK, OwnersDiffer, CallIsSound, RecordIsSound
<1> QED BY <1>4, <1>5, <1>6, <1>7, Zenon DEF RecordsKept

\* The watcher takes the record from the thread that started the child.
LEMMA ThreadCreateKeeps ==
    ASSUME ChildrenInv, NEW t \in Threads, ThreadCreate(t)
    PROVE  RecordsKept
<1> USE NullIsNoRecord DEF ChildrenInv
<1>1. PICK c : c = owner[t]
  BY Zenon
<1>2. c \in Records /\ CallIsSound(t)
  BY <1>1, Zenon DEF ThreadCreate, CallIsSound, ChildrenTypeOK
<1>3. ListOK' /\ Listed' = Listed
  BY DEF ThreadCreate, ChildrenTypeOK, ListOK, Listed
<1>4. ChildrenTypeOK'
  BY <1>1, <1>2, <1>3, Zenon DEF ThreadCreate, ChildGoto, Step, flags, ChildrenTypeOK, ListOK, CallIsSound, RecordIsSound
<1>5. OwnersDiffer'
  BY <1>1, <1>2, <1>3, Zenon DEF ThreadCreate, ChildGoto, Step, flags, ChildrenTypeOK, OwnersDiffer, CallIsSound, RecordIsSound
<1>6. ASSUME NEW u \in Threads PROVE CallIsSound(u)'
  BY <1>1, <1>2, <1>3, Zenon DEF ThreadCreate, ChildGoto, Step, flags, ChildrenTypeOK, OwnersDiffer, CallIsSound, RecordIsSound
<1>7. ASSUME NEW d \in Records PROVE RecordIsSound(d)'
  BY <1>1, <1>2, <1>3, Zenon DEF ThreadCreate, ChildGoto, Step, flags, ChildrenTypeOK, OwnersDiffer, CallIsSound, RecordIsSound
<1> QED BY <1>4, <1>5, <1>6, <1>7, Zenon DEF RecordsKept

\* Without a watcher the record leaves the list with both flags set.
LEMMA ThreadFailsKeeps ==
    ASSUME ChildrenInv, NEW t \in Threads, ThreadFails(t)
    PROVE  RecordsKept
<1> USE NullIsNoRecord DEF ChildrenInv
<1>1. PICK c : c = owner[t]
  BY Zenon
<1>2. c \in Records /\ CallIsSound(t)
  BY <1>1, Zenon DEF ThreadFails, CallIsSound, ChildrenTypeOK
<1>3. ListOK' /\ Listed' = Listed \ {c}
  <2>1. ListOK
    BY Zenon DEF ChildrenTypeOK, ListOK
  <2>2. detach_if_finished(c, reaped', watcher_done') /\ Finished(c, reaped', watcher_done')
    BY <1>1, <1>2, <2>1, Zenon DEF ThreadFails, Finished
  <2> QED BY <2>1, <2>2, DetachTakes, Zenon
<1>4. ChildrenTypeOK'
  BY <1>1, <1>2, <1>3 DEF ThreadFails, ChildGoto, ChildrenTypeOK, ListOK, CallIsSound, RecordIsSound
<1>5. OwnersDiffer'
  BY <1>1, <1>2, <1>3, Zenon DEF ThreadFails, ChildGoto, ChildrenTypeOK, OwnersDiffer, CallIsSound, RecordIsSound
<1>6. ASSUME NEW u \in Threads PROVE CallIsSound(u)'
  BY <1>1, <1>2, <1>3, Zenon DEF ThreadFails, ChildGoto, ChildrenTypeOK, OwnersDiffer, CallIsSound, RecordIsSound
<1>7. ASSUME NEW d \in Records PROVE RecordIsSound(d)'
  BY <1>1, <1>2, <1>3, Zenon DEF ThreadFails, ChildGoto, ChildrenTypeOK, OwnersDiffer, CallIsSound, RecordIsSound
<1> QED BY <1>4, <1>5, <1>6, <1>7, Zenon DEF RecordsKept

\* A child that could not be started is disposed of by its starter.
LEMMA FailKeeps ==
    ASSUME ChildrenInv, NEW t \in Threads, Fail(t)
    PROVE  RecordsKept
<1> USE NullIsNoRecord DEF ChildrenInv
<1>1. PICK c : c = owner[t]
  BY Zenon
<1>2. c \in Records /\ CallIsSound(t)
  BY <1>1, Zenon DEF Fail, CallIsSound, ChildrenTypeOK
<1>3. ListOK' /\ Listed' = Listed
  BY DEF Fail, ChildrenTypeOK, ListOK, Listed
<1>4. ChildrenTypeOK'
  BY <1>1, <1>2, <1>3, Zenon DEF Fail, ChildGoto, dispose, ChildrenTypeOK, ListOK, CallIsSound, RecordIsSound
<1>5. OwnersDiffer'
  BY <1>1, <1>2, <1>3 DEF Fail, ChildGoto, dispose, ChildrenTypeOK, OwnersDiffer, CallIsSound, RecordIsSound
<1>6. ASSUME NEW u \in Threads PROVE CallIsSound(u)'
  BY <1>1, <1>2, <1>3, ZenonT(30) DEF Fail, ChildGoto, dispose, ChildrenTypeOK, OwnersDiffer, CallIsSound, RecordIsSound
<1>7. ASSUME NEW d \in Records PROVE RecordIsSound(d)'
  BY <1>1, <1>2, <1>3, Zenon DEF Fail, ChildGoto, dispose, ChildrenTypeOK, OwnersDiffer, CallIsSound, RecordIsSound
<1> QED BY <1>4, <1>5, <1>6, <1>7, Zenon DEF RecordsKept

\* A collected child is disposed of by its collector.
LEMMA DisposeKeeps ==
    ASSUME ChildrenInv, NEW t \in Threads, Dispose(t)
    PROVE  RecordsKept
<1> USE NullIsNoRecord DEF ChildrenInv
<1>1. PICK c : c = owner[t]
  BY Zenon
<1>2. c \in Records /\ CallIsSound(t)
  BY <1>1, Zenon DEF Dispose, CallIsSound, ChildrenTypeOK
<1>3. ListOK' /\ Listed' = Listed
  BY DEF Dispose, ChildrenTypeOK, ListOK, Listed
<1>4. ChildrenTypeOK'
  BY <1>1, <1>2, <1>3, Zenon DEF Dispose, ChildGoto, dispose, ChildrenTypeOK, ListOK, CallIsSound, RecordIsSound
<1>5. OwnersDiffer'
  BY <1>1, <1>2, <1>3 DEF Dispose, ChildGoto, dispose, ChildrenTypeOK, OwnersDiffer, CallIsSound, RecordIsSound
<1>6. ASSUME NEW u \in Threads PROVE CallIsSound(u)'
  BY <1>1, <1>2, <1>3, Zenon DEF Dispose, ChildGoto, dispose, ChildrenTypeOK, OwnersDiffer, CallIsSound, RecordIsSound
<1>7. ASSUME NEW d \in Records PROVE RecordIsSound(d)'
  BY <1>1, <1>2, <1>3, Zenon DEF Dispose, ChildGoto, dispose, ChildrenTypeOK, OwnersDiffer, CallIsSound, RecordIsSound
<1> QED BY <1>4, <1>5, <1>6, <1>7, Zenon DEF RecordsKept

\* A child ends.
LEMMA EndKeeps ==
    ASSUME ChildrenInv, NEW c \in Records, End(c)
    PROVE  RecordsKept
<1> USE NullIsNoRecord DEF ChildrenInv
<1>1. ListOK' /\ Listed' = Listed
  BY DEF End, ChildrenTypeOK, ListOK, Listed
<1>2. ChildrenTypeOK'
  BY <1>1, Zenon DEF End, flags, ChildrenTypeOK, ListOK, CallIsSound, RecordIsSound
<1>3. OwnersDiffer'
  BY <1>1, Zenon DEF End, flags, ChildrenTypeOK, OwnersDiffer, CallIsSound, RecordIsSound
<1>4. ASSUME NEW u \in Threads PROVE CallIsSound(u)'
  BY <1>1, Zenon DEF End, flags, ChildrenTypeOK, OwnersDiffer, CallIsSound, RecordIsSound
<1>5. ASSUME NEW d \in Records PROVE RecordIsSound(d)'
  BY <1>1, Zenon DEF End, flags, ChildrenTypeOK, OwnersDiffer, CallIsSound, RecordIsSound
<1> QED BY <1>2, <1>3, <1>4, <1>5, Zenon DEF RecordsKept

\* The wait for a child returns.
LEMMA WaitReturnsKeeps ==
    ASSUME ChildrenInv, NEW c \in Records, WaitReturns(c)
    PROVE  RecordsKept
<1> USE NullIsNoRecord DEF ChildrenInv
<1>1. ListOK' /\ Listed' = Listed
  BY DEF WaitReturns, ChildrenTypeOK, ListOK, Listed
<1>2. ChildrenTypeOK'
  BY <1>1, Zenon DEF WaitReturns, Step, flags, ChildrenTypeOK, ListOK, CallIsSound, RecordIsSound
<1>3. OwnersDiffer'
  BY <1>1, Zenon DEF WaitReturns, Step, flags, ChildrenTypeOK, OwnersDiffer, CallIsSound, RecordIsSound
<1>4. ASSUME NEW u \in Threads PROVE CallIsSound(u)'
  BY <1>1, Zenon DEF WaitReturns, Step, flags, ChildrenTypeOK, OwnersDiffer, CallIsSound, RecordIsSound
<1>5. ASSUME NEW d \in Records PROVE RecordIsSound(d)'
  BY <1>1, Zenon DEF WaitReturns, Step, flags, ChildrenTypeOK, OwnersDiffer, CallIsSound, RecordIsSound
<1> QED BY <1>2, <1>3, <1>4, <1>5, Zenon DEF RecordsKept

\* The wait for a child fails.
LEMMA WaitFailsKeeps ==
    ASSUME ChildrenInv, NEW c \in Records, WaitFails(c)
    PROVE  RecordsKept
<1> USE NullIsNoRecord DEF ChildrenInv
<1>1. ListOK' /\ Listed' = Listed
  BY DEF WaitFails, ChildrenTypeOK, ListOK, Listed
<1>2. ChildrenTypeOK'
  BY <1>1, Zenon DEF WaitFails, Step, flags, ChildrenTypeOK, ListOK, CallIsSound, RecordIsSound
<1>3. OwnersDiffer'
  BY <1>1, Zenon DEF WaitFails, Step, flags, ChildrenTypeOK, OwnersDiffer, CallIsSound, RecordIsSound
<1>4. ASSUME NEW u \in Threads PROVE CallIsSound(u)'
  BY <1>1, Zenon DEF WaitFails, Step, flags, ChildrenTypeOK, OwnersDiffer, CallIsSound, RecordIsSound
<1>5. ASSUME NEW d \in Records PROVE RecordIsSound(d)'
  BY <1>1, Zenon DEF WaitFails, Step, flags, ChildrenTypeOK, OwnersDiffer, CallIsSound, RecordIsSound
<1> QED BY <1>2, <1>3, <1>4, <1>5, Zenon DEF RecordsKept

\* The watcher marks the child ended; no starter has the record any more.
LEMMA MarkExitedKeeps ==
    ASSUME ChildrenInv, NEW c \in Records, MarkExited(c)
    PROVE  RecordsKept
<1> USE NullIsNoRecord DEF ChildrenInv
<1>1. ListOK' /\ Listed' = Listed
  BY DEF MarkExited, ChildrenTypeOK, ListOK, Listed
<1>2. ChildrenTypeOK'
  BY <1>1 DEF MarkExited, Step, ChildrenTypeOK, ListOK, CallIsSound, RecordIsSound
<1>3. OwnersDiffer'
  BY <1>1, Zenon DEF MarkExited, Step, ChildrenTypeOK, OwnersDiffer, CallIsSound, RecordIsSound
<1>4. ASSUME NEW u \in Threads PROVE CallIsSound(u)'
  BY <1>1, Zenon DEF MarkExited, Step, ChildrenTypeOK, OwnersDiffer, CallIsSound, RecordIsSound
<1>5. ASSUME NEW d \in Records PROVE RecordIsSound(d)'
  BY <1>1, Zenon DEF MarkExited, Step, ChildrenTypeOK, OwnersDiffer, CallIsSound, RecordIsSound
<1> QED BY <1>2, <1>3, <1>4, <1>5, Zenon DEF RecordsKept

\* The watcher tells.
LEMMA TellExitKeeps ==
    ASSUME ChildrenInv, NEW c \in Records, TellExit(c)
    PROVE  RecordsKept
<1> USE NullIsNoRecord DEF ChildrenInv
<1>1. ListOK' /\ Listed' = Listed
  BY DEF TellExit, ChildrenTypeOK, ListOK, Listed
<1>2. ChildrenTypeOK'
  BY <1>1, Zenon DEF TellExit, Step, flags, ChildrenTypeOK, ListOK, CallIsSound, RecordIsSound
<1>3. OwnersDiffer'
  BY <1>1, Zenon DEF TellExit, Step, flags, ChildrenTypeOK, OwnersDiffer, CallIsSound, RecordIsSound
<1>4. ASSUME NEW u \in Threads PROVE CallIsSound(u)'
  BY <1>1, Zenon DEF TellExit, Step, flags, ChildrenTypeOK, OwnersDiffer, CallIsSound, RecordIsSound
<1>5. ASSUME NEW d \in Records PROVE RecordIsSound(d)'
  BY <1>1, Zenon DEF TellExit, Step, flags, ChildrenTypeOK, OwnersDiffer, CallIsSound, RecordIsSound
<1> QED BY <1>2, <1>3, <1>4, <1>5, Zenon DEF RecordsKept

\* The watcher is through, and takes a collected record from the list.
LEMMA WatcherDoneKeeps ==
    ASSUME ChildrenInv, NEW c \in Records, WatcherDone(c)
    PROVE  RecordsKept
<1> USE NullIsNoRecord DEF ChildrenInv
<1>1. ListOK' /\ Listed' = IF c \in reaped THEN Listed \ {c} ELSE Listed
  <2>1. ListOK
    BY Zenon DEF ChildrenTypeOK, ListOK
  <2>2. detach_if_finished(c, reaped, watcher_done') /\ (Finished(c, reaped, watcher_done') <=> c \in reaped)
    BY <2>1, Zenon DEF WatcherDone, Finished
  <2> QED BY <2>1, <2>2, DetachTakes, Zenon
<1>2. ChildrenTypeOK'
  BY <1>1 DEF WatcherDone, Step, Finished, ChildrenTypeOK, ListOK, CallIsSound, RecordIsSound
<1>3. OwnersDiffer'
  BY <1>1, Zenon DEF WatcherDone, Step, Finished, ChildrenTypeOK, OwnersDiffer, CallIsSound, RecordIsSound
<1>4. ASSUME NEW u \in Threads PROVE CallIsSound(u)'
  BY <1>1, Zenon DEF WatcherDone, Step, Finished, ChildrenTypeOK, OwnersDiffer, CallIsSound, RecordIsSound
<1>5. ASSUME NEW d \in Records PROVE RecordIsSound(d)'
  BY <1>1, Zenon DEF WatcherDone, Step, Finished, ChildrenTypeOK, OwnersDiffer, CallIsSound, RecordIsSound
<1> QED BY <1>2, <1>3, <1>4, <1>5, Zenon DEF RecordsKept

\* The watcher disposes of a record nobody else has.
LEMMA WatcherDisposesKeeps ==
    ASSUME ChildrenInv, NEW c \in Records, WatcherDisposes(c)
    PROVE  RecordsKept
<1> USE NullIsNoRecord DEF ChildrenInv
<1>1. ListOK' /\ Listed' = Listed
  BY DEF WatcherDisposes, ChildrenTypeOK, ListOK, Listed
<1>2. ChildrenTypeOK'
  BY <1>1, Zenon DEF WatcherDisposes, Step, dispose, ChildrenTypeOK, ListOK, CallIsSound, RecordIsSound
<1>3. OwnersDiffer'
  BY <1>1, Zenon DEF WatcherDisposes, Step, dispose, ChildrenTypeOK, OwnersDiffer, CallIsSound, RecordIsSound
<1>4. ASSUME NEW u \in Threads PROVE CallIsSound(u)'
  BY <1>1, Zenon DEF WatcherDisposes, Step, dispose, ChildrenTypeOK, OwnersDiffer, CallIsSound, RecordIsSound
<1>5. ASSUME NEW d \in Records PROVE RecordIsSound(d)'
  BY <1>1, Zenon DEF WatcherDisposes, Step, dispose, ChildrenTypeOK, OwnersDiffer, CallIsSound, RecordIsSound
<1> QED BY <1>2, <1>3, <1>4, <1>5, Zenon DEF RecordsKept

\* A caller collects a child; one whose watcher is through is its own to free.
LEMMA WaitPidKeeps ==
    ASSUME ChildrenInv, NEW t \in Threads, NEW id, WaitPid(t, id)
    PROVE  RecordsKept
<1> USE NullIsNoRecord DEF ChildrenInv
<1>1. PICK c \in exited : /\ Candidate(c, id) /\ reaped' = reaped \union {c}
                          /\ detach_if_finished(c, reaped', watcher_done)
                          /\ IF Finished(c, reaped', watcher_done)
                             THEN owner' = [owner EXCEPT ![t] = c] /\ ChildGoto(t, "dispose")
                             ELSE UNCHANGED <<owner, child_op>>
  BY Zenon DEF WaitPid
<1>2. c \in Listed \ reaped /\ c \in Records
  BY <1>1, Zenon DEF Candidate, Asked, Listed, ChildrenTypeOK
<1>3. ListOK' /\ Listed' = IF c \in watcher_done THEN Listed \ {c} ELSE Listed
  <2>1. ListOK
    BY Zenon DEF ChildrenTypeOK, ListOK
  <2>2. detach_if_finished(c, reaped', watcher_done) /\ (Finished(c, reaped', watcher_done) <=> c \in watcher_done)
    BY <1>1, <1>2, Zenon DEF Finished
  <2> QED BY <2>1, <2>2, DetachTakes, Zenon
<1>4. ChildrenTypeOK'
  <2>1. owner' \in [Threads -> Records \union {NULL}]
    BY <1>1, <1>2, Zenon DEF ChildrenTypeOK
  <2>2. child_op' \in [Threads -> {"none", "list", "thread", "fail", "dispose"}]
    BY <1>1, Zenon DEF ChildGoto, ChildrenTypeOK
  <2>3. exited' \union reaped' \union watcher_done' \subseteq allocated'
    BY <1>1, Zenon DEF WaitPid, ChildrenTypeOK
  <2> QED BY <1>3, <2>1, <2>2, <2>3, Zenon DEF WaitPid, ChildrenTypeOK, ListOK
<1>5. OwnersDiffer'
  BY <1>1, <1>2, <1>3 DEF WaitPid, ChildGoto, Finished, ChildrenTypeOK, OwnersDiffer, CallIsSound, RecordIsSound
<1>6. ASSUME NEW u \in Threads PROVE CallIsSound(u)'
  BY <1>1, <1>2, <1>3 DEF WaitPid, ChildGoto, Finished, ChildrenTypeOK, OwnersDiffer, CallIsSound, RecordIsSound
<1>7. ASSUME NEW d \in Records PROVE RecordIsSound(d)'
  BY <1>1, <1>2, <1>3 DEF WaitPid, ChildGoto, Finished, ChildrenTypeOK, OwnersDiffer, CallIsSound, RecordIsSound
<1> QED BY <1>4, <1>5, <1>6, <1>7, Zenon DEF RecordsKept

\* A caller signals a child.
LEMMA KillKeeps ==
    ASSUME ChildrenInv, NEW t \in Threads, NEW id, Kill(t, id)
    PROVE  RecordsKept
<1> USE NullIsNoRecord DEF ChildrenInv
<1>1. ListOK' /\ Listed' = Listed
  BY DEF Kill, ChildrenTypeOK, ListOK, Listed
<1>2. ChildrenTypeOK'
  BY <1>1, Zenon DEF Kill, flags, ChildrenTypeOK, ListOK, CallIsSound, RecordIsSound
<1>3. OwnersDiffer'
  BY <1>1, Zenon DEF Kill, flags, ChildrenTypeOK, OwnersDiffer, CallIsSound, RecordIsSound
<1>4. ASSUME NEW u \in Threads PROVE CallIsSound(u)'
  BY <1>1, Zenon DEF Kill, flags, ChildrenTypeOK, OwnersDiffer, CallIsSound, RecordIsSound
<1>5. ASSUME NEW d \in Records PROVE RecordIsSound(d)'
  BY <1>1, Zenon DEF Kill, flags, ChildrenTypeOK, OwnersDiffer, CallIsSound, RecordIsSound
<1> QED BY <1>2, <1>3, <1>4, <1>5, Zenon DEF RecordsKept

\* Every step keeps the invariant.
LEMMA ChildrenKeep == ChildrenInv /\ [ChildrenNext]_process_table => ChildrenInv'
<1> SUFFICES ASSUME ChildrenInv, [ChildrenNext]_process_table PROVE RecordsKept
  BY Zenon DEF RecordsKept, ChildrenInv
<1>1. CASE UNCHANGED process_table
  <2>1. Listed' = Listed /\ ListOK' /\ ListOK
    BY <1>1, Zenon DEF process_table, Listed, ListOK, ChildrenInv, ChildrenTypeOK
  <2>2. ChildrenTypeOK' /\ OwnersDiffer'
    BY <1>1, <2>1, Zenon DEF process_table, flags, ChildrenInv, ChildrenTypeOK, ListOK, OwnersDiffer
  <2>3. \A t \in Threads : CallIsSound(t)'
    BY <1>1, <2>1, Zenon DEF process_table, flags, ChildrenInv, CallIsSound
  <2>4. \A c \in Records : RecordIsSound(c)'
    BY <1>1, <2>1, Zenon DEF process_table, flags, ChildrenInv, RecordIsSound
  <2> QED BY <2>2, <2>3, <2>4, Zenon DEF RecordsKept
<1>2. ASSUME NEW c \in Records, End(c) \/ WaitFails(c) \/ Watcher(c) PROVE RecordsKept
  BY Zenon, <1>2, EndKeeps, WaitFailsKeeps, WaitReturnsKeeps, MarkExitedKeeps, TellExitKeeps,
     WatcherDoneKeeps, WatcherDisposesKeeps DEF Watcher
<1>3. ASSUME NEW t \in Threads, Spawn(t) \/ Continue(t) PROVE RecordsKept
  BY Zenon, <1>3, SpawnKeeps, ListKeeps, ThreadCreateKeeps, ThreadFailsKeeps, FailKeeps, DisposeKeeps
     DEF Continue
<1>4. ASSUME NEW t \in Threads, NEW id, WaitPid(t, id) \/ Kill(t, id) PROVE RecordsKept
  BY <1>4, WaitPidKeeps, KillKeeps, Zenon
<1> QED BY <1>1, <1>2, <1>3, <1>4, Zenon DEF ChildrenNext

\* At the start there is no record.
LEMMA NoChildren == ChildrenInit => ChildrenInv
<1> SUFFICES ASSUME ChildrenInit PROVE ChildrenInv
  BY Zenon
<1>1. Listed = {} /\ ListOK
  BY DEF ChildrenInit, Listed, ListOK
<1>2. ChildrenTypeOK
  BY <1>1, Zenon DEF ChildrenInit, ChildrenTypeOK, ListOK
<1> QED BY Zenon, <1>1, <1>2, NullIsNoRecord
        DEF ChildrenInit, ChildrenInv, OwnersDiffer, CallIsSound, RecordIsSound

\* The invariant says who frees a record: one thread, and none while it is listed.
LEMMA OwnedByInvariant == ChildrenInv => RecordsAreOwned
<1> SUFFICES ASSUME ChildrenInv PROVE RecordsAreOwned
  BY Zenon
<1>1. ASSUME NEW c \in Records
      PROVE  /\ watch[c] # "none" => c \in allocated
             /\ Cardinality(Disposers(c)) <= 1
             /\ c \in Listed => c \in allocated /\ Disposers(c) = {}
             /\ c \in allocated => \/ c \in Listed
                                   \/ Disposers(c) # {}
                                   \/ \E t \in Threads : owner[t] = c /\ child_op[t] = "list"
  <2> DEFINE Disposing == {t \in Threads : owner[t] = c /\ child_op[t] \in {"dispose", "fail"}}
  <2>1. RecordIsSound(c) /\ c # NULL
    BY NullIsNoRecord, Zenon DEF ChildrenInv
  <2>2. \A t \in Threads : owner[t] = c => /\ watch[c] = "none"
                                           /\ child_op[t] \in {"list", "thread", "fail", "dispose"}
                                           /\ child_op[t] = "thread" => c \in Listed
                                           /\ child_op[t] # "thread" => c \notin Listed
    BY <2>1, Zenon DEF ChildrenInv, CallIsSound, ChildrenTypeOK
  <2>3. \A t, u \in Disposing : t = u
    BY <2>1, Zenon DEF ChildrenInv, OwnersDiffer
  <2>4. Disposers(c) = Disposing \union (IF watch[c] = "dispose" THEN {c} ELSE {})
    BY Zenon DEF Disposers
  <2>5. \E d : Disposers(c) \subseteq {d}
    <3>1. CASE watch[c] = "dispose"
      BY <3>1, <2>2, <2>4, Zenon
    <3>2. CASE watch[c] # "dispose"
      BY <3>2, <2>3, <2>4
    <3> QED BY <3>1, <3>2, Zenon
  <2>6. Cardinality(Disposers(c)) <= 1
    <3>1. PICK d : Disposers(c) \subseteq {d}
      BY <2>5, Zenon
    <3>2. Cardinality({d}) = 1 /\ IsFiniteSet({d})
      BY FS_Singleton, Zenon
    <3>3. Cardinality(Disposers(c)) <= Cardinality({d})
      BY <3>1, <3>2, FS_Subset, Zenon
    <3> QED BY <3>2, <3>3, Zenon
  <2>7. c \in Listed => c \in allocated /\ Disposers(c) = {}
    BY <2>1, <2>2, <2>4, Zenon DEF RecordIsSound
  <2>8. c \in allocated => \/ c \in Listed
                           \/ Disposers(c) # {}
                           \/ \E t \in Threads : owner[t] = c /\ child_op[t] = "list"
    BY <2>1, <2>2, <2>4, Zenon DEF RecordIsSound
  <2> QED BY <2>1, <2>6, <2>7, <2>8, Zenon DEF RecordIsSound
<1> QED BY <1>1, Zenon DEF RecordsAreOwned, ChildrenInv

\* "The record goes once the code was collected AND the watcher is through with it"
\* (system_native_proc.c), for every number of callers and children: however the
\* watcher, the starter and the collectors of a child interleave, its record is
\* freed once, by one thread, after it left the list.
THEOREM RecordsStayOwned == ChildrenSpec => []RecordsAreOwned
BY NoChildren, ChildrenKeep, OwnedByInvariant, PTL DEF ChildrenSpec
=============================================================================
