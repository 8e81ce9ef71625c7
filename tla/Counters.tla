------------------------------ MODULE Counters ------------------------------
(***************************************************************************)
(* The counters of a group (src/src/counter.rs) under the calls of several *)
(* threads and a reader of the statistics: pointer-wide, saturating, and   *)
(* changed by a weak compare-and-exchange that may fail for no reason.     *)
(***************************************************************************)
EXTENDS Naturals, Sequences

CONSTANTS
    Counting,    \* threads that finish calls
    CALLS,      \* calls each of them finishes
    USIZE_MAX   \* largest value of a counter
ASSUME WidthAssumption == CALLS \in Nat /\ USIZE_MAX \in Nat

Indices == 0..1        \* the counter of successes and that of the rest

VARIABLES
    counter,    \* value per counter
    phase,         \* "idle" or "exchange" per caller
    index,      \* the counter a caller adds to
    current,    \* the value it observed
    left,       \* calls it has yet to finish
    ended,      \* calls that added to each counter
    seen,       \* what the reader of the statistics has read so far
    before      \* the counters when it began

counters == <<counter, phase, index, current, left, ended, seen, before>>

CountersInit ==
    /\ counter = [i \in Indices |-> 0]
    /\ phase = [t \in Counting |-> "idle"] /\ index = [t \in Counting |-> 0] /\ current = [t \in Counting |-> 0]
    /\ left = [t \in Counting |-> CALLS] /\ ended = [i \in Indices |-> 0]
    /\ seen = <<>> /\ before = counter

\* Mutant: a counter that is full starts over.
saturating_add_Wraps(n) == IF n = USIZE_MAX THEN 0 ELSE n + 1
saturating_add(n) == IF n = USIZE_MAX THEN n ELSE n + 1

\* `record` picks the counter by the status of the call, then adds to it.
increment_load(t, i) ==
    /\ phase[t] = "idle" /\ left[t] > 0
    /\ phase' = [phase EXCEPT ![t] = "exchange"]
    /\ index' = [index EXCEPT ![t] = i]
    /\ current' = [current EXCEPT ![t] = counter[i]]
    /\ UNCHANGED <<counter, left, ended, seen, before>>
increment_exchange(t) ==
    /\ phase[t] = "exchange"
    /\ counter[index[t]] = current[t]
    /\ counter' = [counter EXCEPT ![index[t]] = saturating_add(current[t])]
    /\ phase' = [phase EXCEPT ![t] = "idle"]
    /\ left' = [left EXCEPT ![t] = @ - 1]
    /\ ended' = [ended EXCEPT ![index[t]] = @ + 1]
    /\ UNCHANGED <<index, current, seen, before>>
\* Somebody else was faster, or the exchange failed spuriously.
increment_retry(t) ==
    /\ phase[t] = "exchange"
    /\ current' = [current EXCEPT ![t] = counter[index[t]]]
    /\ UNCHANGED <<counter, phase, index, left, ended, seen, before>>

\* `read_stats` loads one counter after the other.
load_stats ==
    /\ IF seen = <<>> \/ Len(seen) = 2
       THEN seen' = <<counter[0]>> /\ before' = counter
       ELSE seen' = <<seen[1], counter[1]>> /\ UNCHANGED before
    /\ UNCHANGED <<counter, phase, index, current, left, ended>>

CountersNext ==
    \/ \E t \in Counting : (\E i \in Indices : increment_load(t, i)) \/ increment_exchange(t) \/ increment_retry(t)
    \/ load_stats
CountersSpec == CountersInit /\ [][CountersNext]_counters

-----------------------------------------------------------------------------
CountersTypeOK ==
    /\ counter \in [Indices -> 0..USIZE_MAX] /\ before \in [Indices -> 0..USIZE_MAX]
    /\ phase \in [Counting -> {"idle", "exchange"}] /\ index \in [Counting -> Indices]
    /\ current \in [Counting -> 0..USIZE_MAX] /\ left \in [Counting -> 0..CALLS]

\* No call goes uncounted however many threads finish one at the same moment: a
\* counter is the number of calls that ended in it, or its largest value, and it
\* never starts over (counter.rs: "saturating diagnostic counters").  What
\* `read_stats` tells is between the counters when it began and those now, though
\* not all of one moment (services.rs:50).
NoCallUncounted ==
    /\ \A i \in Indices : counter[i] = IF ended[i] < USIZE_MAX THEN ended[i] ELSE USIZE_MAX
    /\ \A k \in DOMAIN seen : before[k - 1] <= seen[k] /\ seen[k] <= counter[k - 1]
=============================================================================
