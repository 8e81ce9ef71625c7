---------------------------- MODULE Negotiation -----------------------------
(***************************************************************************)
(* `negotiate`: the first caller of a Slot builds the table of the port,   *)
(* everyone else waits for it, and the outcome is final.  A load of the    *)
(* state, the compare_exchange, the write of the table and the store of    *)
(* the outcome are steps of their own.                                     *)
(***************************************************************************)
CONSTANT Callers

\* What a port says of itself while its table is built.  The groups of
\* operations that can neither reject the negotiation nor be dropped while the
\* port provides them are left out.  PROVIDED, DYNAMIC and FRAME_TAG are fixed
\* when the program is compiled; the other answers are the port's at run time.
Ports ==
    [vm : BOOLEAN, linear : BOOLEAN,    \* PROVIDED
     dynamic : BOOLEAN,                 \* Linear::DYNAMIC
     validate : BOOLEAN,
     geometry : BOOLEAN,                \* page size or granularity and capacity
     context : {"absent", "ops", "no ops"},
     faults : BOOLEAN, frame : BOOLEAN, \* PROVIDED, and FRAME_TAG # 0
     barrier : BOOLEAN]                 \* provided and available

Rejects(p) ==
    \/ p.vm /\ p.linear
    \/ ~p.validate
    \/ (p.vm \/ p.linear) /\ ~p.geometry
    \/ p.context = "no ops"
    \/ p.faults /\ ~p.frame

Capabilities == {"VM", "LINEAR", "DYNAMIC_LINEAR", "CONTEXT", "FAULTS", "BARRIER"}
Tables == SUBSET Capabilities

\* The capability bits of the table, or what build returns in its place.
None == {"None"}
build(p) ==
    IF Rejects(p) THEN None
    ELSE {c \in Capabilities :
             \/ c = "VM" /\ p.vm
             \/ c = "LINEAR" /\ p.linear
             \/ c = "DYNAMIC_LINEAR" /\ p.linear /\ p.dynamic
             \/ c = "CONTEXT" /\ p.context = "ops"
             \/ c = "FAULTS" /\ p.faults
             \/ c = "BARRIER" /\ p.barrier}

Outcomes == {build(p) : p \in Ports}
Unwritten == {"uninit"}

VARIABLES
    state,   \* Slot.state
    api,     \* Slot.api
    pc,      \* pc[c]: where caller c is
    got      \* got[c]: what its last call returned, and the table it then sees

vars == <<state, api, pc, got>>

Init ==
    /\ state = "UNINITIALIZED"
    /\ api = Unwritten
    /\ pc = [c \in Callers |-> "idle"]
    /\ got = [c \in Callers |-> "nothing"]

Goto(c, place) == pc' = [pc EXCEPT ![c] = place]
Return(c, pointer) == got' = [got EXCEPT ![c] = pointer] /\ Goto(c, "idle")

negotiate(c, matches) ==
    /\ pc[c] = "idle"
    /\ IF matches
       THEN Goto(c, "load") /\ UNCHANGED got
       ELSE Return(c, "null, wrong version")
    /\ UNCHANGED <<state, api>>

\* One round of the loop: it returns, spins, or goes for the slot.
load(c) ==
    /\ pc[c] = "load"
    /\ \/ state = "READY" /\ Return(c, "table")
       \/ state = "REJECTED" /\ Return(c, "null")
       \/ state = "UNINITIALIZED" /\ Goto(c, "exchange") /\ UNCHANGED got
    /\ UNCHANGED <<state, api>>

\* Mutant: a load and a store instead of the compare_exchange.
exchange_Blindly(c) ==
    /\ pc[c] = "exchange"
    /\ state' = "NEGOTIATING"
    /\ Goto(c, "build")
    /\ UNCHANGED <<api, got>>

exchange(c) ==
    /\ pc[c] = "exchange"
    /\ IF state = "UNINITIALIZED"
       THEN state' = "NEGOTIATING" /\ Goto(c, "build")
       ELSE Goto(c, "load") /\ UNCHANGED state
    /\ UNCHANGED <<api, got>>

\* Mutant: the state says READY before the table is there.
build_table_PublishesFirst(c, outcome) ==
    /\ pc[c] = "build"
    /\ state' = IF outcome = None THEN "REJECTED" ELSE "READY"
    /\ Goto(c, IF outcome = None THEN "store rejected" ELSE "store ready")
    /\ UNCHANGED <<api, got>>

build_table(c, outcome) ==
    /\ pc[c] = "build"
    /\ IF outcome = None
       THEN Goto(c, "store rejected") /\ UNCHANGED api
       ELSE Goto(c, "store ready") /\ api' = outcome
    /\ UNCHANGED <<state, got>>

\* Mutant: nothing is stored for a rejected negotiation.
store_OnlyReady(c) ==
    /\ \/ pc[c] = "store ready" /\ state' = "READY"
       \/ pc[c] = "store rejected" /\ UNCHANGED state
    /\ Goto(c, "load")
    /\ UNCHANGED <<api, got>>

store(c) ==
    /\ \/ pc[c] = "store ready" /\ state' = "READY"
       \/ pc[c] = "store rejected" /\ state' = "REJECTED"
    /\ Goto(c, "load")
    /\ UNCHANGED <<api, got>>

Next ==
    \E c \in Callers :
        \/ \E matches \in BOOLEAN : negotiate(c, matches)
        \/ load(c)
        \/ exchange(c)
        \/ \E outcome \in Outcomes : build_table(c, outcome)
        \/ store(c)

\* The scheduler runs a thread that can move, and build returns.
Fairness ==
    \A c \in Callers :
        /\ WF_vars(load(c))
        /\ WF_vars(exchange(c))
        /\ WF_vars(\E outcome \in Outcomes : build_table(c, outcome))
        /\ WF_vars(store(c))

Spec == Init /\ [][Next]_vars /\ Fairness

-----------------------------------------------------------------------------
Places == {"idle", "load", "exchange", "build", "store ready", "store rejected"}

\* Every field keeps its type.
TypeOK ==
    /\ state \in {"UNINITIALIZED", "NEGOTIATING", "READY", "REJECTED"}
    /\ api \in Tables \union {Unwritten}
    /\ pc \in [Callers -> Places]
    /\ got \in [Callers -> {"nothing", "table", "null", "null, wrong version"}]

\* A table a port may offer: virtual memory or linear storage, not both.
Offered(table) == table \in Tables /\ ~({"VM", "LINEAR"} \subseteq table)

\* A caller that was given the pointer finds a table behind it, for as long as
\* it keeps the pointer, and one that `build` may offer.
TableIsReadable == \A c \in Callers : got[c] = "table" => Offered(api)

\* "A rejected negotiation is final": no caller is given the table when another
\* was, or later is, rejected for anything but its version.
OutcomeIsFinal ==
    \A c, d \in Callers : ~(got[c] = "table" /\ got[d] = "null")

Building == {"build", "store ready", "store rejected"}

\* Who builds owns the slot: at most one caller is between the exchange and the
\* store, the state says so, and what it has written matches what it will store
\* and what everybody was told.  The two invariants above rest on this one.
SlotIsOwned ==
    /\ \A c, d \in Callers : pc[c] \in Building /\ pc[d] \in Building => c = d
    /\ \A c \in Callers :
          /\ pc[c] \in Building => state = "NEGOTIATING"
          /\ pc[c] \in {"build", "store rejected"} => api = Unwritten
          /\ pc[c] = "store ready" => Offered(api)
          /\ got[c] = "table" => state = "READY"
          /\ got[c] = "null" => state = "REJECTED"
    /\ state \in {"UNINITIALIZED", "REJECTED"} => api = Unwritten
    /\ state = "READY" => Offered(api)

\* The table is written once, and never after somebody may be reading it.
WrittenOnce ==
    [][api' # api => api = Unwritten /\ state = "NEGOTIATING"]_vars

\* Concurrent first callers wait for the winner, and they stop waiting.
EveryCallReturns == \A c \in Callers : []<>(pc[c] = "idle")
=============================================================================
