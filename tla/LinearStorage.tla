---------------------------- MODULE LinearStorage ----------------------------
(* What a linear storage promises: the regions it has given out are disjoint   *)
(* and their bytes are zero when they are given out.  `dirty` is the set of     *)
(* bytes that are not zero.                                                     *)
EXTENDS Integers

CONSTANTS Granularity, Addresses, Sizes

VARIABLES live, dirty
vars == <<live, dirty>>

Span(r) == r.base .. r.base + r.size - 1
Disjoint(r, s) == Span(r) \intersect Span(s) = {}

Init == live = {} /\ dirty \subseteq Addresses

allocate(base, size) ==
    LET r == [base |-> base, size |-> size] IN
    /\ live' = live \union {r}
    /\ base % Granularity = 0
    /\ \A s \in live : Disjoint(r, s)
    /\ dirty' = dirty \ Span(r)

release(r) == live' = live \ {r} /\ UNCHANGED dirty

zero(from, to) ==
    /\ \E r \in live : from .. to \subseteq Span(r)
    /\ dirty' = dirty \ (from .. to)
    /\ UNCHANGED live

\* A client writes to what it owns.  What belongs to nobody may be written too:
\* a dynamic storage shares its memory with other allocators.
write(a) ==
    /\ dirty' = dirty \union {a}
    /\ UNCHANGED live

Next ==
    \/ \E base \in Addresses, size \in Sizes : allocate(base, size)
    \/ \E r \in live : release(r)
    \/ \E from, to \in Addresses : zero(from, to)
    \/ \E a \in Addresses : write(a)

Spec == Init /\ [][Next]_vars
=============================================================================
