----------------------------- MODULE BarePages -------------------------------
(***************************************************************************)
(* The memory of examples/baremetal-aarch64: the free list of the region   *)
(* (memory.rs), the page descriptors that grant and revoke access to it    *)
(* (memory/pages.rs), and the virtual memory, the native mappings, the     *)
(* stacks and the TLS blocks that are made of it.  One core, no yield: a    *)
(* call is a step.  The address of a page is its number.                   *)
(***************************************************************************)
EXTENDS Integers, Sequences, FiniteSets, FiniteSetsExt

CONSTANTS
    PAGES,         \* pages of the region
    MAX_EXTENTS,   \* entries of the free list
    RANGES,        \* limit on the ranges that are out at a time
    RESERVED, MAPPED    \* most pages of a reservation and of a mapping

Region == 0..PAGES - 1
IMAGE == PAGES     \* the page of the image's read-only data
Protections == {{}, {"READ"}, {"READ", "WRITE"}, {"WRITE"}}
RW == {"READ", "WRITE"}

VARIABLES
    extents,    \* the free list: <<start, end>> by address
    access,     \* per page: what its descriptor grants
    content,    \* per page: "zero", "data" of its owner, or "stale" data
    owned,      \* the ranges that are out: [kind, start, size]
    lost        \* pages nobody can give back

vars == <<extents, access, content, owned, lost>>

Span(start, size) == start..start + size - 1
Pages(r) == Span(r.start, r.size)

\* All of the RAM behind the image is free, and no free page is accessible.
Init ==
    /\ extents = <<<<0, PAGES>>>>
    /\ access = [p \in Region \union {IMAGE} |-> IF p = IMAGE THEN {"READ"} ELSE {}]
    /\ content = [p \in Region |-> "stale"]
    /\ owned = {} /\ lost = {}

-----------------------------------------------------------------------------
round_up(n, alignment) == ((n + alignment - 1) \div alignment) * alignment
\* What is left of an extent when the pages from s up to e are cut out of it.
cut(extent, s, e) ==
    (IF s = extent[1] THEN <<>> ELSE <<<<extent[1], s>>>>) \o (IF e = extent[2] THEN <<>> ELSE <<<<e, extent[2]>>>>)
\* First fit; a cut in the middle needs a free entry of the list.
fits(i, size, alignment) ==
    LET s == round_up(extents[i][1], alignment)
    IN s + size <= extents[i][2] /\ (Len(cut(extents[i], s, s + size)) = 2 => Len(extents) < MAX_EXTENTS)
Fitting(size, alignment) == {i \in 1..Len(extents) : fits(i, size, alignment)}
\* `take` of a range of a kind, which then has the access and is zeroed or not.
take(kind, size, alignment, protection, zeroed) ==
    /\ Fitting(size, alignment) # {} /\ Cardinality(owned) < RANGES
    /\ LET i == Min(Fitting(size, alignment))
           s == round_up(extents[i][1], alignment)
       IN /\ extents' = SubSeq(extents, 1, i - 1) \o cut(extents[i], s, s + size) \o SubSeq(extents, i + 1, Len(extents))
          /\ owned' = owned \union {[kind |-> kind, start |-> s, size |-> size]}
          /\ access' = [p \in DOMAIN access |-> IF p \in Span(s, size) THEN protection ELSE access[p]]
          /\ content' = [p \in Region |-> IF zeroed /\ p \in Span(s, size) THEN "zero" ELSE content[p]]
    /\ UNCHANGED lost

\* A return that overlaps a free range, or needs an entry too many, is refused.
can_give(start, end) ==
    /\ \A i \in 1..Len(extents) : extents[i][2] <= start \/ end <= extents[i][1]
    /\ Len(extents) < MAX_EXTENTS \/ \E i \in 1..Len(extents) : extents[i][2] = start \/ extents[i][1] = end
coalesced(start, end) ==
    LET touching == {i \in 1..Len(extents) : extents[i][2] = start \/ extents[i][1] = end}
        low == Min({start} \union {extents[i][1] : i \in touching})
        high == Max({end} \union {extents[i][2] : i \in touching})
    IN SelectSeq(extents, LAMBDA e : e[2] < low) \o <<<<low, high>>>> \o SelectSeq(extents, LAMBDA e : e[1] > high)
stale(pages) == content' = [p \in Region |-> IF p \in pages THEN "stale" ELSE content[p]]
\* Mutant: a released range keeps its access.
revoked_Not(r) == access
\* The access goes before the range is free.
revoked(r) == [p \in DOMAIN access |-> IF p \in Pages(r) THEN {} ELSE access[p]]
give(r) ==
    /\ can_give(r.start, r.start + r.size)
    /\ access' = revoked(r)
    /\ extents' = coalesced(r.start, r.start + r.size)
    /\ stale(Pages(r))

Ranges(kind) == {r \in owned : r.kind = kind}
Parts(r) == {<<first, end>> \in Pages(r) \X (r.start + 1..r.start + r.size) : first < end}
changed(first, end, protection) == access' = [p \in DOMAIN access |-> IF p \in first..end - 1 THEN protection ELSE access[p]]

-----------------------------------------------------------------------------
reserve == \E size \in 1..RESERVED, alignment \in 1..2 : take("vm", size, alignment, {}, FALSE)
\* Mutant: every page of the range is zeroed.
fresh_All(first, end) == first..end - 1
\* Only what was inaccessible is granted and zeroed.
fresh(first, end) == {p \in first..end - 1 : access[p] = {}}
commit ==
    \E r \in Ranges("vm") : \E part \in Parts(r) :
        LET new == fresh(part[1], part[2])
        IN /\ access' = [p \in DOMAIN access |-> IF p \in new THEN RW ELSE access[p]]
           /\ content' = [p \in Region |-> IF p \in new THEN "zero" ELSE content[p]]
           /\ UNCHANGED <<extents, owned, lost>>
decommit ==
    \E r \in Ranges("vm") : \E part \in Parts(r) :
        /\ changed(part[1], part[2], {})
        /\ stale(part[1]..part[2] - 1)
        /\ UNCHANGED <<extents, owned, lost>>
\* A refused release leaves the range with its owner.
release ==
    \E r \in Ranges("vm") \union Ranges("mapping") : give(r) /\ owned' = owned \ {r} /\ UNCHANGED lost

flags(protection) == protection = {} \/ "READ" \in protection
allocate == \E size \in 1..MAPPED, protection \in Protections : flags(protection) /\ take("mapping", size, 1, protection, TRUE)
protect ==
    \E r \in Ranges("mapping"), protection \in Protections : \E part \in Parts(r) :
        /\ flags(protection) /\ changed(part[1], part[2], protection)
        /\ UNCHANGED <<extents, content, owned, lost>>
\* The image's data page is made writable and read-only again, and nothing else.
image_flags(protection) == protection \in {{"READ"}, RW}
protect_image ==
    \E protection \in Protections :
        /\ image_flags(protection) /\ changed(IMAGE, IMAGE + 1, protection)
        /\ UNCHANGED <<extents, content, owned, lost>>

\* A stack is taken as it is; a TLS block is zeroed and its image copied in.
thread_memory == \E tls \in BOOLEAN : take("thread", 1, 1, RW, tls)
\* Nobody looks at the result when a thread's memory is given back.
reclaim ==
    \E r \in Ranges("thread") :
        /\ owned' = owned \ {r}
        /\ \/ give(r) /\ UNCHANGED lost
           \/ /\ ~can_give(r.start, r.start + r.size) /\ lost' = lost \union Pages(r)
              /\ UNCHANGED <<extents, access, content>>

\* The owner writes what it may write.
Write ==
    \E r \in owned : \E p \in Pages(r) :
        /\ "WRITE" \in access[p]
        /\ content' = [content EXCEPT ![p] = "data"]
        /\ UNCHANGED <<extents, access, owned, lost>>

Next ==
    \/ reserve \/ commit \/ decommit \/ release \/ allocate \/ protect \/ protect_image
    \/ thread_memory \/ reclaim \/ Write
Spec == Init /\ [][Next]_vars

-----------------------------------------------------------------------------
TypeOK ==
    /\ access \in [Region \union {IMAGE} -> SUBSET RW] /\ content \in [Region -> {"zero", "data", "stale"}]
    /\ Len(extents) <= MAX_EXTENTS /\ lost \subseteq Region

Free(i) == extents[i][1]..extents[i][2] - 1
\* Every page is in one free extent, in one range that is out, or lost; the free
\* list stays sorted and coalesced, so that no run of free pages is too short for
\* what would fit; and nobody can reach a free page (`take`, `give`, `can_give`).
PagesTile ==
    /\ \A i \in 1..Len(extents) : extents[i][1] < extents[i][2] /\ (i > 1 => extents[i - 1][2] < extents[i][1])
    /\ \A p \in Region :
         Cardinality({i \in 1..Len(extents) : p \in Free(i)}) + Cardinality({r \in owned : p \in Pages(r)})
             + (IF p \in lost THEN 1 ELSE 0) = 1
    /\ \A i \in 1..Len(extents) : \A p \in Free(i) : access[p] = {}
    /\ access[IMAGE] # {}

\* A page reads as zero when it is committed after it was not, and as its owner
\* left it when it is committed again or its protection changes (`commit`,
\* `protect`, `allocate`).
ContentsAreExact ==
    [][\A r \in owned' : r.kind # "thread" => \A p \in Pages(r) :
         /\ access'[p] # {} => content'[p] # "stale"
         /\ (r \in owned /\ content[p] = "data" /\ (r.kind = "mapping" \/ access[p] # {})) => content'[p] # "zero"]_vars
=============================================================================
