-------------------------------- MODULE Arena --------------------------------
(* The static arena of the storage crate behind the linear group of the table. *)
(* A slot of the block map is 0 (free), a count (the first block of a region)  *)
(* or TAIL.  The map is only touched with the spin lock held; the two loops    *)
(* over it are steps of the thread that holds it.                              *)
EXTENDS Geometry

CONSTANTS
    Granularity,
    Blocks,        \* BLOCKS: CAPACITY / GRANULARITY
    Base,          \* the address of the arena
    Alignments     \* the alignments that are asked for

ASSUME ArenaAssumption ==
    /\ Granularity \in Nat \ {0}
    /\ Blocks \in Nat \ {0}
    /\ Base \in Nat \ {0} /\ Base % Granularity = 0
    /\ Alignments \subseteq Nat
    /\ Blocks < UsizeMax

Capacity == Blocks * Granularity
TAIL == UsizeMax
Slots == 0 .. Blocks - 1
Bytes == Base .. Base + Capacity - 1

VARIABLES
    slots,
    call,    \* the operation whose thread holds the lock, and its locals
    cell,    \* one byte of the arena, any of them
    dirty    \* that byte is not zero

vars == <<slots, call, cell, dirty>>

Idle == [op |-> "idle"]

Init ==
    /\ slots = [i \in Slots |-> 0]
    /\ call = Idle
    /\ cell \in Bytes
    /\ dirty = FALSE

\* The spin lock.  What a call does before it has the lock touches nothing that
\* is shared, so its checks are part of this step.
acquire(locals) ==
    /\ call = Idle
    /\ call' = locals
    /\ UNCHANGED <<slots, cell, dirty>>

\* The checks that come before the lock.  A call that fails one changes nothing.
allocate(size, alignment) ==
    LET g == geometry(size, alignment, Granularity)
        count == g.size \div Granularity
    IN  /\ count \in 1 .. Blocks
        /\ acquire([op |-> "allocate", first |-> 0,
                       count |-> count, alignment |-> g.alignment])

release(address, size) ==
    LET offset == address - Base
        rounded == round_size(size, Granularity)
    IN  /\ rounded # 0
        /\ offset \in 0 .. Capacity - 1
        /\ offset % Granularity = 0
        /\ acquire([op |-> "release", first |-> offset \div Granularity,
                       count |-> rounded \div Granularity])

zero(address, size) ==
    LET offset == address - Base IN
    /\ size # 0 /\ address + size <= UsizeMax
    /\ offset >= 0 /\ offset + size <= Capacity
    /\ acquire([op |-> "zero", first |-> offset \div Granularity,
                   from |-> address, to |-> address + size])

\* The guard is dropped as the call returns.
Return == call' = Idle
Move(first) == call' = [call EXCEPT !.first = first]

Run(first, count) == first .. first + count - 1
Aligned(first, alignment) == (Base + first * Granularity) % alignment = 0
Fits(first, count, alignment) ==
    /\ first + count <= Blocks
    /\ Aligned(first, alignment)
    /\ \A i \in Run(first, count) : slots[i] = 0

\* Mutant: the next candidate is one past the wanted size, not past the block in
\* the way.
scan_Skips ==
    LET first == call.first
        count == call.count
    IN  /\ call.op = "allocate"
        /\ first <= Blocks - count
        /\ \/ ~Aligned(first, call.alignment) /\ Move(first + 1)
           \/ /\ Aligned(first, call.alignment)
              /\ \E i \in Run(first, count) : slots[i] # 0
              /\ Move(first + count)
        /\ UNCHANGED <<slots, cell, dirty>>

\* A candidate that is misaligned, or has an occupied block in it.
scan ==
    LET first == call.first
        count == call.count
    IN  /\ call.op = "allocate"
        /\ first <= Blocks - count
        /\ \/ ~Aligned(first, call.alignment) /\ Move(first + 1)
           \/ /\ Aligned(first, call.alignment)
              /\ \E i \in Run(first, count) :
                    /\ slots[i] # 0
                    /\ \A j \in first .. i - 1 : slots[j] = 0
                    /\ Move(i + 1)
        /\ UNCHANGED <<slots, cell, dirty>>

ByteRun(first, count) ==
    Base + first * Granularity .. Base + (first + count) * Granularity - 1

\* Mutant: the rest of the region is not marked.
take_HeadOnly ==
    LET first == call.first
        count == call.count
    IN  /\ call.op = "allocate"
        /\ Fits(first, count, call.alignment)
        /\ slots' = [slots EXCEPT ![first] = count]
        /\ dirty' = (dirty /\ cell \notin ByteRun(first, count))
        /\ Return
        /\ UNCHANGED cell

take ==
    LET first == call.first
        count == call.count
    IN  /\ call.op = "allocate"
        /\ Fits(first, count, call.alignment)
        /\ slots' = [i \in Slots |->
                        IF i = first THEN count
                        ELSE IF i \in Run(first, count) THEN TAIL ELSE slots[i]]
        /\ dirty' = (dirty /\ cell \notin ByteRun(first, count))
        /\ Return
        /\ UNCHANGED cell

out_of_memory ==
    /\ call.op = "allocate"
    /\ call.first > Blocks - call.count
    /\ Return
    /\ UNCHANGED <<slots, cell, dirty>>

give_back ==
    LET first == call.first
        count == slots[first]
    IN  /\ call.op = "release"
        /\ slots' = IF count \in {0, TAIL} \/ count # call.count THEN slots
                    ELSE [i \in Slots |-> IF i \in Run(first, count) THEN 0 ELSE slots[i]]
        /\ Return
        /\ UNCHANGED <<cell, dirty>>

\* Back to the first block of the region; the code has an early return for a map
\* that starts with a TAIL.
walk ==
    LET first == call.first IN
    /\ call.op = "zero"
    /\ slots[first] = TAIL
    /\ IF first = 0 THEN Return ELSE Move(first - 1)
    /\ UNCHANGED <<slots, cell, dirty>>

\* Mutant: the end is not compared with the end of the region.
fill_AnyEnd ==
    /\ call.op = "zero"
    /\ slots[call.first] # TAIL
    /\ dirty' = (dirty /\ ~(/\ slots[call.first] # 0
                            /\ cell \in call.from .. call.to - 1))
    /\ Return
    /\ UNCHANGED <<slots, cell>>

fill ==
    LET first == call.first
        count == slots[first]
        inside == count # 0 /\ call.to - Base <= (first + count) * Granularity
    IN  /\ call.op = "zero"
        /\ count # TAIL
        /\ dirty' = (dirty /\ ~(inside /\ cell \in call.from .. call.to - 1))
        /\ Return
        /\ UNCHANGED <<slots, cell>>

IsHead(i) == slots[i] \notin {0, TAIL}
Region(i) == [base |-> Base + i * Granularity, size |-> slots[i] * Granularity]
Live == {Region(i) : i \in {j \in Slots : IsHead(j)}}

\* A client writes to a region it was given.
write ==
    /\ \E i \in Slots : IsHead(i) /\ cell \in ByteRun(i, slots[i])
    /\ dirty' = TRUE
    /\ UNCHANGED <<slots, call, cell>>

\* The sizes and addresses that are asked for: one more than there is, and sizes
\* that cannot be rounded up.
Requests == 0 .. Capacity + 1 \union {UsizeMax - 1, UsizeMax}
Addresses == Base - 1 .. Base + Capacity

Step ==
    \/ scan \/ take \/ out_of_memory
    \/ give_back
    \/ walk \/ fill

Next ==
    \/ \E size \in Requests, alignment \in Alignments : allocate(size, alignment)
    \/ \E address \in Addresses, size \in Requests :
            release(address, size) \/ zero(address, size)
    \/ Step
    \/ write

Spec == Init /\ [][Next]_vars

-----------------------------------------------------------------------------
Calls ==
    {Idle}
    \union [op : {"allocate"}, first : 0 .. Blocks, count : 1 .. Blocks,
            alignment : Nat \ {0}]
    \union [op : {"release"}, first : Slots, count : Nat]
    \union [op : {"zero"}, first : Slots, from : Bytes, to : Nat]

\* Every field keeps its type; in particular no index leaves the block map.
TypeOK ==
    /\ slots \in [Slots -> 0 .. Blocks \union {TAIL}]
    /\ call \in Calls
    /\ cell \in Bytes
    /\ dirty \in BOOLEAN

\* The block map is made of free blocks and whole regions: after a count come
\* exactly that many blocks less one of TAIL, and every TAIL belongs to a region.
\* allocate, release and zero all read the map as if this were so.
SlotsTile ==
    /\ \A i \in Slots : IsHead(i) =>
          /\ i + slots[i] <= Blocks
          /\ \A j \in i + 1 .. i + slots[i] - 1 : slots[j] = TAIL
    /\ \A j \in Slots : slots[j] = TAIL =>
          \E i \in 0 .. j - 1 : IsHead(i) /\ j < i + slots[i]

\* The arena keeps the promises of port::LinearStorage: what it hands out overlaps
\* nothing that is still owned and is zero; release takes back one whole region;
\* zero clears bytes of one region only.
Abstract == INSTANCE LinearStorage
    WITH live <- Live, dirty <- IF dirty THEN {cell} ELSE {}, Addresses <- Bytes,
         Sizes <- {n * Granularity : n \in 1 .. Blocks}
ImplementsLinearStorage == Abstract!Spec

\* allocate jumps over an occupied block instead of trying every candidate, and
\* still answers OutOfMemory only when no aligned run of free blocks exists.
OutOfMemoryIsTrue ==
    [][out_of_memory =>
          ~ \E first \in Slots : Fits(first, call.count, call.alignment)]_vars

=============================================================================
