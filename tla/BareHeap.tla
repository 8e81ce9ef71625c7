------------------------------ MODULE BareHeap -------------------------------
(***************************************************************************)
(* The native heap of examples/baremetal-aarch64 (memory.rs) and the Rust  *)
(* allocator over it: one slice of the region as an implicit list of       *)
(* blocks, first fit, free neighbours merged while the list is walked.     *)
(* Sizes and addresses are in words of eight bytes, from the start of the  *)
(* slice.                                                                  *)
(***************************************************************************)
EXTENDS Integers, Sequences, FiniteSets, FiniteSetsExt

CONSTANTS
    NATIVE_HEAP,    \* words of the slice
    Sizes,          \* sizes that are asked for
    Alignments,     \* alignments the Rust allocator is asked for
    BLOCKS          \* limit on the blocks that are out at a time

HEADER == 2
GRAIN == 2
WORD == 1

VARIABLES
    heap,    \* the blocks of the slice by address, or <<>> before the first call
    live,    \* what callers hold: [address, size, alignment, block]
    back     \* the words that name a block in front of an aligned address

vars == <<heap, live, back>>
Init == heap = <<>> /\ live = {} /\ back = [w \in {} |-> 0]

round_up(n) == ((n + GRAIN - 1) \div GRAIN) * GRAIN
\* The slice as one free block, if this is the first call.
heap_ready == IF heap = <<>> THEN <<[size |-> NATIVE_HEAP - HEADER, free |-> TRUE]>> ELSE heap

\* Where the payload of block i begins, and the block a payload belongs to.
Payload(h, i) == MapThenSumSet(LAMBDA j : HEADER + h[j].size, 1..i - 1) + HEADER
At(h, address) == CHOOSE i \in 1..Len(h) : Payload(h, i) = address

\* The free blocks that follow block i become part of it.
RECURSIVE merged(_, _)
merged(h, i) ==
    IF i < Len(h) /\ h[i + 1].free
    THEN merged(SubSeq(h, 1, i - 1) \o <<[h[i] EXCEPT !.size = @ + HEADER + h[i + 1].size]>> \o SubSeq(h, i + 2, Len(h)), i)
    ELSE h
\* Mutant: the rest of a block has no header.
rest_NoHeader(size, wanted) == size - wanted
\* A block that is large enough is handed out, its rest a block if it can be one.
rest(size, wanted) == size - wanted - HEADER
placed(h, i, wanted) ==
    IF h[i].size >= wanted + HEADER + GRAIN
    THEN SubSeq(h, 1, i - 1) \o <<[size |-> wanted, free |-> FALSE], [size |-> rest(h[i].size, wanted), free |-> TRUE]>> \o SubSeq(h, i + 1, Len(h))
    ELSE [h EXCEPT ![i].free = FALSE]
\* The walk from block i on: the blocks it leaves, and the payload or 0.
RECURSIVE walk(_, _, _)
walk(h, i, wanted) ==
    IF i > Len(h) THEN [blocks |-> h, payload |-> 0]
    ELSE LET m == IF h[i].free THEN merged(h, i) ELSE h
         IN IF m[i].free /\ m[i].size >= wanted THEN [blocks |-> placed(m, i, wanted), payload |-> Payload(m, i)]
            ELSE walk(m, i + 1, wanted)
allocate(h, size) == walk(h, 1, round_up(size))

released(h, address) == [h EXCEPT ![At(h, address)].free = TRUE]

\* The Rust allocator keeps the block's address in the word before an aligned one.
total(size, alignment) == IF alignment <= GRAIN THEN size ELSE size + alignment + WORD
aligned(block, alignment) ==
    IF alignment <= GRAIN THEN block ELSE ((block + WORD + alignment - 1) \div alignment) * alignment
Holding(block, size, alignment) == [address |-> aligned(block, alignment), size |-> size, alignment |-> alignment, block |-> block]
noted(block, alignment) ==
    IF alignment <= GRAIN THEN back
    ELSE [w \in DOMAIN back \union {aligned(block, alignment) - WORD} |-> IF w = aligned(block, alignment) - WORD THEN block ELSE back[w]]
\* Where `dealloc` finds the block again; the word is the block's from then on.
found(b) == IF b.alignment <= GRAIN THEN b.address ELSE back[b.address - WORD]

forgotten(words, b) == [w \in DOMAIN words \ {b.address - WORD} |-> words[w]]

alloc ==
    \E size \in Sizes, alignment \in Alignments :
        LET got == allocate(heap_ready, total(size, alignment))
        IN /\ Cardinality(live) < BLOCKS
           /\ heap' = got.blocks
           /\ IF got.payload = 0 THEN UNCHANGED <<live, back>>
              ELSE /\ live' = live \union {Holding(got.payload, size, alignment)}
                   /\ back' = noted(got.payload, alignment)
dealloc ==
    \E b \in live :
        /\ heap' = released(heap, found(b)) /\ live' = live \ {b} /\ back' = forgotten(back, b)

\* A resize in place, or into a new block before the old one is released.
realloc ==
    \E b \in live, size \in Sizes :
        \/ /\ b.alignment <= GRAIN /\ round_up(size) <= heap[At(heap, b.address)].size
           /\ live' = (live \ {b}) \union {[b EXCEPT !.size = size]} /\ UNCHANGED <<heap, back>>
        \/ /\ ~(b.alignment <= GRAIN /\ round_up(size) <= heap[At(heap, b.address)].size)
           /\ LET got == allocate(heap, total(size, b.alignment))
              IN IF got.payload = 0 THEN heap' = got.blocks /\ UNCHANGED <<live, back>>
                 ELSE /\ heap' = released(got.blocks, found(b))
                      /\ live' = (live \ {b}) \union {Holding(got.payload, size, b.alignment)}
                      /\ back' = forgotten(noted(got.payload, b.alignment), b)

Next == alloc \/ dealloc \/ realloc
Spec == Init /\ [][Next]_vars

-----------------------------------------------------------------------------
Extent(i) == Payload(heap, i)..Payload(heap, i) + heap[i].size - 1
Used(b) == (IF b.alignment <= GRAIN THEN b.address ELSE b.address - WORD)..b.address + b.size - 1

\* The blocks tile the slice, and whatever order the calls come in, what a caller
\* holds is aligned, inside a block of its own that is not free, and led back to
\* that block (`allocate`, `resize`, `release`, `alloc`, `dealloc`).
BlocksAreOwned ==
    heap # <<>> =>
        /\ MapThenSumSet(LAMBDA i : HEADER + heap[i].size, 1..Len(heap)) = NATIVE_HEAP
        /\ \A i \in 1..Len(heap) : heap[i].size % GRAIN = 0
        /\ Cardinality({i \in 1..Len(heap) : ~heap[i].free}) = Cardinality(live)
        /\ \A b \in live :
             /\ b.address % b.alignment = 0 /\ found(b) = b.block
             /\ \E i \in 1..Len(heap) : ~heap[i].free /\ b.block = Payload(heap, i) /\ Used(b) \subseteq Extent(i)
=============================================================================
