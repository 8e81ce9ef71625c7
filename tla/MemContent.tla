------------------------------ MODULE MemContent ------------------------------
(* A file of dotnet-pal-memfs byte by byte: a Vec until it is mapped shared,    *)
(* pinned pages from then on, and the mappings, which are pointers into them.   *)
(* A call is a step; the allocator may fail.  The name and the handle of the    *)
(* file are there or not: MemFs has the tree.                                   *)
EXTENDS Integers, Sequences, FiniteSets, SequencesExt, FiniteSetsExt, Functions

CONSTANTS
    PAGE,
    Capacity,      \* what set_capacity was given
    MaxSize,       \* bound: the sizes and ends that calls are given
    Lengths,       \* the lengths of the mappings asked for
    MaxHeld,       \* bound: mappings at a time
    Blocks         \* the addresses of pages

VARIABLES
    content,       \* pinned, base and size; bytes: the Vec, or all of the pages
    heap,          \* the blocks of pages that are allocated
    mappings,      \* by address and length: the count of a shared one, 0 for a private one
    maps, opens, links,   \* the counts of the node
    file, held     \* history: the file as the contract has it, and the mappings the consumer has

content_vars == <<content, heap, mappings, maps, opens, links, file, held>>

NoBlock == "none"
Plain(bytes) == [pinned |-> FALSE, base |-> NoBlock, size |-> Len(bytes), bytes |-> bytes]
Pinned(base, size, bytes) == [pinned |-> TRUE, base |-> base, size |-> size, bytes |-> bytes]
Zeros(n) == [i \in 1 .. n |-> 0]
Sized(bytes, size) == IF size <= Len(bytes) THEN SubSeq(bytes, 1, size) ELSE bytes \o Zeros(size - Len(bytes))
\* The bytes offset .. offset + size - 1, counted from 0, become `value`.
Put(bytes, offset, size, value) ==
    [i \in 1 .. Len(bytes) |-> IF offset < i /\ i <= offset + size THEN value ELSE bytes[i]]
next_multiple_of(n) == ((n + PAGE - 1) \div PAGE) * PAGE

ContentInit ==
    /\ content = Plain(<<>>) /\ heap = {} /\ mappings = <<>>
    /\ maps = 0 /\ opens = 1 /\ links = 1
    /\ file = <<>> /\ held = <<>>

Lives == links + opens + maps > 0
Pages(c) == Len(c.bytes)

\* Mutant: the bytes that enter the file are what is in the pages.
set_size_Keeps(c, size) == [c EXCEPT !.size = size]
\* Pinned::set_size: the bytes between the old and the new end are zeroed.
set_size(c, size) ==
    [c EXCEPT !.size = size,
              !.bytes = Put(@, Min({c.size, size}), Max({c.size, size}) - Min({c.size, size}), 0)]

\* Content::read, from `start` on and `room` bytes at most.
read(c, start, room) == SubSeq(c.bytes, start + 1, start + Max({Min({c.size - start, room}), 0}))

\* Content::pin, into new pages at `base` unless it is in pages already.
pin(c, base, capacity) == IF c.pinned THEN c ELSE Pinned(base, c.size, Sized(c.bytes, capacity))
unpin(c, wanted) == Plain(SubSeq(c.bytes, 1, Min({c.size, wanted})))

\* Content::prepare: what pinned bytes may be before they become `wanted` bytes; {}
\* is a refusal.  Without memory they stay in pages that still fit.
prepare(c, wanted) ==
    LET outgrown == wanted > Pages(c)
        wasteful == wanted <= Pages(c) \div 2
    IN  IF ~c.pinned THEN {c}
        ELSE IF maps # 0 THEN (IF outgrown THEN {} ELSE {c})
        ELSE IF outgrown THEN {unpin(c, wanted)}
        ELSE IF wasteful THEN {c, unpin(c, wanted)}
        ELSE {c}

resized(c, size) == IF c.pinned THEN set_size(c, size) ELSE Plain(Sized(c.bytes, size))
\* Content::write of bytes of one value; a write past the end leaves zeros before it.
written(c, offset, size, value) ==
    LET large == IF offset + size > c.size THEN resized(c, offset + size) ELSE c
    IN  [large EXCEPT !.bytes = Put(@, offset, size, value)]

\* The pages of the content are given back when it moves out of them or is dropped.
Becomes(next) ==
    /\ content' = next
    /\ heap' = IF content.pinned /\ ~next.pinned THEN heap \ {content.base} ELSE heap

\* State::change: a call that does not fit, or finds no memory, changes nothing.
resize(size) ==
    /\ opens > 0
    /\ size - content.size <= Max({Capacity - content.size, 0})
    /\ \E ready \in prepare(content, size) : Becomes(resized(ready, size))
    /\ file' = Sized(file, size)
    /\ UNCHANGED <<mappings, maps, opens, links, held>>

write(offset, size, value) ==
    LET end == Max({content.size, offset + size}) IN
    /\ opens > 0
    /\ end - content.size <= Max({Capacity - content.size, 0})
    /\ \E ready \in prepare(content, end) : Becomes(written(ready, offset, size, value))
    /\ file' = Put(Sized(file, end), offset, size, value)
    /\ UNCHANGED <<mappings, maps, opens, links, held>>

-----------------------------------------------------------------------------
\* A mapping is known by where it begins and how long it is.
Count(f, key) == IF key \in DOMAIN f THEN f[key] ELSE 0
With(f, key, n) == [k \in DOMAIN f \union {key} |-> IF k = key THEN n ELSE f[k]]
Without(f, key) == Restrict(f, DOMAIN f \ {key})
Holding == FoldFunction(LAMBDA n, sum : n + sum, 0, held)
Takes(key) == Holding < MaxHeld /\ held' = With(held, key, Count(held, key) + 1)
Fits(start, length) == length # 0 /\ start + length <= next_multiple_of(content.size)

\* map, shared: the first one pins the file as it is.
map_shared(start, length) ==
    /\ opens > 0 /\ Fits(start, length)
    /\ \E base \in IF content.pinned THEN {content.base} ELSE Blocks \ heap :
          LET key == <<base, start, length>> IN
          /\ content' = pin(content, base, next_multiple_of(content.size))
          /\ heap' = heap \union {base}
          /\ mappings' = With(mappings, key, Count(mappings, key) + 1)
          /\ Takes(key)
    /\ maps' = maps + 1
    /\ UNCHANGED <<opens, links, file>>

\* map, private: a copy in pages of its own.
map_private(start, length) ==
    /\ opens > 0 /\ Fits(start, length)
    /\ \E base \in Blocks \ heap :
          /\ heap' = heap \union {base}
          /\ mappings' = With(mappings, <<base, 0, length>>, 0)
          /\ Takes(<<base, 0, length>>)
    /\ UNCHANGED <<content, maps, opens, links, file>>

\* State::reap, of a file that has now these counts.
Settles(c, m, o, l) ==
    /\ maps' = m /\ opens' = o /\ links' = l
    /\ content' = IF m + o + l = 0 THEN Plain(<<>>) ELSE c

unmap(key) ==
    LET shared == mappings[key] > 0
        gone == maps + opens + links = 1 /\ content.pinned
    IN  /\ key \in DOMAIN mappings
        /\ mappings' = IF mappings[key] > 1 THEN With(mappings, key, mappings[key] - 1) ELSE Without(mappings, key)
        /\ Settles(content, maps - (IF shared THEN 1 ELSE 0), opens, links)
        /\ heap' = IF ~shared \/ gone THEN heap \ {key[1]} ELSE heap
        /\ held' = IF Count(held, key) > 1 THEN With(held, key, held[key] - 1) ELSE Without(held, key)
        /\ UNCHANGED file

\* The handle is closed, the name removed.
Drops(o, l) ==
    /\ Settles(content, maps, o, l)
    /\ heap' = IF o + l + maps = 0 /\ content.pinned THEN heap \ {content.base} ELSE heap
    /\ UNCHANGED <<mappings, file, held>>
close == opens > 0 /\ Drops(opens - 1, links)
remove == links > 0 /\ Drops(opens, links - 1)

\* The consumer writes through a shared mapping: to the file, or behind its end.
store(key, i, value) ==
    /\ key \in DOMAIN held /\ key[1] = content.base
    /\ i < key[3]
    /\ content' = [content EXCEPT !.bytes = Put(@, key[2] + i, 1, value)]
    /\ file' = Put(file, key[2] + i, 1, value)
    /\ UNCHANGED <<heap, mappings, maps, opens, links, held>>

\* With neither name, handle nor mapping the node is gone, and a file is made anew.
create == ~Lives /\ links' = 1 /\ opens' = 1 /\ file' = <<>> /\ UNCHANGED <<content, heap, mappings, maps, held>>
\* A name is a file that may be opened again.
open == links > 0 /\ opens = 0 /\ opens' = 1 /\ UNCHANGED <<content, heap, mappings, maps, links, file, held>>

ContentNext ==
    \/ \E size \in 0 .. MaxSize : resize(size)
    \/ \E offset \in 0 .. MaxSize - 1 : \E size \in 1 .. MaxSize - offset : write(offset, size, 1)
    \/ \E page \in 0 .. MaxSize \div PAGE, length \in Lengths :
          map_shared(page * PAGE, length) \/ map_private(page * PAGE, length)
    \/ \E key \in DOMAIN mappings : unmap(key) \/ \E i \in 0 .. Max(Lengths) - 1 : store(key, i, 1)
    \/ close \/ remove \/ create \/ open

-----------------------------------------------------------------------------
\* The file is what its writers made it: what is read is what was written by calls
\* and through mappings, and zeros where nobody wrote, whatever the consumer left
\* behind the end in a page it has mapped (`set_size`), and wherever the bytes are.
\* A mapping the consumer has is inside the pages of the file, which stay where they
\* are until the last is unmapped (`prepare`, `pin`), and every block of pages is the
\* file's or a private mapping's: none is freed early, twice or never (`unmap`).
FileIsItsBytes ==
    /\ Lives => content.size = Len(file) /\ read(content, 0, MaxSize) = file
    /\ \A key \in DOMAIN held :
          /\ key \in DOMAIN mappings /\ key[1] \in heap
          /\ mappings[key] > 0 => /\ content.pinned /\ key[1] = content.base
                                  /\ key[2] + key[3] <= Pages(content)
                                  /\ mappings[key] = held[key]
    /\ heap = (IF content.pinned THEN {content.base} ELSE {})
              \union {key[1] : key \in {k \in DOMAIN mappings : mappings[k] = 0}}
    /\ maps = FoldFunction(LAMBDA n, sum : n + sum, 0, mappings)
    /\ DOMAIN mappings = DOMAIN held
=============================================================================
