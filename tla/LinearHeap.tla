----------------------------- MODULE LinearHeap -----------------------------
(* The eager-storage profile of the GC from top to bottom: the adapter's table *)
(* (gc_linear_adapter.h) over the linear group of the table, the ledger and    *)
(* memory.grow.  The adapter's gate is held for a whole operation, which is    *)
(* one step.                                                                   *)
EXTENDS Geometry, FiniteSets, FiniteSetsExt, Sequences, SequencesExt

CONSTANTS
    GRANULARITY, MAX_REGIONS, CAPACITY, Top, Cells,   \* of the ledger
    Page, MaxFree, FirstPage, MaxPages,              \* of the backing
    Entries,                                         \* of the adapter's table
    Requested, RequestedAlignments                   \* what the GC asks for

VARIABLES
    table, owned_bytes, peak_bytes,                  \* of the adapter
    regions, owned, ledger_cell, ledger_dirty,
    free, pages, panicked

adapter == <<table, owned_bytes, peak_bytes>>
ledger == <<regions, owned, ledger_cell, ledger_dirty>>
backing == <<free, pages, panicked>>
vars == <<adapter, ledger, backing>>

Ledger == INSTANCE Ledger

-----------------------------------------------------------------------------
(* The wasm32 backing of the ledger: a bounded free list, sorted by address    *)
(* and coalesced, over memory that only grows.  It is entered under the        *)
(* ledger's lock.                                                              *)

\* Errors, told apart from addresses.
OutOfMemory == -1
Os == -2

End(b) == b.base + b.size
align_up(value, alignment) == ((value + alignment - 1) \div alignment) * alignment

Index(list, base) == Min({i \in 1 .. Len(list) : list[i].base > base} \union {Len(list) + 1})
MergesPrevious(list, base) ==
    LET i == Index(list, base) IN i > 1 /\ End(list[i - 1]) = base
MergesNext(list, base, size) ==
    LET i == Index(list, base) IN i <= Len(list) /\ list[i].base = base + size

\* insert returns true
Insertable(list, base, size) ==
    MergesPrevious(list, base) \/ MergesNext(list, base, size) \/ Len(list) < MaxFree

insert(list, base, size) ==
    LET i == Index(list, base)
        previous == MergesPrevious(list, base)
        next == MergesNext(list, base, size)
    IN  CASE previous /\ next ->
                RemoveAt([list EXCEPT ![i - 1].size = @ + size + list[i].size], i)
          [] previous /\ ~next -> [list EXCEPT ![i - 1].size = @ + size]
          [] ~previous /\ next -> [list EXCEPT ![i] = [base |-> base, size |-> size + @.size]]
          [] OTHER -> InsertAt(list, i, [base |-> base, size |-> size])

\* A block that holds the request, unless both of its ends would be left over and
\* the list has no room for them.
Usable(list, i, size, alignment) ==
    LET start == align_up(list[i].base, alignment) IN
    /\ start + size <= End(list[i])
    /\ \/ start = list[i].base
       \/ start + size = End(list[i])
       \/ Len(list) < MaxFree

Fit(list, size, alignment) ==
    {i \in 1 .. Len(list) : Usable(list, i, size, alignment)}

\* Mutant: what is left in front of the aligned address is dropped.
take_LosesLead(list, size, alignment) ==
    LET i == Min(Fit(list, size, alignment))
        start == align_up(list[i].base, alignment)
        trail == End(list[i]) - (start + size)
        rest == RemoveAt(list, i)
    IN  [start |-> start,
         list |-> IF trail = 0 THEN rest ELSE insert(rest, start + size, trail),
         asserts |-> TRUE]

\* First fit.  What is left over goes back to the list; `asserts`: both inserts
\* succeeded.
take(list, size, alignment) ==
    LET i == Min(Fit(list, size, alignment))
        block == list[i]
        start == align_up(block.base, alignment)
        lead == start - block.base
        trail == End(block) - (start + size)
        rest == RemoveAt(list, i)
        led == IF lead = 0 THEN rest ELSE insert(rest, block.base, lead)
    IN  [start |-> start,
         list |-> IF trail = 0 THEN led ELSE insert(led, start + size, trail),
         asserts |-> /\ lead = 0 \/ Insertable(rest, block.base, lead)
                     /\ trail = 0 \/ Insertable(led, start + size, trail)]

\* `out` is the address, or the error.
allocate_from(list, size, alignment, out) ==
    LET taken == take(list, size, alignment) IN
    /\ out = taken.start
    /\ free' = taken.list
    /\ panicked' = ~taken.asserts

\* Pages to ask for: the padding in front of the aligned address counts.
Needed(size, alignment) ==
    LET current == pages * Page
        needed == align_up(current, alignment) - current + size
    IN  (needed + Page - 1) \div Page

\* memory_grow may be refused at any time.
grow(size, alignment, out) ==
    LET n == Needed(size, alignment)
        grown == insert(free, pages * Page, n * Page)
    IN  \/ /\ out = OutOfMemory
           /\ UNCHANGED backing
        \/ /\ Len(free) < MaxFree
           /\ pages + n <= MaxPages
           /\ pages' = pages + n
           /\ \/ /\ Fit(grown, size, alignment) # {}
                 /\ allocate_from(grown, size, alignment, out)
              \/ /\ Fit(grown, size, alignment) = {}
                 /\ out = Os
                 /\ free' = grown
                 /\ UNCHANGED panicked

grow_allocate(size, alignment, out) ==
    \/ /\ Fit(free, size, alignment) # {}
       /\ allocate_from(free, size, alignment, out)
       /\ UNCHANGED pages
    \/ /\ Fit(free, size, alignment) = {}
       /\ grow(size, alignment, out)

\* A full list is the only failure.
grow_release(base, size, ok) ==
    /\ ok = Insertable(free, base, size)
    /\ free' = IF ok THEN insert(free, base, size) ELSE free
    /\ UNCHANGED <<pages, panicked>>

-----------------------------------------------------------------------------

Init ==
    /\ table = {} /\ owned_bytes = 0 /\ peak_bytes = 0
    /\ Ledger!LedgerInit
    /\ free = <<>> /\ pages = FirstPage /\ panicked = FALSE

\* The adapter rounds before the group does.
rounded(size) == ((size + GRANULARITY - 1) \div GRANULARITY) * GRANULARITY

\* The group rejects the request, the ledger refuses it, the backing fails, or
\* all three record it.
Allocated(n, alignment, out) ==
    LET g == geometry(n, alignment, GRANULARITY) IN
    /\ g.size # 0
    /\ ~Ledger!Refused(g.size)
    /\ grow_allocate(g.size, g.alignment, out)
    /\ Ledger!ledger_allocate(g.size, g.alignment, IF out >= 0 THEN out ELSE Ledger!Failed)

Results == 0 .. Top \union {OutOfMemory, Os}

\* Mutant: the entry is looked for after the storage was allocated.
reserve_NoEntryLast(size, alignment, out) ==
    LET n == rounded(size) IN
    /\ size # 0
    /\ Allocated(n, alignment, out)
    /\ IF regions' # regions /\ Cardinality(table) < Entries
       THEN /\ table' = table \union {[base |-> out, size |-> n]}
            /\ owned_bytes' = owned_bytes + n
            /\ peak_bytes' = Max({peak_bytes, owned_bytes'})
       ELSE UNCHANGED adapter

reserve(size, alignment, out) ==
    LET n == rounded(size) IN
    /\ size # 0
    /\ Cardinality(table) < Entries
    /\ Allocated(n, alignment, out)
    /\ IF regions' # regions
       THEN /\ table' = table \union {[base |-> out, size |-> n]}
            /\ owned_bytes' = owned_bytes + n
            /\ peak_bytes' = Max({peak_bytes, owned_bytes'})
       ELSE UNCHANGED adapter

\* find, after page_range
Found(address, n) ==
    {r \in table : /\ address # 0 /\ n # 0 /\ address % GRANULARITY = 0
                   /\ address >= r.base
                   /\ address - r.base < r.size
                   /\ n <= r.size - (address - r.base)}

\* decommit and reset
zero(address, size) ==
    /\ Found(address, rounded(size)) # {}
    /\ Ledger!ledger_zero(address, rounded(size))
    /\ UNCHANGED <<adapter, backing>>

release(address, size) ==
    LET n == rounded(size)
        r == [base |-> address, size |-> n]
    IN  /\ r \in Found(address, n)
        /\ \E ok \in BOOLEAN :
              /\ grow_release(address, n, ok)
              /\ Ledger!ledger_release(address, n, ok)
              /\ table' = IF ok THEN table \ {r} ELSE table
              /\ owned_bytes' = IF ok THEN owned_bytes - n ELSE owned_bytes
        /\ UNCHANGED peak_bytes

Next ==
    \/ \E size \in Requested, alignment \in RequestedAlignments, out \in Results :
            reserve(size, alignment, out)
    \/ \E address \in 0 .. Top, size \in Requested : zero(address, size) \/ release(address, size)
    \/ Ledger!ledger_write /\ UNCHANGED <<adapter, backing>>

Spec == Init /\ [][Next]_vars

-----------------------------------------------------------------------------
Extents == [base : 0 .. Top, size : 1 .. Top]

\* Every field keeps its type and every table its bound.
TypeOK ==
    /\ table \subseteq Extents /\ Cardinality(table) <= Entries
    /\ owned_bytes \in 0 .. CAPACITY /\ peak_bytes \in owned_bytes .. CAPACITY
    /\ Ledger!LedgerTypeOK
    /\ free \in Seq(Extents) /\ Len(free) <= MaxFree
    /\ pages \in FirstPage .. MaxPages
    /\ panicked \in BOOLEAN

Bytes(r) == r.base .. r.base + r.size - 1

\* Memory is neither lost nor owned twice: every byte that was grown is in one
\* block of the free list or in one region of the ledger.  The list stays sorted
\* and merged, which insert and take rely on, and the asserts on it ("Cannot
\* fail") hold, also when it is full.
MemoryIsConserved ==
    LET pieces == regions \union {free[i] : i \in 1 .. Len(free)} IN
    /\ UNION {Bytes(p) : p \in pieces} = FirstPage * Page .. pages * Page - 1
    /\ \A p, q \in pieces : p # q => Bytes(p) \intersect Bytes(q) = {}
    /\ \A i \in 1 .. Len(free) : free[i] \notin regions
    /\ \A i \in 1 .. Len(free) - 1 : End(free[i]) < free[i + 1].base
    /\ ~panicked

\* The adapter and the ledger agree about every region and every byte, after any
\* number of failures below.
TablesAgree ==
    /\ TypeOK
    /\ table = regions
    /\ owned_bytes = owned

=============================================================================
