------------------------------- MODULE Storage ------------------------------
(* The storages of the project on one instance each: a behaviour uses the     *)
(* arena, the ledger over a backing that may answer anything, the adapter     *)
(* over the growing memory of WebAssembly, or the pages or the native heap of *)
(* the bare-metal port.                                                       *)
EXTENDS Arena, Ledger

VARIABLES
    store,                                      \* the storage that is used
    table, owned_bytes, peak_bytes,             \* of the adapter
    entries, total, heap_cell, heap_dirty,      \* of the ledger under it
    free, pages, panicked,                      \* of the backing
    extents, access, content, ranges, lost,     \* of the bare-metal pages
    blocks, holdings, back                      \* of the bare-metal heap

\* Five entries and twelve bytes over seven pages with a free list of two: the
\* adapter's table, the budget, the memory and the list fill up in any order.
Heap == INSTANCE LinearHeap
    WITH MAX_REGIONS <- 5, CAPACITY <- 12, Top <- 27, Cells <- {6},
         Page <- 4, MaxFree <- 2, FirstPage <- 1, MaxPages <- 7, Entries <- 4,
         Requested <- {1, 2, 4, 5}, RequestedAlignments <- {0, 8},
         regions <- entries, owned <- total, ledger_cell <- heap_cell, ledger_dirty <- heap_dirty

\* Four pages with a free list of two entries, which coalesce, or three with one
\* entry, which refuses; a slice of twenty-six words, for three blocks of one to six.
Ample == INSTANCE BarePages WITH PAGES <- 4, MAX_EXTENTS <- 2, RANGES <- 2, RESERVED <- 2, MAPPED <- 1, owned <- ranges
Scarce == INSTANCE BarePages WITH PAGES <- 3, MAX_EXTENTS <- 1, RANGES <- 2, RESERVED <- 2, MAPPED <- 1, owned <- ranges
Native == INSTANCE BareHeap
    WITH NATIVE_HEAP <- 26, Sizes <- {1, 3, 6}, Alignments <- {2, 4}, BLOCKS <- 3, heap <- blocks, live <- holdings

bare_pages == <<extents, access, content, ranges, lost>>
bare_heap == <<blocks, holdings, back>>
bare == <<bare_pages, bare_heap>>
heap == <<table, owned_bytes, peak_bytes, entries, total, heap_cell, heap_dirty, free, pages, panicked>>
storage == <<store, vars, ledger, heap, bare>>

StorageInit ==
    /\ store \in {"arena", "ledger", "heap", "one extent", "two extents", "native heap"}
    /\ Init
    /\ (IF store = "two extents" THEN Ample!Init ELSE Scarce!Init) /\ Native!Init
    /\ LedgerInit /\ Heap!Init
    /\ store # "arena" => cell = Base
    /\ store # "ledger" => ledger_cell = 2 /\ ~ledger_dirty
    /\ store # "heap" => ~heap_dirty

StorageNext ==
    /\ UNCHANGED store
    /\ \/ store = "arena" /\ Next /\ UNCHANGED <<ledger, heap, bare>>
       \/ store = "ledger" /\ LedgerNext /\ UNCHANGED <<vars, heap, bare>>
       \/ store = "heap" /\ Heap!Next /\ UNCHANGED <<vars, ledger, bare>>
       \/ store = "one extent" /\ Scarce!Next /\ UNCHANGED <<vars, ledger, heap, bare_heap>>
       \/ store = "two extents" /\ Ample!Next /\ UNCHANGED <<vars, ledger, heap, bare_heap>>
       \/ store = "native heap" /\ Native!Next /\ UNCHANGED <<vars, ledger, heap, bare_pages>>

StorageSpec == StorageInit /\ [][StorageNext]_storage

-----------------------------------------------------------------------------
\* No byte that was grown is lost or owned twice, no assert on the free list
\* fires, and the adapter and the ledger agree about every region (LinearHeap).
MemoryIsConserved == store = "heap" => Heap!MemoryIsConserved /\ Heap!TablesAgree

\* Every page of the bare-metal region is free, out or lost, the free list stays
\* coalesced, and nobody can reach a free page (BarePages); a block of the
\* bare-metal heap is its holder's alone (BareHeap).
BareMemoryIsOwned ==
    /\ store = "one extent" => Scarce!PagesTile
    /\ store = "two extents" => Ample!PagesTile
    /\ store = "native heap" => Native!BlocksAreOwned

\* A committed page reads as zero or as its owner left it (BarePages).
ContentsAreExact == Ample!ContentsAreExact
=============================================================================
