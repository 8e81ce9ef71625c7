------------------------------- MODULE Ledger -------------------------------
(* The ownership ledger of the storage crate over a backing that may fail and  *)
(* may be broken.  Each operation holds the ledger's lock, also while it calls *)
(* the backing, so it is one step.  `out` and `ok` are the backing's answers.  *)
EXTENDS Integers, FiniteSets

CONSTANTS
    GRANULARITY,
    MAX_REGIONS,
    CAPACITY,     \* the budget
    Top,          \* bound: the addresses are 0 .. Top
    Cells         \* the bytes whose contents are followed, one per behaviour

ASSUME LedgerAssumption ==
    /\ GRANULARITY \in Nat \ {0}
    /\ MAX_REGIONS \in Nat /\ CAPACITY \in Nat
    /\ Top \in Nat /\ Cells \subseteq 0 .. Top

VARIABLES
    regions,      \* the entries in use
    owned,
    ledger_cell, ledger_dirty   \* one byte, and whether it is not zero

ledger == <<regions, owned, ledger_cell, ledger_dirty>>

Failed == -1   \* the backing's error
Span(base, size) == base .. base + size - 1
Entry(base, size) == [base |-> base, size |-> size]

LedgerInit ==
    /\ regions = {}
    /\ owned = 0
    /\ ledger_cell \in Cells
    /\ ledger_dirty \in BOOLEAN

\* The backing is not asked: no budget, or no entry.
Refused(size) ==
    \/ size = 0
    \/ size > CAPACITY - owned
    \/ Cardinality(regions) = MAX_REGIONS

\* Mutant: only an identical region is recognised.
Overlaps_SameBase(base, size) == \E r \in regions : r.base = base

Overlaps(base, size) ==
    \E r \in regions : base < r.base + r.size /\ r.base < base + size

\* What the backing should not have returned: an address range that wraps, null,
\* misaligned storage or somebody else's.
Unusable(base, size, alignment) ==
    \/ base + size > Top + 1
    \/ base = 0
    \/ base % alignment # 0
    \/ Overlaps(base, size)

\* Unusable storage is neither used nor freed.
ledger_allocate(size, alignment, out) ==
    /\ ~Refused(size)
    /\ IF out = Failed \/ Unusable(out, size, alignment)
       THEN UNCHANGED ledger
       ELSE /\ regions' = regions \union {Entry(out, size)}
            /\ owned' = owned + size
            /\ ledger_dirty' = (ledger_dirty /\ ledger_cell \notin Span(out, size))
            /\ UNCHANGED ledger_cell

\* Mutant: the budget is given back before the backing has agreed.
ledger_release_Early(base, size, ok) ==
    /\ Entry(base, size) \in regions
    /\ regions' = IF ok THEN regions \ {Entry(base, size)} ELSE regions
    /\ owned' = owned - size
    /\ UNCHANGED <<ledger_cell, ledger_dirty>>

ledger_release(base, size, ok) ==
    /\ Entry(base, size) \in regions
    /\ IF ok
       THEN regions' = regions \ {Entry(base, size)} /\ owned' = owned - size
       ELSE UNCHANGED <<regions, owned>>
    /\ UNCHANGED <<ledger_cell, ledger_dirty>>

ledger_zero(base, size) ==
    /\ base # 0 /\ size # 0
    /\ \E r \in regions : base >= r.base /\ base + size <= r.base + r.size
    /\ ledger_dirty' = (ledger_dirty /\ ledger_cell \notin Span(base, size))
    /\ UNCHANGED <<regions, owned, ledger_cell>>

\* The owner of the byte writes to it: a client of the ledger or of the backing.
ledger_write ==
    /\ ledger_dirty' = TRUE
    /\ UNCHANGED <<regions, owned, ledger_cell>>

LedgerSizes == {n * GRANULARITY : n \in 1 .. CAPACITY \div GRANULARITY}
AskedAlignments == {GRANULARITY, 2 * GRANULARITY}

LedgerNext ==
    \/ \E size \in LedgerSizes, alignment \in AskedAlignments, out \in 0 .. Top \union {Failed} :
            ledger_allocate(size, alignment, out)
    \/ \E base \in 0 .. Top, size \in LedgerSizes, ok \in BOOLEAN : ledger_release(base, size, ok)
    \/ \E base \in 0 .. Top, size \in 0 .. CAPACITY : ledger_zero(base, size)
    \/ ledger_write

LedgerSpec == LedgerInit /\ [][LedgerNext]_ledger

-----------------------------------------------------------------------------
\* Every field keeps its type.
LedgerTypeOK ==
    /\ regions \subseteq [base : 1 .. Top, size : LedgerSizes]
    /\ owned \in 0 .. CAPACITY
    /\ ledger_cell \in 0 .. Top
    /\ ledger_dirty \in BOOLEAN

Held == UNION {Span(r.base, r.size) : r \in regions}

\* `owned` is exactly the number of bytes the entries hold, whatever the backing
\* answers: a failed release retains ownership and budget
\* (docs/dynamic-storage.md), and no byte is charged twice.
BudgetIsExact ==
    /\ LedgerTypeOK
    /\ owned = Cardinality(Held)
    /\ Cardinality(regions) <= MAX_REGIONS

\* The ledger keeps the promises of port::LinearStorage even over a backing that
\* returns null, misaligned or foreign storage.
LedgerAbstract == INSTANCE LinearStorage
    WITH live <- regions, dirty <- IF ledger_dirty THEN {ledger_cell} ELSE {}, Granularity <- GRANULARITY, Addresses <- 0 .. Top, Sizes <- LedgerSizes
LedgerImplementsLinearStorage == LedgerAbstract!Spec
=============================================================================
