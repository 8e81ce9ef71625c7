---------------------------- MODULE StorageProofs ----------------------------
(***************************************************************************)
(* The ledger over any backing, for every granularity, budget and number   *)
(* of entries: the budget is exact, and the ledger implements              *)
(* LinearStorage.  The arena of the linear group, for every capacity,      *)
(* granularity and base address: it implements LinearStorage as well.      *)
(***************************************************************************)
EXTENDS Arena, Ledger, FiniteSetTheorems, TLAPS

\* The entries lie apart, inside the addresses and on the granularity.  Both
\* results need it: a byte that two entries held would be charged twice, and a
\* region given out twice is what the abstract storage rules out.
EntriesLieApart ==
    /\ \A r \in regions : r.base + r.size <= Top + 1 /\ r.base % GRANULARITY = 0
    /\ \A r \in regions, s \in regions :
          r = s \/ r.base + r.size <= s.base \/ s.base + s.size <= r.base

\* The inductive invariant of the ledger.
LedgerInv == BudgetIsExact /\ EntriesLieApart /\ IsFiniteSet(regions)

\* A size that is asked for is a positive number.
LEMMA SizesAreNumbers == \A size \in LedgerSizes : size \in Nat /\ size > 0
<1> SUFFICES ASSUME NEW n \in 1 .. CAPACITY \div GRANULARITY
             PROVE  n * GRANULARITY \in Nat /\ n * GRANULARITY > 0
  BY Zenon DEF LedgerSizes
<1>1. GRANULARITY \in Nat /\ GRANULARITY > 0 /\ n \in Nat /\ n > 0
  BY LedgerAssumption
<1> QED BY <1>1

\* What is aligned to a multiple of the granularity is aligned to it.
LEMMA AlignedToBoth ==
    ASSUME NEW base \in Nat, NEW alignment \in AskedAlignments, base % alignment = 0
    PROVE  base % GRANULARITY = 0
<1>1. GRANULARITY \in Nat /\ GRANULARITY > 0
  BY LedgerAssumption
<1>2. CASE alignment = GRANULARITY
  BY <1>2, Zenon
<1>3. CASE alignment = 2 * GRANULARITY
  <2>1. PICK q \in Int : base = q * (2 * GRANULARITY)
    <3>1. alignment \in Nat /\ alignment > 0
      BY <1>1, <1>3
    <3>2. base = (base \div alignment) * alignment /\ base \div alignment \in Int
      BY ONLY base \in Nat, base % alignment = 0, <3>1
    <3> QED BY <1>1, <1>3, <3>1, <3>2, Zenon
  <2>2. base = (2 * q) * GRANULARITY /\ 2 * q \in Int
    BY <1>1, <2>1
  <2> QED BY <1>1, <2>2
<1> QED BY <1>2, <1>3, Zenon DEF AskedAlignments

\* The bytes of an entry, and the bytes of all of them.
LEMMA SpanIsCounted ==
    ASSUME NEW base \in Nat, NEW size \in Nat
    PROVE  IsFiniteSet(Span(base, size)) /\ Cardinality(Span(base, size)) = size
<1>1. base \in Int /\ base + size - 1 \in Int
  OBVIOUS
<1>2. /\ IsFiniteSet(base .. base + size - 1)
      /\ Cardinality(base .. base + size - 1) = IF base > base + size - 1 THEN 0 ELSE (base + size - 1) - base + 1
  BY <1>1, FS_Interval, Zenon
<1> QED BY <1>2 DEF Span

\* The bytes that the entries hold can be counted.
LEMMA HeldIsFinite ==
    ASSUME LedgerTypeOK, EntriesLieApart
    PROVE  IsFiniteSet(Held)
<1>1. Held \subseteq 0 .. Top
  BY SizesAreNumbers, LedgerAssumption DEF Held, Span, LedgerTypeOK, EntriesLieApart
<1>2. IsFiniteSet(0 .. Top)
  BY LedgerAssumption, FS_Interval
<1> QED BY <1>1, <1>2, FS_Subset, Zenon

\* It holds of an empty ledger.
LEMMA LedgerInitially == LedgerInit => LedgerInv
<1> SUFFICES ASSUME LedgerInit PROVE LedgerInv
  BY Zenon
<1>1. regions = {} /\ owned = 0 /\ Held = {}
  BY Zenon DEF LedgerInit, Held
<1>2. LedgerTypeOK
  BY <1>1, LedgerAssumption DEF LedgerInit, LedgerTypeOK
<1> QED BY <1>1, <1>2, FS_EmptySet, LedgerAssumption DEF LedgerInv, BudgetIsExact, EntriesLieApart

\* Storage that the checks accept is charged: it overlaps no entry, so its bytes
\* are new.
LEMMA AllocateKeeps ==
    ASSUME LedgerInv, NEW size \in LedgerSizes, NEW alignment \in AskedAlignments,
           NEW out \in 0 .. Top, ~Refused(size), ~Unusable(out, size, alignment),
           regions' = regions \union {Entry(out, size)}, owned' = owned + size,
           ledger_cell' \in 0 .. Top, ledger_dirty' \in BOOLEAN
    PROVE  LedgerInv'
<1> DEFINE e == Entry(out, size)
<1>0. /\ size \in Nat /\ size > 0 /\ out \in Nat /\ out # 0 /\ e.base = out /\ e.size = size
      /\ e \in [base : 1 .. Top, size : LedgerSizes]
  BY SizesAreNumbers, LedgerAssumption DEF Unusable, Entry
<1>1. \A r \in regions : r.base \in 1 .. Top /\ r.size \in LedgerSizes /\ r.size \in Nat /\ r.size > 0 /\ r.base \in Nat
  BY SizesAreNumbers, LedgerAssumption DEF LedgerInv, BudgetIsExact, LedgerTypeOK
<1>2. \A r \in regions : r.base + r.size <= out \/ out + size <= r.base
  BY <1>0, <1>1 DEF Unusable, Overlaps
<1>3. e \notin regions
  BY <1>0, <1>1, <1>2
<1>4. EntriesLieApart'
  <2>1. out + size <= Top + 1 /\ out % GRANULARITY = 0
    BY <1>0, AlignedToBoth, LedgerAssumption DEF Unusable
  <2> QED BY <1>0, <1>1, <1>2, <2>1 DEF LedgerInv, EntriesLieApart
<1>5. Held' = Held \union Span(out, size) /\ Held \intersect Span(out, size) = {}
  <2>1. Held' = Held \union Span(out, size)
    BY <1>0, Zenon DEF Held
  <2>2. ASSUME NEW r \in regions PROVE Span(r.base, r.size) \intersect Span(out, size) = {}
    BY <1>0, <1>1, <1>2 DEF Span
  <2> QED BY <2>1, <2>2 DEF Held
<1>6. IsFiniteSet(Held) /\ Cardinality(Held) \in Nat /\ owned = Cardinality(Held)
  BY HeldIsFinite, FS_CardinalityType, Zenon DEF LedgerInv, BudgetIsExact
<1>7. IsFiniteSet(Span(out, size)) /\ Cardinality(Span(out, size)) = size
  BY <1>0, SpanIsCounted, Zenon
<1>8. Cardinality(Held') = Cardinality(Held) + size
  <2>1. Cardinality(Held \union Span(out, size))
            = Cardinality(Held) + Cardinality(Span(out, size)) - Cardinality(Held \intersect Span(out, size))
    BY ONLY <1>6, <1>7, FS_Union, Zenon
  <2>2. Cardinality(Held \intersect Span(out, size)) = 0
    BY <1>5, FS_EmptySet, Zenon
  <2>3. Cardinality(Held') = Cardinality(Held \union Span(out, size))
    BY <1>5, Zenon
  <2> QED BY <1>0, <1>6, <1>7, <2>1, <2>2, <2>3
<1>9. IsFiniteSet(regions') /\ Cardinality(regions') = Cardinality(regions) + 1
  BY <1>3, FS_AddElement, Zenon DEF LedgerInv
<1>10. Cardinality(regions') <= MAX_REGIONS
  BY <1>9, FS_CardinalityType, LedgerAssumption DEF LedgerInv, BudgetIsExact, Refused
<1>11. owned' \in 0 .. CAPACITY
  BY <1>0, LedgerAssumption DEF LedgerInv, BudgetIsExact, LedgerTypeOK, Refused
<1>12. LedgerTypeOK'
  BY <1>0, <1>11, Zenon DEF LedgerInv, BudgetIsExact, LedgerTypeOK
<1> QED BY <1>4, <1>6, <1>8, <1>9, <1>10, <1>12, Zenon DEF LedgerInv, BudgetIsExact

\* An entry that goes takes its bytes with it, and no others: nobody else has them.
LEMMA ReleaseKeeps ==
    ASSUME LedgerInv, NEW base \in 0 .. Top, NEW size \in LedgerSizes, Entry(base, size) \in regions,
           regions' = regions \ {Entry(base, size)}, owned' = owned - size,
           UNCHANGED <<ledger_cell, ledger_dirty>>
    PROVE  LedgerInv'
<1> DEFINE e == Entry(base, size)
<1>0. size \in Nat /\ size > 0 /\ base \in Nat /\ e.base = base /\ e.size = size
  BY SizesAreNumbers, LedgerAssumption DEF Entry
<1>1. \A r \in regions : r.size \in Nat /\ r.size > 0 /\ r.base \in Nat
  BY SizesAreNumbers, LedgerAssumption DEF LedgerInv, BudgetIsExact, LedgerTypeOK
<1>2. \A r \in regions : r = e \/ r.base + r.size <= base \/ base + size <= r.base
  BY <1>0, Zenon DEF LedgerInv, EntriesLieApart
<1>4. EntriesLieApart'
  BY Zenon DEF LedgerInv, EntriesLieApart
<1>5. Held = Held' \union Span(base, size) /\ Held' \intersect Span(base, size) = {}
  <2>1. Held = Held' \union Span(base, size)
    BY <1>0, Zenon DEF Held
  <2>2. ASSUME NEW r \in regions' PROVE Span(r.base, r.size) \intersect Span(base, size) = {}
    BY <1>0, <1>1, <1>2 DEF Span
  <2> QED BY <2>1, <2>2 DEF Held
<1>6. IsFiniteSet(Held) /\ IsFiniteSet(Held') /\ owned = Cardinality(Held)
  BY <1>5, HeldIsFinite, FS_Subset DEF LedgerInv, BudgetIsExact
<1>7. IsFiniteSet(Span(base, size)) /\ Cardinality(Span(base, size)) = size
  BY <1>0, SpanIsCounted, Zenon
<1>8. Cardinality(Held) = Cardinality(Held') + size /\ Cardinality(Held') \in Nat
  <2>1. Cardinality(Held' \union Span(base, size))
            = Cardinality(Held') + Cardinality(Span(base, size)) - Cardinality(Held' \intersect Span(base, size))
    BY ONLY <1>6, <1>7, FS_Union, Zenon
  <2>2. Cardinality(Held' \intersect Span(base, size)) = 0
    BY <1>5, FS_EmptySet, Zenon
  <2>3. Cardinality(Held) = Cardinality(Held' \union Span(base, size))
    BY <1>5, Zenon
  <2>4. Cardinality(Held') \in Nat
    BY <1>6, FS_CardinalityType, Zenon
  <2> QED BY <1>0, <1>7, <2>1, <2>2, <2>3, <2>4
<1>9. IsFiniteSet(regions') /\ Cardinality(regions') <= Cardinality(regions) /\ Cardinality(regions') \in Nat
  BY FS_Subset, FS_CardinalityType, Zenon DEF LedgerInv
<1>10. Cardinality(regions') <= MAX_REGIONS
  BY <1>9, FS_CardinalityType, LedgerAssumption DEF LedgerInv, BudgetIsExact
<1>11. owned' \in 0 .. CAPACITY /\ owned' = Cardinality(Held')
  BY <1>0, <1>6, <1>8, LedgerAssumption DEF LedgerInv, BudgetIsExact, LedgerTypeOK
<1>12. LedgerTypeOK'
  BY <1>11, Zenon DEF LedgerInv, BudgetIsExact, LedgerTypeOK
<1> QED BY <1>4, <1>9, <1>10, <1>11, <1>12, Zenon DEF LedgerInv, BudgetIsExact

\* The steps that touch no entry.
LEMMA EntriesStay ==
    ASSUME LedgerInv, UNCHANGED <<regions, owned, ledger_cell>>, ledger_dirty' \in BOOLEAN
    PROVE  LedgerInv'
BY Zenon DEF LedgerInv, BudgetIsExact, LedgerTypeOK, EntriesLieApart, Held

\* Every operation keeps it, whatever the backing answers.
LEMMA LedgerStepKeeps == LedgerInv /\ [LedgerNext]_ledger => LedgerInv'
<1> SUFFICES ASSUME LedgerInv, [LedgerNext]_ledger PROVE LedgerInv'
  BY Zenon
<1>0. ledger_dirty \in BOOLEAN /\ ledger_cell \in 0 .. Top
  BY Zenon DEF LedgerInv, BudgetIsExact, LedgerTypeOK
<1>1. ASSUME NEW size \in LedgerSizes, NEW alignment \in AskedAlignments, NEW out \in 0 .. Top \union {Failed},
             ledger_allocate(size, alignment, out)
      PROVE  LedgerInv'
  <2>1. CASE out = Failed \/ Unusable(out, size, alignment)
    BY <1>0, <1>1, <2>1, EntriesStay, Zenon DEF ledger_allocate, ledger
  <2>2. CASE ~(out = Failed \/ Unusable(out, size, alignment))
    BY <1>0, <1>1, <2>2, AllocateKeeps, Zenon DEF ledger_allocate
  <2> QED BY <2>1, <2>2, Zenon
<1>2. ASSUME NEW base \in 0 .. Top, NEW size \in LedgerSizes, NEW ok \in BOOLEAN, ledger_release(base, size, ok)
      PROVE  LedgerInv'
  BY <1>0, <1>2, ReleaseKeeps, EntriesStay, Zenon DEF ledger_release
<1>3. ASSUME NEW base \in 0 .. Top, NEW size \in 0 .. CAPACITY, ledger_zero(base, size) PROVE LedgerInv'
  BY <1>0, <1>3, EntriesStay, Zenon DEF ledger_zero
<1>4. CASE ledger_write
  BY <1>4, EntriesStay, Zenon DEF ledger_write
<1>5. CASE UNCHANGED ledger
  BY <1>0, <1>5, EntriesStay, Zenon DEF ledger
<1> QED BY <1>1, <1>2, <1>3, <1>4, <1>5, Zenon DEF LedgerNext

\* Whatever the backing answers, `owned` is the number of bytes the entries hold:
\* no failed release gives budget back, no byte is charged twice (`allocate`,
\* `release` of the ledger in dotnet-pal-storage).
THEOREM BudgetStaysExact == LedgerSpec => []BudgetIsExact
<1>1. LedgerInv => BudgetIsExact
  BY Zenon DEF LedgerInv
<1> QED BY LedgerInitially, LedgerStepKeeps, <1>1, PTL DEF LedgerSpec

-----------------------------------------------------------------------------
\* The byte that is followed, as the set of bytes that are not zero.
Dirty == IF ledger_dirty THEN {ledger_cell} ELSE {}

\* An empty ledger is an empty storage.
LEMMA LedgerInitRefines == LedgerInit => LedgerAbstract!Init
BY LedgerAssumption, Zenon DEF LedgerInit, LedgerAbstract!Init

\* Every operation of the ledger is one of the storage, or fails and changes nothing.
LEMMA LedgerStepRefines == LedgerInv /\ [LedgerNext]_ledger => [LedgerAbstract!Next]_(LedgerAbstract!vars)
<1> SUFFICES ASSUME LedgerInv, [LedgerNext]_ledger PROVE [LedgerAbstract!Next]_(LedgerAbstract!vars)
  BY Zenon
<1>0. \A r \in regions : /\ r.base \in Nat /\ r.size \in Nat /\ r.size > 0 /\ r.base + r.size <= Top + 1
                         /\ r = Entry(r.base, r.size)
  BY SizesAreNumbers, LedgerAssumption DEF LedgerInv, BudgetIsExact, LedgerTypeOK, EntriesLieApart, Entry
<1>1. ASSUME NEW size \in LedgerSizes, NEW alignment \in AskedAlignments, NEW out \in 0 .. Top \union {Failed},
             ledger_allocate(size, alignment, out)
      PROVE  [LedgerAbstract!Next]_(LedgerAbstract!vars)
  <2>1. CASE out = Failed \/ Unusable(out, size, alignment)
    BY <1>1, <2>1 DEF ledger_allocate, ledger, LedgerAbstract!vars
  <2>2. CASE ~(out = Failed \/ Unusable(out, size, alignment))
    <3>1. out \in 0 .. Top /\ out \in Nat /\ size \in Nat /\ size > 0 /\ out % GRANULARITY = 0
      BY <2>2, SizesAreNumbers, AlignedToBoth, LedgerAssumption DEF Unusable, Failed
    <3>2. \A r \in regions : r.base + r.size <= out \/ out + size <= r.base
      BY <1>0, <2>2, <3>1 DEF Unusable, Overlaps
    <3>3. \A r \in regions : LedgerAbstract!Disjoint(Entry(out, size), r)
      BY <1>0, <3>1, <3>2 DEF LedgerAbstract!Disjoint, LedgerAbstract!Span, Entry
    <3>4. Dirty' = Dirty \ LedgerAbstract!Span(Entry(out, size))
      BY <1>1, <2>2, Zenon DEF ledger_allocate, Dirty, LedgerAbstract!Span, Entry, Span
    <3>5. LedgerAbstract!allocate(out, size)
      BY <1>1, <2>2, <3>1, <3>3, <3>4, Zenon DEF ledger_allocate, LedgerAbstract!allocate, Entry, Dirty
    <3> QED BY <3>1, <3>5, Zenon DEF LedgerAbstract!Next
  <2> QED BY <2>1, <2>2, Zenon
<1>2. ASSUME NEW base \in 0 .. Top, NEW size \in LedgerSizes, NEW ok \in BOOLEAN, ledger_release(base, size, ok)
      PROVE  [LedgerAbstract!Next]_(LedgerAbstract!vars)
  <2>1. CASE ok
    BY <1>2, <2>1, Zenon DEF ledger_release, LedgerAbstract!Next, LedgerAbstract!release
  <2>2. CASE ~ok
    BY <1>2, <2>2, Zenon DEF ledger_release, LedgerAbstract!vars
  <2> QED BY <2>1, <2>2, Zenon
<1>3. ASSUME NEW base \in 0 .. Top, NEW size \in 0 .. CAPACITY, ledger_zero(base, size)
      PROVE  [LedgerAbstract!Next]_(LedgerAbstract!vars)
  <2>1. PICK r \in regions : base >= r.base /\ base + size <= r.base + r.size
    BY <1>3, Zenon DEF ledger_zero
  <2>2. base \in Nat /\ size \in Nat /\ size # 0 /\ base + size - 1 \in 0 .. Top
    BY <1>0, <1>3, <2>1, LedgerAssumption DEF ledger_zero
  <2>3. base .. base + size - 1 \subseteq LedgerAbstract!Span(r)
    BY <1>0, <2>1, <2>2 DEF LedgerAbstract!Span
  <2>4. LedgerAbstract!zero(base, base + size - 1)
    BY <1>3, <2>1, <2>3, Zenon DEF ledger_zero, LedgerAbstract!zero, Span
  <2> QED BY <2>2, <2>4, Zenon DEF LedgerAbstract!Next
<1>4. CASE ledger_write
  <2>1. ledger_cell \in 0 .. Top
    BY Zenon DEF LedgerInv, BudgetIsExact, LedgerTypeOK
  <2>2. LedgerAbstract!write(ledger_cell)
    BY <1>4, Zenon DEF ledger_write, LedgerAbstract!write
  <2> QED BY <2>1, <2>2, Zenon DEF LedgerAbstract!Next
<1>5. CASE UNCHANGED ledger
  BY <1>5, Zenon DEF ledger, LedgerAbstract!vars
<1> QED BY <1>1, <1>2, <1>3, <1>4, <1>5, Zenon DEF LedgerNext

\* The ledger is a LinearStorage: what it hands out overlaps nothing that is still
\* owned and reads as zero, even when the backing returns null, misaligned or
\* foreign storage (`allocate`, `zero` of the ledger in dotnet-pal-storage).
THEOREM LedgerRefinement == LedgerSpec => LedgerImplementsLinearStorage
<1>1. LedgerSpec => []LedgerInv
  BY LedgerInitially, LedgerStepKeeps, PTL DEF LedgerSpec
<1> QED BY <1>1, LedgerInitRefines, LedgerStepRefines, PTL DEF LedgerSpec, LedgerImplementsLinearStorage, LedgerAbstract!Spec

-----------------------------------------------------------------------------
(* The arena.                                                                *)

USE ArenaAssumption, UsizeAssumption

\* What the search has passed over does not fit.
Searched ==
    call.op = "allocate" =>
        \A f \in 0 .. call.first - 1 : ~Fits(f, call.count, call.alignment)

\* The inductive invariant of the arena.
IInv == TypeOK /\ SlotsTile /\ Searched

\* A later block starts at a later byte.
LEMMA Monotone == \A m, n \in Nat : m <= n => m * Granularity <= n * Granularity
<1> TAKE m, n \in Nat
<1> HAVE m <= n
<1> DEFINE d == n - m
<1>1. d \in Nat /\ n = m + d
  OBVIOUS
<1>2. n * Granularity = m * Granularity + d * Granularity
  BY <1>1
<1>3. d * Granularity >= 0
  BY <1>1
<1> QED BY <1>2, <1>3

\* The block of a byte.
LEMMA Quotient ==
    \A n \in Nat : /\ n \div Granularity \in Nat
                   /\ (n \div Granularity) * Granularity <= n
                   /\ n < (n \div Granularity + 1) * Granularity
OBVIOUS

\* An offset inside the arena has its block in the map.
LEMMA SlotOfOffset == \A n \in 0 .. Capacity - 1 : n \div Granularity \in Slots
<1> TAKE n \in 0 .. Capacity - 1
<1> DEFINE q == n \div Granularity
<1>1. n \in Nat /\ n < Blocks * Granularity
  BY DEF Capacity
<1>2. q \in Nat /\ q * Granularity <= n
  BY <1>1, Quotient, Zenon
<1>3. ~(Blocks <= q)
  <2> HIDE DEF q
  <2> SUFFICES ASSUME Blocks <= q PROVE FALSE
    BY Zenon
  <2>1. Blocks * Granularity <= q * Granularity
    BY <1>2, Monotone, Zenon
  <2>2. q * Granularity \in Nat /\ Blocks * Granularity \in Nat
    BY <1>2
  <2> QED BY <1>1, <1>2, <2>1, <2>2
<1> QED BY <1>2, <1>3 DEF Slots

\* `round_size` gives a number.
LEMMA RoundSize == \A size \in Nat : round_size(size, Granularity) \in Nat
BY DEF round_size

\* `geometry` gives a size and an alignment to divide by.
LEMMA Geometry ==
    ASSUME NEW size \in Nat, NEW alignment \in Nat
    PROVE  LET g == geometry(size, alignment, Granularity)
           IN  g.size \in Nat /\ g.alignment \in Nat \ {0}
BY RoundSize DEF geometry

\* What the calls are made with are numbers.
LEMMA InputsAreNumbers ==
    Requests \subseteq Nat /\ Addresses \subseteq Nat /\ Capacity \in Nat
<1>1. Capacity \in Nat
  BY DEF Capacity
<1> QED BY <1>1 DEF Requests, Addresses

\* It holds of an arena whose blocks are all free.
LEMMA InitIInv == Init => IInv
<1> SUFFICES ASSUME Init PROVE IInv
  BY Zenon
<1>0. 0 \in 0 .. Blocks
  OBVIOUS
<1>1. TypeOK
  BY <1>0, Zenon DEF Init, TypeOK, Calls, Slots
<1>2. SlotsTile
  BY Zenon DEF Init, SlotsTile, IsHead, Slots, TAIL
<1>3. Searched
  BY Zenon DEF Init, Searched, Idle
<1> QED BY <1>1, <1>2, <1>3, Zenon DEF IInv

\* The records a call can be, field by field.
LEMMA Locals ==
    ASSUME TypeOK
    PROVE  /\ call.op = "allocate" => /\ call.first \in 0 .. Blocks
                                      /\ call.count \in 1 .. Blocks
                                      /\ call.alignment \in Nat \ {0}
           /\ call.op = "release" => call.first \in Slots /\ call.count \in Nat
           /\ call.op = "zero" => call.first \in Slots /\ call.from \in Bytes /\ call.to \in Nat
           /\ call.op = "idle" => call = Idle
BY DEF TypeOK, Calls, Idle

\* An acquired lock: the map is as it was and no search has begun.
LEMMA Acquires ==
    ASSUME IInv, NEW locals \in Calls, acquire(locals),
           locals.op = "allocate" => locals.first = 0
    PROVE  IInv'
<1>1. TypeOK'
  BY Zenon DEF IInv, TypeOK, acquire
<1>2. SlotsTile'
  BY Zenon DEF IInv, SlotsTile, IsHead, acquire
<1>3. Searched'
  BY DEF Searched, acquire
<1> QED BY <1>1, <1>2, <1>3, Zenon DEF IInv

\* A step that leaves the map alone and ends the call.
LEMMA Ends ==
    ASSUME IInv, UNCHANGED <<slots, cell>>, dirty' \in BOOLEAN, Return
    PROVE  IInv'
<1>1. TypeOK'
  BY Zenon DEF IInv, TypeOK, Return, Calls
<1>2. SlotsTile'
  BY Zenon DEF IInv, SlotsTile, IsHead
<1>3. Searched'
  BY Zenon DEF Searched, Return, Idle
<1> QED BY <1>1, <1>2, <1>3, Zenon DEF IInv

\* Marking a fit that the search found keeps the map a row of regions (`allocate`).
LEMMA TakeIInv == ASSUME IInv, take PROVE IInv'
<1>0. PICK first \in Slots, count \in 1 .. Blocks :
         first = call.first /\ count = call.count
  BY Locals DEF IInv, take, Fits, Slots
<1>1. /\ first + count <= Blocks
      /\ \A i \in Run(first, count) : slots[i] = 0
      /\ slots' = [i \in Slots |-> IF i = first THEN count
                        ELSE IF i \in Run(first, count) THEN TAIL ELSE slots[i]]
  BY <1>0, Zenon DEF take, Fits
<1>2. TypeOK'
  BY <1>1 DEF IInv, TypeOK, take, Return, Calls
<1>3. Searched'
  BY Zenon DEF Searched, take, Return, Idle
<1>4. /\ slots \in [Slots -> 0 .. Blocks \union {TAIL}]
      /\ TAIL \notin 0 .. Blocks
  BY DEF IInv, TypeOK, TAIL
\* The new region lies among free blocks, so no old region reaches into it.
<1>5. ASSUME NEW i \in Slots, IsHead(i)
      PROVE  i \notin Run(first, count) /\ (i + slots[i] <= first \/ first + count <= i)
  <2>1. slots[i] \in 1 .. Blocks
    BY <1>4, <1>5 DEF IsHead
  <2>2. i \notin Run(first, count)
    BY <1>1, <1>5, Zenon DEF IsHead
  <2>3. CASE i < first /\ first < i + slots[i]
    <3>1. slots[first] = TAIL
      BY <1>1, <1>5, <2>1, <2>3 DEF IInv, SlotsTile, Slots
    <3> QED BY <1>1, <1>4, <3>1 DEF Run, Slots
  <2> QED BY <1>1, <2>1, <2>2, <2>3 DEF Run, Slots
<1>6. SlotsTile'
  <2>1. ASSUME NEW i \in Slots, IsHead(i)'
        PROVE  /\ i + slots'[i] <= Blocks
               /\ \A j \in i + 1 .. i + slots'[i] - 1 : slots'[j] = TAIL
    <3>1. CASE i = first
      BY <1>1, <3>1 DEF Slots, Run
    <3>2. CASE i # first
      <4>1. i \notin Run(first, count) /\ slots'[i] = slots[i] /\ IsHead(i)
        BY <1>1, <2>1, <3>2, Zenon DEF IsHead
      <4>2. slots[i] \in 1 .. Blocks
        BY <1>4, <4>1 DEF IsHead
      <4>3. /\ i + slots[i] <= Blocks
            /\ \A j \in i + 1 .. i + slots[i] - 1 : slots[j] = TAIL
        BY <4>1, Zenon DEF IInv, SlotsTile
      <4>4. i + slots[i] <= first \/ first + count <= i
        BY <1>5, <4>1, Zenon
      <4> QED BY <1>1, <4>1, <4>2, <4>3, <4>4 DEF Slots, Run
    <3> QED BY <3>1, <3>2, Zenon
  <2>2. ASSUME NEW j \in Slots, slots'[j] = TAIL
        PROVE  \E i \in 0 .. j - 1 : IsHead(i)' /\ j < i + slots'[i]
    <3>1. CASE j \in Run(first, count)
      <4>1. j # first
        BY <1>1, <1>4, <2>2
      <4>2. slots'[first] = count /\ IsHead(first)'
        BY <1>1, <1>4 DEF IsHead
      <4> QED BY <1>1, <3>1, <4>1, <4>2 DEF Run, Slots
    <3>2. CASE j \notin Run(first, count)
      <4>0. first \in Run(first, count)
        BY DEF Run, Slots
      <4>1. slots[j] = TAIL
        BY <1>1, <2>2, <3>2, <4>0, Zenon
      <4>2. PICK i \in 0 .. j - 1 : IsHead(i) /\ j < i + slots[i]
        BY <4>1, Zenon DEF IInv, SlotsTile
      <4>3. i \in Slots
        BY <4>2 DEF Slots
      <4>4. i \notin Run(first, count)
        BY <1>5, <4>2, <4>3, Zenon
      <4>5. slots'[i] = slots[i]
        BY <1>1, <4>3, <4>4 DEF Run
      <4> QED BY <4>2, <4>5, Zenon DEF IsHead
    <3> QED BY <3>1, <3>2, Zenon
  <2> QED BY <2>1, <2>2, Zenon DEF SlotsTile
<1> QED BY <1>2, <1>3, <1>6, Zenon DEF IInv

\* Two regions of the map do not overlap.
LEMMA Apart ==
    ASSUME TypeOK, SlotsTile, NEW i \in Slots, NEW k \in Slots, IsHead(i), IsHead(k), i < k
    PROVE  i + slots[i] <= k
<1>1. slots[i] \in 1 .. Blocks
  BY DEF TypeOK, IsHead
<1>2. CASE k < i + slots[i]
  BY <1>1, <1>2 DEF SlotsTile, IsHead, Slots
<1> QED BY <1>1, <1>2 DEF Slots

\* Clearing a whole region keeps it (`release`).
LEMMA GiveBackIInv == ASSUME IInv, give_back PROVE IInv'
<1>0. PICK first \in Slots : first = call.first
  BY Locals, Zenon DEF IInv, give_back
<1> DEFINE count == slots[first]
<1>1. CASE count \in {0, TAIL} \/ count # call.count
  BY <1>0, <1>1, Ends, Zenon DEF give_back, IInv, TypeOK
<1>2. CASE ~(count \in {0, TAIL} \/ count # call.count)
  <2>1. slots' = [i \in Slots |-> IF i \in Run(first, slots[first]) THEN 0 ELSE slots[i]]
    BY <1>0, <1>2, Zenon DEF give_back
  <2>2. IsHead(first)
    BY <1>2, Zenon DEF IsHead
  <2>3. 0 \in 0 .. Blocks /\ TAIL # 0
    BY DEF TAIL
  <2>4. TypeOK'
    BY <2>1, <2>3 DEF IInv, TypeOK, give_back, Return, Calls
  <2>5. Searched'
    BY Zenon DEF Searched, give_back, Return, Idle
  <2>6. slots[first] \in 1 .. Blocks
    BY <2>2 DEF IInv, TypeOK, IsHead
  <2>7. first \in Run(first, slots[first])
    BY <2>6 DEF Run, Slots
  \* Any other region is wholly outside the one that is freed.
  <2>8. ASSUME NEW i \in Slots, IsHead(i), i # first
        PROVE  i + slots[i] <= first \/ first + slots[first] <= i
    BY <2>2, <2>8, Apart DEF IInv, Slots
  <2>9. ASSUME NEW i \in Slots, IsHead(i)'
        PROVE  /\ i # first /\ IsHead(i) /\ slots'[i] = slots[i]
               /\ i + slots[i] <= first \/ first + slots[first] <= i
    BY <2>1, <2>3, <2>7, <2>8, <2>9, Zenon DEF IsHead
  <2>10. SlotsTile'
    <3>1. ASSUME NEW i \in Slots, IsHead(i)'
          PROVE  /\ i + slots'[i] <= Blocks
                 /\ \A j \in i + 1 .. i + slots'[i] - 1 : slots'[j] = TAIL
      <4>1. slots[i] \in 1 .. Blocks
        BY <2>9, <3>1 DEF IInv, TypeOK, IsHead
      <4>2. /\ i + slots[i] <= Blocks
            /\ \A j \in i + 1 .. i + slots[i] - 1 : slots[j] = TAIL
        BY <2>9, <3>1, Zenon DEF IInv, SlotsTile
      <4>3. slots'[i] = slots[i] /\ (i + slots[i] <= first \/ first + slots[first] <= i)
        BY <2>9, <3>1, Zenon
      <4>4. ASSUME NEW j \in i + 1 .. i + slots[i] - 1 PROVE slots'[j] = TAIL
        <5>1. j \in Slots /\ j \notin Run(first, slots[first])
          BY <2>6, <4>1, <4>2, <4>3 DEF Run, Slots
        <5> QED BY <2>1, <4>2, <5>1, Zenon
      <4> QED BY <4>2, <4>3, <4>4, Zenon
    <3>2. ASSUME NEW j \in Slots, slots'[j] = TAIL
          PROVE  \E i \in 0 .. j - 1 : IsHead(i)' /\ j < i + slots'[i]
      <4>1. slots[j] = TAIL /\ j \notin Run(first, slots[first])
        BY <2>1, <2>3, <3>2, Zenon
      <4>2. PICK i \in 0 .. j - 1 : IsHead(i) /\ j < i + slots[i]
        BY <4>1, Zenon DEF IInv, SlotsTile
      <4>3. i \in Slots /\ slots[i] \in 1 .. Blocks
        BY <4>2 DEF Slots, IInv, TypeOK, IsHead
      <4>4. i # first
        BY <4>1, <4>2, <2>6 DEF Run, Slots
      <4>5. i \notin Run(first, slots[first])
        BY <2>6, <2>8, <4>2, <4>3, <4>4 DEF Run, Slots
      <4>6. slots'[i] = slots[i]
        BY <2>1, <4>3, <4>5, Zenon
      <4> QED BY <4>2, <4>6, Zenon DEF IsHead
    <3> QED BY <3>1, <3>2, Zenon DEF SlotsTile
  <2> QED BY <2>4, <2>5, <2>10, Zenon DEF IInv
<1> QED BY <1>1, <1>2, Zenon

\* The search moves past a candidate that does not fit, and past every candidate
\* that would hold the block found occupied.
LEMMA ScanIInv == ASSUME IInv, scan PROVE IInv'
<1>0. PICK first \in 0 .. Blocks, count \in 1 .. Blocks, alignment \in Nat \ {0} :
         call = [op |-> "allocate", first |-> first, count |-> count, alignment |-> alignment]
  BY DEF IInv, TypeOK, Calls, Idle, scan
<1>1. first <= Blocks - count /\ UNCHANGED <<slots, cell, dirty>>
  BY <1>0, Zenon DEF scan
<1>2. \A f \in 0 .. first - 1 : ~Fits(f, count, alignment)
  BY <1>0, Zenon DEF IInv, Searched
<1>3. PICK next \in 0 .. Blocks :
         /\ call' = [op |-> "allocate", first |-> next, count |-> count, alignment |-> alignment]
         /\ \A f \in first .. next - 1 : ~Fits(f, count, alignment)
  <2>1. CASE ~Aligned(first, alignment) /\ Move(first + 1)
    <3>1. call' = [op |-> "allocate", first |-> first + 1, count |-> count, alignment |-> alignment]
      BY <1>0, <2>1, Zenon DEF Move
    <3>2. \A f \in first .. (first + 1) - 1 : ~Fits(f, count, alignment)
      BY <2>1 DEF Fits
    <3>3. first + 1 \in 0 .. Blocks
      BY <1>1
    <3> QED BY <3>1, <3>2, <3>3, Zenon
  <2>2. ASSUME NEW i \in Run(first, count), slots[i] # 0, Move(i + 1) PROVE
          \E next \in 0 .. Blocks :
             /\ call' = [op |-> "allocate", first |-> next, count |-> count, alignment |-> alignment]
             /\ \A f \in first .. next - 1 : ~Fits(f, count, alignment)
    <3>1. call' = [op |-> "allocate", first |-> i + 1, count |-> count, alignment |-> alignment]
      BY <1>0, <2>2, Zenon DEF Move
    <3>2. \A f \in first .. (i + 1) - 1 : ~Fits(f, count, alignment)
      BY <2>2 DEF Fits, Run
    <3>3. i + 1 \in 0 .. Blocks
      BY <1>1, <2>2 DEF Run
    <3> QED BY <3>1, <3>2, <3>3, Zenon
  <2> QED BY <1>0, <2>1, <2>2, Zenon DEF scan
<1>4. TypeOK'
  BY <1>1, <1>3, Zenon DEF IInv, TypeOK, Calls
<1>5. SlotsTile'
  BY <1>1, Zenon DEF IInv, SlotsTile, IsHead
<1>6. Searched'
  <2>1. \A f \in 0 .. next - 1 : ~Fits(f, count, alignment)
    BY <1>2, <1>3
  <2>2. \A f \in 0 .. next - 1 : ~Fits(f, count, alignment)'
    BY <1>1, <2>1, Zenon DEF Fits
  <2> QED BY <1>3, <2>2, Zenon DEF Searched
<1> QED BY <1>4, <1>5, <1>6, Zenon DEF IInv

\* Walking back to the head of a region changes no block (`zero`).
LEMMA WalkIInv == ASSUME IInv, walk PROVE IInv'
<1>0. PICK first \in Slots, from \in Bytes, to \in Nat :
         call = [op |-> "zero", first |-> first, from |-> from, to |-> to]
  BY DEF IInv, TypeOK, Calls, Idle, walk
<1>1. CASE first = 0
  BY <1>0, <1>1, Ends, Zenon DEF walk, IInv, TypeOK
<1>2. CASE first # 0
  <2>1. /\ call' = [op |-> "zero", first |-> first - 1, from |-> from, to |-> to]
        /\ UNCHANGED <<slots, cell, dirty>>
    BY <1>0, <1>2, Zenon DEF walk, Move
  <2>2. first - 1 \in Slots
    BY <1>2 DEF Slots
  <2>3. TypeOK'
    BY <2>1, <2>2, Zenon DEF IInv, TypeOK, Calls
  <2>4. SlotsTile' /\ Searched'
    BY <2>1, Zenon DEF IInv, SlotsTile, IsHead, Searched
  <2> QED BY <2>3, <2>4, Zenon DEF IInv
<1> QED BY <1>1, <1>2, Zenon

\* Every step inside a call keeps the invariant.
LEMMA StepIInv == ASSUME IInv, Step PROVE IInv'
<1>1. CASE out_of_memory
  BY <1>1, Ends, Zenon DEF out_of_memory, IInv, TypeOK
<1>2. CASE fill
  <2>1. dirty' \in BOOLEAN
    BY <1>2, Zenon DEF fill
  <2> QED BY <1>2, <2>1, Ends, Zenon DEF fill
<1> QED BY <1>1, <1>2, ScanIInv, TakeIInv, GiveBackIInv, WalkIInv, Zenon DEF Step

\* Every step keeps the invariant.
LEMMA NextIInv == IInv /\ [Next]_vars => IInv'
<1> SUFFICES ASSUME IInv, [Next]_vars PROVE IInv'
  BY Zenon
<1>1. ASSUME NEW size \in Requests, NEW alignment \in Alignments, allocate(size, alignment)
      PROVE  IInv'
  <2> DEFINE g == geometry(size, alignment, Granularity)
             locals == [op |-> "allocate", first |-> 0,
                        count |-> g.size \div Granularity, alignment |-> g.alignment]
  <2>1. g.alignment \in Nat \ {0}
    BY InputsAreNumbers, Geometry, Zenon
  <2>2. g.size \div Granularity \in 1 .. Blocks /\ acquire(locals)
    BY <1>1, Zenon DEF allocate
  <2> HIDE DEF g
  <2>3. 0 \in 0 .. Blocks
    OBVIOUS
  <2>4. locals \in Calls
    BY <2>1, <2>2, <2>3, Zenon DEF Calls
  <2> QED BY <2>2, <2>4, Acquires, Zenon
<1>2. ASSUME NEW address \in Addresses, NEW size \in Requests, release(address, size)
      PROVE  IInv'
  <2> DEFINE offset == address - Base
             n == round_size(size, Granularity)
             locals == [op |-> "release", first |-> offset \div Granularity,
                        count |-> n \div Granularity]
  <2>1. offset \div Granularity \in Slots /\ acquire(locals)
    BY <1>2, SlotOfOffset, Zenon DEF release
  <2>2. n \div Granularity \in Nat
    BY InputsAreNumbers, RoundSize, Quotient, Zenon
  <2>3. locals \in Calls
    BY <2>1, <2>2, Zenon DEF Calls
  <2> QED BY <2>1, <2>3, Acquires, Zenon
<1>3. ASSUME NEW address \in Addresses, NEW size \in Requests, zero(address, size)
      PROVE  IInv'
  <2> DEFINE offset == address - Base
             locals == [op |-> "zero", first |-> offset \div Granularity,
                        from |-> address, to |-> address + size]
  <2>1. address \in Nat /\ size \in Nat /\ Capacity \in Nat
    BY InputsAreNumbers, Zenon
  <2>2. offset \in 0 .. Capacity - 1 /\ acquire(locals)
    BY <1>3, <2>1 DEF zero
  <2>3. offset \div Granularity \in Slots
    BY <2>2, SlotOfOffset, Zenon
  <2>4. address \in Bytes
    BY <2>1, <2>2 DEF Bytes
  <2>5. locals \in Calls
    BY <2>1, <2>3, <2>4 DEF Calls
  <2> QED BY <2>2, <2>5, Acquires, Zenon
<1>4. CASE write
  <2>1. TypeOK'
    BY <1>4, Zenon DEF write, IInv, TypeOK
  <2>2. SlotsTile' /\ Searched'
    BY <1>4, Zenon DEF write, IInv, SlotsTile, IsHead, Searched, Fits
  <2> QED BY <2>1, <2>2, Zenon DEF IInv
<1>5. CASE UNCHANGED vars
  <2>1. TypeOK' /\ SlotsTile'
    BY <1>5, Zenon DEF vars, IInv, TypeOK, SlotsTile, IsHead
  <2>2. Searched'
    BY <1>5, Zenon DEF vars, IInv, Searched, Fits
  <2> QED BY <2>1, <2>2, Zenon DEF IInv
<1> QED BY <1>1, <1>2, <1>3, <1>4, <1>5, StepIInv, Zenon DEF Next

\* The inductive invariant of the arena.
THEOREM Invariance == Spec => []IInv
BY InitIInv, NextIInv, PTL DEF Spec

\* No operation leaves the block map or the types of its locals.
THEOREM Typed == Spec => []TypeOK
<1>1. IInv => TypeOK
  BY Zenon DEF IInv
<1> QED BY <1>1, Invariance, PTL

\* The block map stays a row of free blocks and whole regions, for every capacity.
THEOREM Tiled == Spec => []SlotsTile
<1>1. IInv => SlotsTile
  BY Zenon DEF IInv
<1> QED BY <1>1, Invariance, PTL

\* allocate answers OutOfMemory only when no aligned run of free blocks exists.
THEOREM Complete == Spec => OutOfMemoryIsTrue
<1> DEFINE Claim == out_of_memory =>
                      ~ \E first \in Slots : Fits(first, call.count, call.alignment)
<1>1. IInv => Claim
  <2> SUFFICES ASSUME IInv, out_of_memory, NEW first \in Slots,
                      Fits(first, call.count, call.alignment)
               PROVE  FALSE
    BY Zenon
  <2>1. call.first \in 0 .. Blocks /\ call.count \in 1 .. Blocks
    BY Locals, Zenon DEF IInv, out_of_memory
  <2>2. first < call.first
    BY <2>1 DEF out_of_memory, Fits, Slots
  <2> QED BY <2>1, <2>2 DEF IInv, Searched, out_of_memory, Slots
<1>2. IInv => [Claim]_vars
  BY <1>1, Zenon
<1> HIDE DEF Claim
<1>3. []IInv => [][Claim]_vars
  BY <1>2, PTL
<1> QED BY <1>3, Invariance, Zenon DEF OutOfMemoryIsTrue, Claim

-----------------------------------------------------------------------------
\* The refinement.
LEMMA GrainOfBlock == \A k \in Nat : (Base + k * Granularity) % Granularity = 0
<1> TAKE k \in Nat
<1> DEFINE m == Base \div Granularity
<1>1. m \in Nat /\ Base = m * Granularity
  OBVIOUS
<1> HIDE DEF m
<1>2. Base + k * Granularity = (m + k) * Granularity
  BY <1>1
<1>3. \A n \in Nat : (n * Granularity) % Granularity = 0
  OBVIOUS
<1>4. m + k \in Nat
  BY <1>1
<1> QED BY <1>2, <1>3, <1>4, Zenon

\* The bytes of a run of blocks, and runs that follow each other.
LEMMA Bytewise ==
    ASSUME NEW i \in Nat, NEW n \in Nat, NEW k \in Nat, NEW m \in Nat, i + n <= k
    PROVE  /\ i * Granularity \in Nat /\ n * Granularity \in Nat
           /\ (i + n) * Granularity = i * Granularity + n * Granularity
           /\ ByteRun(i, n) \intersect ByteRun(k, m) = {}
<1>1. /\ i * Granularity \in Nat /\ n * Granularity \in Nat
      /\ k * Granularity \in Nat /\ m * Granularity \in Nat
  OBVIOUS
<1>2. (i + n) * Granularity = i * Granularity + n * Granularity
  OBVIOUS
<1>3. (i + n) * Granularity <= k * Granularity
  BY Monotone
<1>4. ByteRun(i, n) \intersect ByteRun(k, m) = {}
  BY <1>1, <1>2, <1>3 DEF ByteRun
<1> QED BY <1>1, <1>2, <1>4, Zenon

\* The region at a head is the bytes of its blocks.
LEMMA SpanIsRun ==
    ASSUME TypeOK, NEW i \in Slots, IsHead(i)
    PROVE  /\ slots[i] \in 1 .. Blocks
           /\ Abstract!Span(Region(i)) = ByteRun(i, slots[i])
<1>1. slots[i] \in 1 .. Blocks
  BY DEF TypeOK, IsHead
<1>2. i * Granularity \in Nat /\ slots[i] * Granularity \in Nat
      /\ (i + slots[i]) * Granularity = i * Granularity + slots[i] * Granularity
  BY <1>1 DEF Slots
<1> QED BY <1>1, <1>2 DEF Abstract!Span, Region, ByteRun

\* Every block starts inside the arena.
LEMMA BlockIsInside ==
    \A i \in Slots : Base + i * Granularity \in Bytes /\ i * Granularity \in Nat
<1> TAKE i \in Slots
<1>1. i \in Nat /\ i + 1 \in Nat /\ i + 1 <= Blocks
  BY DEF Slots
<1>2. (i + 1) * Granularity <= Blocks * Granularity
  BY <1>1, Monotone, Zenon
<1>3. (i + 1) * Granularity = i * Granularity + Granularity /\ i * Granularity \in Nat
  BY <1>1
<1>4. Blocks * Granularity \in Nat
  OBVIOUS
<1> QED BY <1>2, <1>3, <1>4 DEF Bytes, Capacity

\* The new region starts nowhere an old one does and overlaps none.
LEMMA TakeRefines == ASSUME IInv, take PROVE Abstract!Next
<1>0. PICK first \in Slots, count \in 1 .. Blocks :
         first = call.first /\ count = call.count
  BY Locals DEF IInv, take, Fits, Slots
<1>1. /\ first + count <= Blocks
      /\ \A i \in Run(first, count) : slots[i] = 0
      /\ slots' = [i \in Slots |-> IF i = first THEN count
                        ELSE IF i \in Run(first, count) THEN TAIL ELSE slots[i]]
      /\ cell' = cell /\ dirty' = (dirty /\ cell \notin ByteRun(first, count))
  BY <1>0, Zenon DEF take, Fits
<1>2. TAIL \notin 0 .. Blocks
  BY DEF TAIL
<1> DEFINE r == [base |-> Base + first * Granularity, size |-> count * Granularity]
<1>3. first \in Run(first, count)
  BY DEF Run, Slots
<1>4. slots[first] = 0 /\ slots'[first] = count /\ IsHead(first)' /\ Region(first)' = r
  BY <1>1, <1>2, <1>3 DEF IsHead, Region
<1>5. \A i \in Slots : i # first =>
         /\ IsHead(i)' <=> IsHead(i)
         /\ IsHead(i) => Region(i)' = Region(i)
  BY <1>1, Zenon DEF IsHead, Region
<1>6. ~IsHead(first)
  BY <1>4, Zenon DEF IsHead
<1>7. Live' = Live \union {r}
  BY <1>4, <1>5, <1>6, Zenon DEF Live
<1>8. /\ first * Granularity \in Nat /\ count * Granularity \in Nat
      /\ (first + count) * Granularity = first * Granularity + count * Granularity
  BY DEF Slots
<1>9. Abstract!Span(r) = ByteRun(first, count)
  BY <1>8 DEF Abstract!Span, ByteRun
<1>10. ASSUME NEW s \in Live PROVE Abstract!Disjoint(r, s)
  <2>1. PICK i \in Slots : IsHead(i) /\ s = Region(i)
    BY Zenon DEF Live
  <2>2. slots[i] \in 1 .. Blocks /\ Abstract!Span(s) = ByteRun(i, slots[i])
    BY <2>1, SpanIsRun, Zenon DEF IInv
  <2>3. i + slots[i] <= first \/ first + count <= i
    <3>1. i \notin Run(first, count)
      BY <1>1, <2>1, Zenon DEF IsHead
    <3>2. CASE i < first /\ first < i + slots[i]
      <4>1. slots[first] = TAIL
        BY <2>1, <2>2, <3>2 DEF IInv, SlotsTile, Slots
      <4> QED BY <1>2, <1>4, <4>1
    <3> QED BY <2>2, <3>1, <3>2 DEF Run, Slots
  <2>4. ByteRun(first, count) \intersect ByteRun(i, slots[i]) = {}
    <3>1. CASE i + slots[i] <= first
      BY <2>2, <3>1, Bytewise DEF Slots
    <3>2. CASE first + count <= i
      BY <2>2, <3>2, Bytewise DEF Slots
    <3> QED BY <2>3, <3>1, <3>2, Zenon
  <2> QED BY <1>9, <2>2, <2>4, Zenon DEF Abstract!Disjoint
<1>11. r.base % Granularity = 0
  <2>1. first \in Nat
    BY DEF Slots
  <2>2. (Base + first * Granularity) % Granularity = 0
    BY <2>1, GrainOfBlock, Zenon
  <2> QED BY <2>2, Zenon
<1>12. (IF dirty THEN {cell} ELSE {})' = (IF dirty THEN {cell} ELSE {}) \ Abstract!Span(r)
  BY <1>1, <1>9, Zenon
<1>13. Abstract!allocate(r.base, r.size)
  BY <1>7, <1>10, <1>11, <1>12, Zenon DEF Abstract!allocate
<1>14. r.base \in Bytes /\ r.size \in {n * Granularity : n \in 1 .. Blocks}
  BY BlockIsInside, Zenon
<1> QED BY <1>13, <1>14, Zenon DEF Abstract!Next

\* Clearing a region is the release of it, or a refusal.
LEMMA GiveBackRefines == ASSUME IInv, give_back PROVE [Abstract!Next]_Abstract!vars
<1>0. PICK first \in Slots : first = call.first
  BY Locals, Zenon DEF IInv, give_back
<1>1. UNCHANGED <<cell, dirty>>
  BY Zenon DEF give_back
<1>2. CASE slots' = slots
  BY <1>1, <1>2, Zenon DEF Abstract!vars, Live, IsHead, Region
<1>3. CASE slots' # slots
  <2>1. /\ slots' = [i \in Slots |-> IF i \in Run(first, slots[first]) THEN 0 ELSE slots[i]]
        /\ IsHead(first)
    BY <1>0, <1>3, Zenon DEF give_back, IsHead
  <2>2. slots[first] \in 1 .. Blocks
    BY <2>1 DEF IInv, TypeOK, IsHead
  <2>3. first \in Run(first, slots[first]) /\ ~IsHead(first)'
    BY <2>1, <2>2 DEF Run, Slots, IsHead
  <2>4. \A i \in Slots : i # first /\ IsHead(i) => i \notin Run(first, slots[first])
    BY <2>1, <2>2, Apart DEF IInv, Run, Slots
  <2>5. \A i \in Slots : i # first =>
           /\ IsHead(i)' <=> IsHead(i)
           /\ IsHead(i) => Region(i)' = Region(i) /\ Region(i) # Region(first)
    <3> TAKE i \in Slots
    <3> HAVE i # first
    <3>1. IsHead(i) => Region(i) # Region(first)
      <4>1. i * Granularity # first * Granularity
        BY DEF Slots
      <4>2. Base + i * Granularity # Base + first * Granularity
        BY <4>1, BlockIsInside
      <4> QED BY <4>2, Zenon DEF Region
    <3>2. IsHead(i) => IsHead(i)' /\ Region(i)' = Region(i)
      BY <2>1, <2>4, Zenon DEF IsHead, Region
    <3>3. IsHead(i)' => IsHead(i)
      BY <2>1, Zenon DEF IsHead
    <3> QED BY <3>1, <3>2, <3>3, Zenon
  <2>6. Live' = Live \ {Region(first)}
    BY <2>3, <2>5, Zenon DEF Live
  <2>7. Region(first) \in Live
    BY <2>1, Zenon DEF Live
  <2>8. Abstract!release(Region(first))
    BY <1>1, <2>6, Zenon DEF Abstract!release
  <2> QED BY <2>7, <2>8, Zenon DEF Abstract!Next
<1> QED BY <1>2, <1>3, Zenon

\* zero walks back from the block of its first byte.
Walked ==
    call.op = "zero" => Base + call.first * Granularity <= call.from /\ call.from < call.to

\* No step of a walk passes the first byte.
LEMMA NextWalked == IInv /\ Walked /\ [Next]_vars => Walked'
<1> SUFFICES ASSUME IInv, Walked, [Next]_vars, call'.op = "zero"
             PROVE  Base + call'.first * Granularity <= call'.from /\ call'.from < call'.to
  BY Zenon DEF Walked
<1>1. ASSUME NEW address \in Addresses, NEW size \in Requests, zero(address, size)
      PROVE  Base + call'.first * Granularity <= call'.from /\ call'.from < call'.to
  <2>1. address \in Nat /\ size \in Nat
    BY InputsAreNumbers, Zenon
  <2>2. address - Base \in Nat /\ size # 0
    BY <1>1, <2>1 DEF zero
  <2> DEFINE q == (address - Base) \div Granularity
  <2>3. q \in Nat /\ q * Granularity <= address - Base
    BY <2>2, Quotient, Zenon
  <2>4. call'.first = q /\ call'.from = address /\ call'.to = address + size
    BY <1>1, Zenon DEF zero, acquire
  <2> HIDE DEF q
  <2> QED BY <2>1, <2>2, <2>3, <2>4
<1>2. CASE walk
  <2>0. PICK first \in Slots, from \in Bytes, to \in Nat :
           call = [op |-> "zero", first |-> first, from |-> from, to |-> to]
    BY <1>2 DEF IInv, TypeOK, Calls, Idle, walk
  <2>1. /\ first # 0
        /\ call' = [op |-> "zero", first |-> first - 1, from |-> from, to |-> to]
    BY <1>2, <2>0 DEF walk, Move, Return, Idle
  <2>2. Base + first * Granularity <= from /\ from < to
    BY <2>0, Zenon DEF Walked
  <2>3. first - 1 \in Nat /\ first \in Nat
    BY <2>1 DEF Slots
  <2>4. (first - 1) * Granularity <= first * Granularity
    BY <2>3, Monotone
  <2>5. (first - 1) * Granularity \in Nat /\ first * Granularity \in Nat /\ from \in Nat
    BY <2>3, InputsAreNumbers DEF Bytes
  <2> QED BY <2>1, <2>2, <2>4, <2>5
<1>3. CASE scan
  <2>1. PICK n : call' = [call EXCEPT !.first = n]
    BY <1>3, Zenon DEF scan, Move
  <2>2. call'.op = call.op
    BY <2>1, Zenon DEF IInv, TypeOK, Calls, Idle
  <2> QED BY <1>3, <2>2, Zenon DEF scan
<1>4. CASE take \/ out_of_memory \/ give_back \/ fill
  BY <1>4 DEF take, out_of_memory, give_back, fill, Return, Idle
<1>5. CASE write \/ UNCHANGED vars
  BY <1>5, Zenon DEF write, vars, Walked
<1>6. ASSUME NEW size \in Requests, NEW alignment \in Alignments, allocate(size, alignment)
      PROVE  FALSE
  BY <1>6, Zenon DEF allocate, acquire
<1>7. ASSUME NEW address \in Addresses, NEW size \in Requests, release(address, size)
      PROVE  FALSE
  BY <1>7, Zenon DEF release, acquire
<1> QED BY <1>1, <1>2, <1>3, <1>4, <1>5, <1>6, <1>7, Zenon DEF Next, Step

\* Filling is the zeroing of bytes that one region owns, or a refusal.
LEMMA FillRefines == ASSUME IInv, Walked, fill PROVE [Abstract!Next]_Abstract!vars
<1>0. PICK first \in Slots, from \in Bytes, to \in Nat :
         call = [op |-> "zero", first |-> first, from |-> from, to |-> to]
  BY DEF IInv, TypeOK, Calls, Idle, fill
<1> DEFINE inside == slots[first] # 0 /\ to - Base <= (first + slots[first]) * Granularity
<1>1. /\ slots[first] # TAIL /\ UNCHANGED <<slots, cell>>
      /\ dirty' = (dirty /\ ~(inside /\ cell \in from .. to - 1))
  BY <1>0, Zenon DEF fill
<1>2. Live' = Live
  BY <1>1, Zenon DEF Live, IsHead, Region
<1>3. CASE ~inside
  <2>1. dirty' = dirty
    BY <1>1, <1>3, Zenon DEF IInv, TypeOK
  <2> QED BY <1>1, <1>2, <2>1 DEF Abstract!vars
<1>4. CASE inside
  <2>1. IsHead(first)
    BY <1>1, <1>4, Zenon DEF IsHead
  <2>2. /\ slots[first] \in 1 .. Blocks
        /\ Abstract!Span(Region(first)) = ByteRun(first, slots[first])
    BY <2>1, SpanIsRun, Zenon DEF IInv
  <2>3. Base + first * Granularity <= from /\ from < to
    BY <1>0, Zenon DEF Walked
  <2>4. first + slots[first] <= Blocks
    BY <2>1, Zenon DEF IInv, SlotsTile
  <2>5. /\ (first + slots[first]) * Granularity <= Blocks * Granularity
        /\ (first + slots[first]) * Granularity \in Nat
        /\ first * Granularity \in Nat /\ Blocks * Granularity \in Nat
    BY <2>2, <2>4, Monotone DEF Slots
  <2>6. from \in Nat /\ from >= Base
    BY InputsAreNumbers DEF Bytes
  <2>7. from .. to - 1 \subseteq ByteRun(first, slots[first])
    BY <1>4, <2>3, <2>5, <2>6 DEF ByteRun
  <2>8. to - 1 \in Bytes
    BY <1>4, <2>3, <2>5, <2>6 DEF Bytes, Capacity
  <2>9. Region(first) \in Live
    BY <2>1, Zenon DEF Live
  <2>10. (IF dirty THEN {cell} ELSE {})' = (IF dirty THEN {cell} ELSE {}) \ (from .. to - 1)
    BY <1>1, <1>4, Zenon
  <2>11. Abstract!zero(from, to - 1)
    BY <1>2, <2>2, <2>7, <2>9, <2>10, Zenon DEF Abstract!zero
  <2> QED BY <2>8, <2>11, Zenon DEF Abstract!Next
<1> QED BY <1>3, <1>4, Zenon

\* The arena implements port::LinearStorage: no region is handed out twice, what
\* is handed out is zero, and release and zero touch one region.
THEOREM Refinement == Spec => ImplementsLinearStorage
<1>1. Init => Abstract!Init
  BY Zenon DEF Init, Abstract!Init, Live, IsHead
<1>2. Init => Walked
  BY DEF Init, Walked, Idle
<1>3. IInv /\ Walked /\ [Next]_vars => [Abstract!Next]_Abstract!vars
  <2> SUFFICES ASSUME IInv, Walked, [Next]_vars PROVE [Abstract!Next]_Abstract!vars
    BY Zenon
  <2>1. CASE UNCHANGED <<slots, cell, dirty>>
    BY <2>1, Zenon DEF Abstract!vars, Live, IsHead, Region
  <2>2. CASE write
    <3>1. PICK i \in Slots : IsHead(i) /\ cell \in ByteRun(i, slots[i])
      BY <2>2, Zenon DEF write
    <3>2. Region(i) \in Live /\ cell \in Abstract!Span(Region(i))
      BY <3>1, SpanIsRun, Zenon DEF Live, IInv
    <3>3. Live' = Live
      BY <2>2, Zenon DEF write, Live, IsHead, Region
    <3>4. cell \in Bytes
      BY Zenon DEF IInv, TypeOK
    <3>5. Abstract!write(cell)
      BY <2>2, <3>2, <3>3, Zenon DEF write, Abstract!write
    <3> QED BY <3>4, <3>5, Zenon DEF Abstract!Next
  <2>3. ASSUME NEW size \in Requests, NEW alignment \in Alignments, allocate(size, alignment)
        PROVE  UNCHANGED <<slots, cell, dirty>>
    BY <2>3, Zenon DEF allocate, acquire
  <2>4. ASSUME NEW address \in Addresses, NEW size \in Requests,
               release(address, size) \/ zero(address, size)
        PROVE  UNCHANGED <<slots, cell, dirty>>
    BY <2>4, Zenon DEF release, zero, acquire
  <2>5. CASE scan \/ out_of_memory \/ walk
    BY <2>1, <2>5, Zenon DEF scan, out_of_memory, walk
  <2>6. CASE UNCHANGED vars
    BY <2>1, <2>6, Zenon DEF vars
  <2> QED BY Zenon, <2>1, <2>2, <2>3, <2>4, <2>5, <2>6, TakeRefines, GiveBackRefines, FillRefines
          DEF Next, Step
<1>4. Spec => []IInv /\ []Walked
  BY <1>2, Invariance, NextWalked, PTL DEF Spec
<1> QED BY <1>1, <1>3, <1>4, PTL DEF Spec, ImplementsLinearStorage, Abstract!Spec
=============================================================================
