------------------------------ MODULE BareProofs ------------------------------
(***************************************************************************)
(* The threads of the bare-metal port keep their memory, and its events    *)
(* and mutexes implement Events and Mutexes, for every size of the table   *)
(* and of the memory.                                                      *)
(***************************************************************************)
EXTENDS BareMetal, FiniteSetTheorems, WellFoundedInduction, TLAPS

\* The entries of the table of threads, and the places a thread can be at.
Entry == [state : {"Free", "Live", "Finished"}, detached : BOOLEAN, reclaim : BOOLEAN, stack : 0..1, tls : 0..1]
Place == [op : {"run", "sleep", "join", "wait", "lock", "read", "write"}, about : Indices, limit : {"none", "ahead", "past"}]

\* A table of threads: a free entry owns nothing, the others what they run on; a live
\* thread's memory is not asked back; and the boot thread lives.
Sound(threads) ==
    /\ threads \in [Indices -> Entry]
    /\ \A i \in Indices :
         /\ threads[i].state = "Free" => threads[i] = EMPTY
         /\ threads[i].state = "Live" => ~threads[i].reclaim
         /\ threads[i].state # "Free" => threads[i].tls = 1 /\ (i # 0 => threads[i].stack = 1)
    /\ threads[0].state = "Live"

\* An entry somebody may still join: nobody takes it back.
Kept(threads, i) ==
    i \in Indices /\ i # 0 /\ threads[i].state # "Free" /\ ~threads[i].detached /\ ~threads[i].reclaim
\* The pieces of memory the table owns.
Pieces(threads) == Cardinality(Stacks(threads)) + Cardinality(Blocks(threads))

\* Where the threads are, over a table: who waits is live, every handle and every
\* entry somebody joins is kept, and nobody else may join what is being joined.
Placed(threads, w, h) ==
    /\ w \in [Indices -> Place]
    /\ \A i \in Indices : w[i].op # "run" => threads[i].state = "Live"
    /\ \A i \in h : Kept(threads, i)
    /\ \A i \in Indices : w[i].op = "join" => Kept(threads, w[i].about) /\ w[i].about \notin h
    /\ \A i, j \in Indices : i # j /\ w[i].op = "join" /\ w[j].op = "join" => w[i].about # w[j].about

\* A slot of a key that is in use holds nothing or a value of this use of the key
\* (`tls_create`, `tls_destroy`).
SlotsInv ==
    /\ slots \in [Indices -> Nat] /\ generation \in Nat
    /\ KEYS.used => \A i \in Indices : slots[i] \in {0, generation}

\* The running thread is live, memory is either free or an entry's, and everyone is
\* where the table says.
ThreadsInv ==
    /\ CURRENT \in Indices /\ Sound(THREADS) /\ THREADS[CURRENT].state = "Live"
    /\ region \in Nat /\ region + Pieces(THREADS) = MEMORY
    /\ Placed(THREADS, where, handles)

\* The inductive invariant of the threads and their keys.
BareInv == ThreadsInv /\ SlotsInv

-----------------------------------------------------------------------------
\* The table is finite and has an entry for the boot thread.
LEMMA IndicesFinite ==
    /\ IsFiniteSet(Indices) /\ 0 \in Indices /\ Indices \subseteq Nat /\ NOBODY \notin Indices
    /\ \A S \in SUBSET Indices : IsFiniteSet(S) /\ Cardinality(S) \in Nat
<1>1. IsFiniteSet(Indices)
  BY TableHasEntries, FS_Interval, SMT DEF Indices
<1>2. 0 \in Indices /\ Indices \subseteq Nat /\ NOBODY \notin Indices
  BY TableHasEntries, SMT DEF Indices, NOBODY
<1> QED BY <1>1, <1>2, FS_Subset, FS_CardinalityType, Zenon

\* A set of numbers that is not empty has a least one.
LEMMA LeastOf ==
    ASSUME NEW S \in SUBSET Nat, S # {}
    PROVE  Min(S) \in S
<1>1. \E x \in S : \A y \in S : ~(<<y, x>> \in OpToRel(<, Nat))
  BY NatLessThanWellFounded, WFMin, Zenon
<1>2. PICK x \in S : \A y \in S : ~(<<y, x>> \in OpToRel(<, Nat))
  BY <1>1, Zenon
<1>3. ASSUME NEW y \in S PROVE x =< y
  <2>1. ~(<<y, x>> \in {p \in Nat \X Nat : p[1] < p[2]})
    BY <1>2, Zenon DEF OpToRel
  <2> QED BY <2>1, SMT
<1> QED BY <1>3, Zenon DEF Min

\* The CPU goes round the table to a live thread, if there is another one.
LEMMA NextLives ==
    ASSUME NEW threads, CURRENT \in Indices, threads[0].state = "Live",
           CURRENT # 0 \/ threads[CURRENT].state = "Live"
    PROVE  next_live(threads) \in Indices /\ threads[next_live(threads)].state = "Live"
<1> DEFINE live == {s \in 1..MAX_THREADS - 1 : threads[(CURRENT + s) % MAX_THREADS].state = "Live"}
<1>1. next_live(threads) = IF live = {} THEN CURRENT ELSE (CURRENT + Min(live)) % MAX_THREADS
  BY Zenon DEF next_live
<1>2. CASE live # {}
  <2>1. Min(live) \in live
    BY <1>2, LeastOf, TableHasEntries, live \in SUBSET Nat
  <2>2. PICK s \in 1..MAX_THREADS - 1 : s = Min(live)
    BY <2>1, Zenon
  <2>3. (CURRENT + s) % MAX_THREADS \in Indices
    BY TableHasEntries, SMT DEF Indices
  <2> QED BY <1>1, <1>2, <2>1, <2>2, <2>3, Zenon
<1>3. CASE live = {}
  <2>1. CASE CURRENT # 0
    <3>1. MAX_THREADS - CURRENT \in 1..MAX_THREADS - 1
      BY <2>1, TableHasEntries, SMT DEF Indices
    <3>2. (CURRENT + (MAX_THREADS - CURRENT)) % MAX_THREADS = 0
      BY TableHasEntries, SMT DEF Indices
    <3>3. MAX_THREADS - CURRENT \in live
      BY <3>1, <3>2, Zenon
    <3> QED BY <3>3, <1>3, Zenon
  <2> QED BY <1>1, <1>3, <2>1, Zenon
<1> QED BY <1>2, <1>3, Zenon

\* The pieces the entries own are a number.
LEMMA PiecesCount == ASSUME NEW threads PROVE Pieces(threads) \in Nat
<1>1. Stacks(threads) \in SUBSET Indices /\ Blocks(threads) \in SUBSET Indices
  BY Zenon DEF Stacks, Blocks
<1>2. Cardinality(Stacks(threads)) \in Nat /\ Cardinality(Blocks(threads)) \in Nat
  BY <1>1, IndicesFinite, Zenon
<1> QED BY <1>2, SMT DEF Pieces

\* What is taken back is given to the allocator, piece by piece, and only from those
\* who ended and whom nobody may join any more.
LEMMA Reclaiming ==
    ASSUME NEW threads, Sound(threads)
    PROVE  /\ Sound(reclaimed(threads))
           /\ \A i \in Indices : threads[i].state = "Live" => reclaimed(threads)[i].state = "Live"
           /\ \A i : Kept(threads, i) => Kept(reclaimed(threads), i)
           /\ given(threads) \in Nat /\ given(threads) + Pieces(reclaimed(threads)) = Pieces(threads)
<1> DEFINE after == reclaimed(threads)
<1>1. \A i \in Indices : after[i] = IF goes(threads, i) THEN EMPTY ELSE threads[i]
  BY Zenon DEF reclaimed
<1>2. after \in [Indices -> Entry]
  <2>1. EMPTY \in Entry
    BY SMT DEF EMPTY, Entry
  <2>2. \A i \in Indices : after[i] \in Entry
    BY <1>1, <2>1, Zenon DEF Sound
  <2> QED BY <2>2, Zenon DEF reclaimed
<1>3. EMPTY.state = "Free" /\ EMPTY.stack = 0 /\ EMPTY.tls = 0
  BY DEF EMPTY
<1>4. \A i \in Indices : goes(threads, i) => threads[i].state = "Finished" /\ threads[i].reclaim
  BY Zenon DEF goes
<1>5. \A i \in Indices : threads[i].state = "Live" => after[i] = threads[i]
  BY <1>1, <1>4, Zenon DEF Sound
<1>6. Sound(after)
  BY <1>1, <1>2, <1>3, <1>5, IndicesFinite, Zenon DEF Sound
<1>7. \A i : Kept(threads, i) => Kept(after, i)
  BY <1>1, <1>4, Zenon DEF Kept
<1>8. ASSUME NEW S \in SUBSET Indices
      PROVE  /\ Cardinality(S) \in Nat /\ Cardinality({i \in S : goes(threads, i)}) \in Nat
             /\ Cardinality({i \in S : ~goes(threads, i)}) = Cardinality(S) - Cardinality({i \in S : goes(threads, i)})
  <2> DEFINE gone == {i \in S : goes(threads, i)}
  <2>1. S \cap gone = gone /\ S \ gone = {i \in S : ~goes(threads, i)} /\ gone \in SUBSET Indices
    BY Zenon
  <2> QED BY <2>1, IndicesFinite, FS_Difference, Zenon
<1>9. /\ Stacks(after) = {i \in Stacks(threads) : ~goes(threads, i)}
      /\ Blocks(after) = {i \in Blocks(threads) : ~goes(threads, i)}
  BY <1>1, <1>3, SMT DEF Stacks, Blocks
<1>10. Stacks(threads) \in SUBSET Indices /\ Blocks(threads) \in SUBSET Indices
  BY Zenon DEF Stacks, Blocks
<1>11. given(threads) \in Nat /\ given(threads) + Pieces(after) = Pieces(threads)
  <2> DEFINE sg == Cardinality({i \in Stacks(threads) : goes(threads, i)})
             bg == Cardinality({i \in Blocks(threads) : goes(threads, i)})
             sc == Cardinality(Stacks(threads))
             bc == Cardinality(Blocks(threads))
  <2>1. /\ sg \in Nat /\ bg \in Nat /\ sc \in Nat /\ bc \in Nat
        /\ Cardinality(Stacks(after)) = sc - sg /\ Cardinality(Blocks(after)) = bc - bg
    BY <1>8, <1>9, <1>10, Zenon
  <2>2. given(threads) = sg + bg /\ Pieces(threads) = sc + bc
    BY Zenon DEF given, Pieces
  <2>3. Pieces(after) = (sc - sg) + (bc - bg)
    BY <2>1, Zenon DEF Pieces
  <2> HIDE DEF sg, bg, sc, bc, after
  <2> QED BY <2>1, <2>2, <2>3, SMT
<1> QED BY <1>5, <1>6, <1>7, <1>11, Zenon

\* `reclaim_finished` on a table, but for the slots.
TakesBack(threads) == THREADS' = reclaimed(threads) /\ region' = region + given(threads)

\* A step that changes what the table says of its entries, takes back the entries that
\* have to go and hands the CPU to a live thread, keeps the memory of the threads.
LEMMA Passes ==
    ASSUME ThreadsInv, NEW threads, Sound(threads), Pieces(threads) = Pieces(THREADS),
           TakesBack(threads), Placed(threads, where', handles'),
           CURRENT' \in Indices, threads[CURRENT'].state = "Live"
    PROVE  ThreadsInv'
<1>1. THREADS' = reclaimed(threads) /\ region' = region + given(threads)
  BY Zenon DEF TakesBack
<1>2. Sound(THREADS)' /\ THREADS'[CURRENT'].state = "Live"
  BY <1>1, Reclaiming, Zenon DEF Sound
<1>3. Pieces(THREADS)' \in Int /\ region' \in Nat /\ region' + Pieces(THREADS)' = MEMORY
  <2>1. Pieces(THREADS)' = Pieces(reclaimed(threads))
    BY <1>1, Zenon DEF Pieces, Stacks, Blocks
  <2>2. Pieces(reclaimed(threads)) \in Nat
    BY Reclaiming, PiecesCount, Zenon
  <2>3. given(threads) \in Nat /\ given(threads) + Pieces(reclaimed(threads)) = Pieces(THREADS)
    BY Reclaiming, Zenon
  <2>4. region \in Nat /\ region + Pieces(THREADS) = MEMORY
    BY Zenon DEF ThreadsInv
  <2> QED BY <1>1, <2>1, <2>2, <2>3, <2>4, SMT
<1>4. Placed(THREADS, where, handles)'
  BY <1>1, Reclaiming, Zenon DEF Placed
<1> QED BY <1>2, <1>3, <1>4, Zenon DEF ThreadsInv

-----------------------------------------------------------------------------
(* The steps of the threads, one by one.                                   *)

\* A step that leaves the threads alone.
LEMMA NobodyMoves == ASSUME ThreadsInv, UNCHANGED sched PROVE ThreadsInv'
<1>1. THREADS' = THREADS /\ CURRENT' = CURRENT /\ where' = where /\ handles' = handles /\ region' = region
  BY Zenon DEF sched
<1>2. Pieces(THREADS)' = Pieces(THREADS)
  BY <1>1, Zenon DEF Pieces, Stacks, Blocks
<1> QED BY <1>1, <1>2, Zenon DEF ThreadsInv, Placed, Sound, Kept

\* The running thread comes out of what it was inside of.
LEMMA Returning == ASSUME ThreadsInv, stays, returns, handles' = handles PROVE ThreadsInv'
<1>1. THREADS' = THREADS /\ CURRENT' = CURRENT /\ region' = region
  BY Zenon DEF stays
<1>2. Pieces(THREADS)' = Pieces(THREADS)
  BY <1>1, Zenon DEF Pieces, Stacks, Blocks
<1>3. Runs \in Place /\ Runs.op = "run"
  BY IndicesFinite, SMT DEF Runs, Place
<1>4. where' = [where EXCEPT ![CURRENT] = Runs] /\ where \in [Indices -> Place] /\ CURRENT \in Indices
  BY Zenon DEF returns, ThreadsInv, Placed
<1>5. where' \in [Indices -> Place] /\ \A i \in Indices : where'[i] = IF i = CURRENT THEN Runs ELSE where[i]
  BY <1>3, <1>4, Zenon
<1>6. Placed(THREADS, where', handles)
  BY <1>3, <1>5, Zenon DEF ThreadsInv, Placed
<1> QED BY <1>1, <1>2, <1>6, Zenon DEF ThreadsInv, Placed, Sound, Kept

\* The CPU changes hands.
LEMMA Handing ==
    ASSUME ThreadsInv, schedule(THREADS), Placed(THREADS, where', handles')
    PROVE  ThreadsInv'
<1>1. TakesBack(THREADS) /\ CURRENT' = next_live(THREADS)
  BY Zenon DEF schedule, reclaim_finished, TakesBack
<1>2. Sound(THREADS) /\ CURRENT \in Indices /\ THREADS[CURRENT].state = "Live" /\ THREADS[0].state = "Live"
  BY Zenon DEF ThreadsInv, Sound
<1>3. CURRENT' \in Indices /\ THREADS[CURRENT'].state = "Live"
  BY <1>1, <1>2, NextLives, Zenon
<1> QED BY <1>1, <1>2, <1>3, Passes, Zenon

\* A wait that goes on.
LEMMA PollsAgain == ASSUME ThreadsInv, poll_again, handles' = handles PROVE ThreadsInv'
BY Handing, Zenon DEF poll_again, ThreadsInv

\* A wait begins, of another kind than a join.
LEMMA WaitBegins ==
    ASSUME ThreadsInv, NEW op \in {"sleep", "wait", "lock", "read", "write"},
           NEW limit \in {"none", "ahead"}, waits(op, 0, limit), handles' = handles
    PROVE  ThreadsInv'
<1> DEFINE there == [op |-> op, about |-> 0, limit |-> limit]
<1>1. there \in Place /\ there.op = op /\ op # "join"
  BY IndicesFinite, SMT DEF Place
<1>2. where' = [where EXCEPT ![CURRENT] = there] /\ where \in [Indices -> Place] /\ CURRENT \in Indices /\ schedule(THREADS)
  BY Zenon DEF waits, ThreadsInv, Placed
<1> HIDE DEF there
<1>3. where' \in [Indices -> Place] /\ \A i \in Indices : where'[i] = IF i = CURRENT THEN there ELSE where[i]
  BY <1>1, <1>2, Zenon
<1>4. Placed(THREADS, where', handles')
  BY <1>1, <1>3, Zenon DEF ThreadsInv, Placed
<1> QED BY <1>2, <1>4, Handing, Zenon

\* A new thread owns two pieces the allocator had.
LEMMA CreateStays == ASSUME ThreadsInv, create PROVE ThreadsInv'
<1> DEFINE new == Started(1)
<1>1. PICK x \in Indices :
         /\ THREADS[x].state = "Free" /\ region >= 2 /\ THREADS' = [THREADS EXCEPT ![x] = new]
         /\ where' = [where EXCEPT ![x] = Runs]
         /\ handles' = handles \union {x} /\ region' = region - 2
  BY Zenon DEF create
<1>2. CURRENT' = CURRENT /\ CURRENT \in Indices
  BY Zenon DEF create, ThreadsInv
<1>3. /\ new \in Entry /\ new.state = "Live" /\ ~new.reclaim /\ ~new.detached /\ new.stack = 1 /\ new.tls = 1
      /\ Runs \in Place /\ Runs.op = "run"
  <2>1. new = [state |-> "Live", detached |-> FALSE, reclaim |-> FALSE, stack |-> 1, tls |-> 1]
    BY Zenon DEF Started
  <2>2. Runs \in Place /\ Runs.op = "run"
    BY IndicesFinite, SMT DEF Runs, Place
  <2> HIDE DEF new
  <2>3. new \in Entry
    BY <2>1, SMT DEF Entry
  <2>4. new.state = "Live" /\ ~new.reclaim /\ ~new.detached /\ new.stack = 1 /\ new.tls = 1
    BY <2>1, Zenon
  <2> QED BY <2>2, <2>3, <2>4, Zenon
<1>4. THREADS \in [Indices -> Entry] /\ where \in [Indices -> Place] /\ THREADS[0].state = "Live"
      /\ THREADS[CURRENT].state = "Live" /\ THREADS[x] = EMPTY
  BY <1>1, Zenon DEF ThreadsInv, Sound, Placed
<1> HIDE DEF new
<1>5. THREADS' \in [Indices -> Entry] /\ \A i \in Indices : THREADS'[i] = IF i = x THEN new ELSE THREADS[i]
  BY <1>1, <1>3, <1>4, Zenon
<1>6. where' \in [Indices -> Place] /\ \A i \in Indices : where'[i] = IF i = x THEN Runs ELSE where[i]
  BY <1>1, <1>3, <1>4, Zenon
<1>7. "Live" # "Free" /\ x # 0 /\ x # CURRENT
  BY <1>1, <1>4
<1>8. Sound(THREADS)' /\ THREADS'[CURRENT'].state = "Live"
  BY <1>2, <1>3, <1>4, <1>5, <1>7, IndicesFinite, Zenon DEF Sound, ThreadsInv
<1>9. \A i : Kept(THREADS, i) => i # x /\ Kept(THREADS, i)'
  BY <1>1, <1>5, Zenon DEF Kept
<1>10. Kept(THREADS, x)'
  BY <1>3, <1>5, <1>7, Zenon DEF Kept
<1>11. Placed(THREADS, where, handles)'
  BY <1>1, <1>3, <1>5, <1>6, <1>9, <1>10, Zenon DEF Placed, ThreadsInv
<1>12. region' \in Nat /\ region' + Pieces(THREADS)' = MEMORY
  <2>1. EMPTY.stack = 0 /\ EMPTY.tls = 0
    BY DEF EMPTY
  <2>2. x \notin Stacks(THREADS) /\ x \notin Blocks(THREADS)
    BY <1>4, <2>1 DEF Stacks, Blocks
  <2>3. Stacks(THREADS)' = Stacks(THREADS) \union {x} /\ Blocks(THREADS)' = Blocks(THREADS) \union {x}
    BY <1>3, <1>5, Zenon DEF Stacks, Blocks
  <2>4. /\ IsFiniteSet(Stacks(THREADS)) /\ Cardinality(Stacks(THREADS)) \in Nat
        /\ IsFiniteSet(Blocks(THREADS)) /\ Cardinality(Blocks(THREADS)) \in Nat
    BY IndicesFinite, Stacks(THREADS) \in SUBSET Indices, Blocks(THREADS) \in SUBSET Indices, Zenon DEF Stacks, Blocks
  <2>5. /\ Cardinality(Stacks(THREADS))' = Cardinality(Stacks(THREADS)) + 1
        /\ Cardinality(Blocks(THREADS))' = Cardinality(Blocks(THREADS)) + 1
    BY <2>2, <2>3, <2>4, FS_AddElement, Zenon
  <2>6. region \in Nat /\ region + (Cardinality(Stacks(THREADS)) + Cardinality(Blocks(THREADS))) = MEMORY
    BY Zenon DEF ThreadsInv, Pieces
  <2> QED BY ONLY <1>1, <2>4, <2>5, <2>6, SMT DEF Pieces
<1> QED BY <1>2, <1>8, <1>11, <1>12, Zenon DEF ThreadsInv

\* An entry that changes what it says of itself, and not what it owns.
Relabelled(threads, x, new) ==
    /\ x \in Indices \ {0} /\ new \in Entry /\ new.state # "Free" /\ (new.state = "Live" => ~new.reclaim)
    /\ THREADS[x].state # "Free" /\ new.stack = THREADS[x].stack /\ new.tls = THREADS[x].tls
    /\ threads = [THREADS EXCEPT ![x] = new]

\* Such a change keeps the table sound and every piece of memory where it was.
LEMMA Relabels ==
    ASSUME ThreadsInv, NEW threads, NEW x, NEW new, Relabelled(threads, x, new)
    PROVE  /\ Sound(threads) /\ Pieces(threads) = Pieces(THREADS)
           /\ \A i \in Indices : threads[i] = IF i = x THEN new ELSE THREADS[i]
<1> USE DEF Relabelled
<1>1. THREADS \in [Indices -> Entry]
  BY Zenon DEF ThreadsInv, Sound
<1>2. threads \in [Indices -> Entry] /\ \A i \in Indices : threads[i] = IF i = x THEN new ELSE THREADS[i]
  BY <1>1, Zenon
<1>3. Stacks(threads) = Stacks(THREADS) /\ Blocks(threads) = Blocks(THREADS)
  BY <1>2, Zenon DEF Stacks, Blocks
<1>4. Sound(threads)
  BY <1>2, IndicesFinite, Zenon DEF Sound, ThreadsInv
<1> QED BY <1>2, <1>3, <1>4, Zenon DEF Pieces

\* A thread ends, and its memory goes at the next occasion if nobody will join it.
LEMMA MainStays == ASSUME ThreadsInv, pal_thread_main PROVE ThreadsInv'
<1> DEFINE new == [THREADS[CURRENT] EXCEPT !.state = "Finished", !.reclaim = reclaim(THREADS[CURRENT])]
           ended == [THREADS EXCEPT ![CURRENT] = new]
<1>1. TakesBack(ended) /\ CURRENT' = next_live(ended) /\ where' = where /\ handles' = handles
  BY Zenon DEF pal_thread_main, TakesBack, me
<1>2. CURRENT # 0 /\ CURRENT \in Indices /\ where[CURRENT].op = "run" /\ Sound(THREADS) /\ THREADS[CURRENT] \in Entry
      /\ THREADS[CURRENT].state = "Live"
  BY Zenon DEF pal_thread_main, Running, ThreadsInv, Sound
<1>3. /\ new \in Entry /\ new.state = "Finished" /\ new.reclaim = THREADS[CURRENT].detached
      /\ new.detached = THREADS[CURRENT].detached /\ new.stack = THREADS[CURRENT].stack /\ new.tls = THREADS[CURRENT].tls
  <2>1. new \in Entry
    BY <1>2, "Finished" \in {"Free", "Live", "Finished"}, reclaim(THREADS[CURRENT]) \in BOOLEAN, Zenon DEF Entry, reclaim
  <2>2. /\ new.state = "Finished" /\ new.reclaim = THREADS[CURRENT].detached
        /\ new.detached = THREADS[CURRENT].detached /\ new.stack = THREADS[CURRENT].stack /\ new.tls = THREADS[CURRENT].tls
    BY <1>2, Zenon DEF Entry, reclaim
  <2> QED BY <2>1, <2>2, Zenon
<1> HIDE DEF new
<1>4. /\ Sound(ended) /\ Pieces(ended) = Pieces(THREADS)
      /\ \A i \in Indices : ended[i] = IF i = CURRENT THEN new ELSE THREADS[i]
  <2>1. new.state # "Free" /\ (new.state = "Live" => ~new.reclaim) /\ THREADS[CURRENT].state # "Free"
    BY <1>2, <1>3
  <2>2. Relabelled(ended, CURRENT, new)
    BY <2>1, <1>2, <1>3, Zenon DEF Relabelled
  <2> HIDE DEF ended
  <2> QED BY <2>2, Relabels, Zenon
<1> HIDE DEF ended
<1>5. \A i : Kept(THREADS, i) => Kept(ended, i)
  BY <1>3, <1>4, "Finished" # "Free" DEF Kept
<1>6. Placed(ended, where', handles')
  BY <1>1, <1>2, <1>4, <1>5, Zenon DEF ThreadsInv, Placed
<1>7. CURRENT' \in Indices /\ ended[CURRENT'].state = "Live"
  BY <1>1, <1>2, <1>4, NextLives, Zenon DEF Sound
<1> QED BY <1>1, <1>4, <1>6, <1>7, Passes, Zenon

\* Who is joined has ended, and its memory goes with the join.
LEMMA JoinedStays ==
    ASSUME ThreadsInv, NEW x, Kept(THREADS, x), THREADS[x].state = "Finished", joined(x),
           Placed(THREADS, where', handles'), x \notin handles',
           \A i \in Indices : where'[i].op = "join" => where'[i].about # x
    PROVE  ThreadsInv'
<1> DEFINE new == [THREADS[x] EXCEPT !.reclaim = TRUE]
           threads == [THREADS EXCEPT ![x] = new]
<1>1. TakesBack(threads) /\ CURRENT' = CURRENT
  BY Zenon DEF joined, reclaim_finished, TakesBack
<1>2. x \in Indices /\ x # 0 /\ THREADS[x] \in Entry /\ CURRENT \in Indices /\ THREADS[CURRENT].state = "Live"
  BY Zenon DEF Kept, ThreadsInv, Sound
<1>3. new \in Entry /\ new.state = "Finished" /\ new.stack = THREADS[x].stack /\ new.tls = THREADS[x].tls
  BY <1>2, Zenon DEF Entry
<1> HIDE DEF new
<1>4. /\ Sound(threads) /\ Pieces(threads) = Pieces(THREADS)
      /\ \A i \in Indices : threads[i] = IF i = x THEN new ELSE THREADS[i]
  <2>1. new.state # "Free" /\ (new.state = "Live" => ~new.reclaim) /\ THREADS[x].state # "Free"
    BY <1>2, <1>3
  <2>2. Relabelled(threads, x, new)
    BY <2>1, <1>2, <1>3, Zenon DEF Relabelled
  <2> HIDE DEF threads
  <2> QED BY ONLY ThreadsInv, <2>2, Relabels, Zenon
<1> HIDE DEF threads
<1>5. \A i : Kept(THREADS, i) /\ i # x => Kept(threads, i)
  BY <1>4, Zenon DEF Kept
<1>6. \A i \in Indices : THREADS[i].state = "Live" => threads[i].state = "Live"
  BY <1>4, "Live" # "Finished"
<1>7. Placed(threads, where', handles')
  BY <1>5, <1>6, Zenon DEF Placed
<1> QED BY <1>1, <1>2, <1>4, <1>6, <1>7, Passes, Zenon

\* A join that has to wait.
LEMMA JoinBegins ==
    ASSUME ThreadsInv, NEW x \in handles, handles' = handles \ {x}, waits("join", x, "none")
    PROVE  ThreadsInv'
<1> DEFINE there == [op |-> "join", about |-> x, limit |-> "none"]
<1>1. Kept(THREADS, x) /\ x \in Indices
  BY Zenon DEF ThreadsInv, Placed, Kept
<1>2. there \in Place /\ there.op = "join" /\ there.about = x
  BY <1>1, SMT DEF Place
<1>3. where' = [where EXCEPT ![CURRENT] = there] /\ where \in [Indices -> Place] /\ CURRENT \in Indices /\ schedule(THREADS)
  BY Zenon DEF waits, ThreadsInv, Placed
<1> HIDE DEF there
<1>4. where' \in [Indices -> Place] /\ \A i \in Indices : where'[i] = IF i = CURRENT THEN there ELSE where[i]
  BY <1>2, <1>3, Zenon
<1>5. \A i \in Indices : where'[i].op # "run" => THREADS[i].state = "Live"
  BY <1>4, Zenon DEF ThreadsInv, Placed
<1>6. \A i \in handles' : Kept(THREADS, i)
  BY Zenon DEF ThreadsInv, Placed
<1>7. \A i \in Indices : where'[i].op = "join" => Kept(THREADS, where'[i].about) /\ where'[i].about \notin handles'
  BY <1>1, <1>2, <1>4, Zenon DEF ThreadsInv, Placed
<1>8. \A i, j \in Indices : i # j /\ where'[i].op = "join" /\ where'[j].op = "join" => where'[i].about # where'[j].about
  BY <1>2, <1>4, Zenon DEF ThreadsInv, Placed
<1>9. Placed(THREADS, where', handles')
  BY <1>4, <1>5, <1>6, <1>7, <1>8, Zenon DEF Placed
<1> QED BY <1>3, <1>9, Handing, Zenon

\* A handle is spent by the join or the detach it is given to.
LEMMA HandleSpent ==
    ASSUME ThreadsInv, NEW x \in handles, NEW h, h = handles \ {x}
    PROVE  /\ Placed(THREADS, where, h) /\ Kept(THREADS, x) /\ x \in Indices /\ x # 0
           /\ \A i \in Indices : where[i].op = "join" => where[i].about # x
BY Zenon DEF ThreadsInv, Placed, Kept

\* `join`: of a thread that has ended, or has not.
LEMMA JoinStays == ASSUME ThreadsInv, join PROVE ThreadsInv'
<1>1. PICK x \in handles :
         /\ handles' = handles \ {x}
         /\ IF THREADS[x].state = "Finished" THEN joined(x) /\ UNCHANGED where ELSE waits("join", x, "none")
  BY Zenon DEF join
<1>2. CASE THREADS[x].state = "Finished"
  <2>1. joined(x) /\ where' = where
    BY <1>1, <1>2, Zenon
  <2>2. /\ Placed(THREADS, where, handles') /\ Kept(THREADS, x) /\ x \notin handles'
        /\ \A i \in Indices : where[i].op = "join" => where[i].about # x
    BY <1>1, HandleSpent, Zenon
  <2>3. Placed(THREADS, where', handles') /\ \A i \in Indices : where'[i].op = "join" => where'[i].about # x
    BY <2>1, <2>2, Zenon DEF Placed
  <2> QED BY <2>1, <2>2, <2>3, <1>2, JoinedStays, Zenon
<1> QED BY <1>1, <1>2, JoinBegins, Zenon

\* A join that has waited.
LEMMA JoinPollStays == ASSUME ThreadsInv, join_poll PROVE ThreadsInv'
<1> DEFINE x == where[CURRENT].about
<1>1. /\ where[CURRENT].op = "join" /\ CURRENT \in Indices /\ handles' = handles
      /\ IF THREADS[x].state = "Finished" THEN returns /\ joined(x) ELSE poll_again
  BY Zenon DEF join_poll, Poll, me, ThreadsInv
<1>2. CASE THREADS[x].state = "Finished"
  <2>1. returns /\ joined(x)
    BY <1>1, <1>2, Zenon
  <2>2. Runs \in Place /\ Runs.op = "run"
    BY IndicesFinite, SMT DEF Runs, Place
  <2>3. where' \in [Indices -> Place] /\ \A i \in Indices : where'[i] = IF i = CURRENT THEN Runs ELSE where[i]
    BY <1>1, <2>1, <2>2, Zenon DEF returns, ThreadsInv, Placed
  <2>4. Kept(THREADS, x) /\ x \notin handles' /\ \A i \in Indices : where'[i].op = "join" => where'[i].about # x
    BY <1>1, <2>2, <2>3, "run" # "join", Zenon DEF ThreadsInv, Placed
  <2>5. Placed(THREADS, where', handles')
    BY <1>1, <2>2, <2>3, "run" # "join", Zenon DEF ThreadsInv, Placed
  <2>6. PICK y : y = x
    OBVIOUS
  <2> QED BY <2>1, <2>4, <2>5, <2>6, <1>2, JoinedStays, Zenon
<1> QED BY <1>1, <1>2, PollsAgain, Zenon

\* `detach`: the entry of a thread that has ended goes, another's when it ends.
LEMMA DetachStays == ASSUME ThreadsInv, detach PROVE ThreadsInv'
<1>1. PICK x \in handles :
         /\ handles' = handles \ {x}
         /\ LET ended == THREADS[x].state = "Finished"
                detached == [THREADS EXCEPT ![x] = [@ EXCEPT !.detached = TRUE, !.reclaim = ended]]
            IN IF ended THEN reclaim_finished(detached) ELSE THREADS' = detached /\ UNCHANGED <<region, slots>>
  BY Zenon DEF detach
<1> DEFINE ended == THREADS[x].state = "Finished"
           new == [THREADS[x] EXCEPT !.detached = TRUE, !.reclaim = ended]
<1>2. PICK threads : threads = [THREADS EXCEPT ![x] = new]
  OBVIOUS
<1>3. /\ CURRENT' = CURRENT /\ where' = where
      /\ IF ended THEN reclaim_finished(threads) ELSE THREADS' = threads /\ region' = region
  BY <1>1, <1>2, Zenon DEF detach
<1>4. /\ Placed(THREADS, where, handles') /\ Kept(THREADS, x) /\ x \in Indices /\ x # 0 /\ x \notin handles'
      /\ \A i \in Indices : where[i].op = "join" => where[i].about # x
  BY <1>1, HandleSpent, Zenon
<1>5. THREADS[x] \in Entry /\ THREADS[x].state # "Free" /\ CURRENT \in Indices /\ THREADS[CURRENT].state = "Live"
  BY <1>4, Zenon DEF ThreadsInv, Sound, Kept
<1>6. /\ new \in Entry /\ new.state = THREADS[x].state /\ new.reclaim = ended
      /\ new.stack = THREADS[x].stack /\ new.tls = THREADS[x].tls
  <2>1. ended \in BOOLEAN
    BY Zenon
  <2> HIDE DEF ended
  <2> QED BY <1>5, <2>1, Zenon DEF Entry
<1>7. new.state = "Live" => ~new.reclaim
  BY <1>6, "Live" # "Finished"
<1> HIDE DEF new
<1>8. /\ Sound(threads) /\ Pieces(threads) = Pieces(THREADS)
      /\ \A i \in Indices : threads[i] = IF i = x THEN new ELSE THREADS[i]
  <2>1. new.state # "Free"
    BY <1>5, <1>6, Zenon
  <2>2. Relabelled(threads, x, new)
    BY <2>1, <1>2, <1>4, <1>5, <1>6, <1>7, Zenon DEF Relabelled
  <2> QED BY <2>2, Relabels, Zenon
<1>9. \A i : Kept(THREADS, i) /\ i # x => Kept(threads, i)
  BY <1>8, Zenon DEF Kept
<1>10. \A i \in Indices : THREADS[i].state = "Live" => threads[i].state = "Live"
  BY <1>6, <1>8, Zenon
<1>11. Placed(threads, where', handles')
  BY <1>3, <1>4, <1>9, <1>10, Zenon DEF Placed
<1>12. CURRENT' \in Indices /\ threads[CURRENT'].state = "Live"
  BY <1>3, <1>5, <1>10, Zenon
<1>13. CASE ended
  <2>1. TakesBack(threads)
    BY <1>3, <1>13, Zenon DEF reclaim_finished, TakesBack
  <2> QED BY <2>1, <1>8, <1>11, <1>12, Passes, Zenon
<1>14. CASE ~ended
  <2>1. THREADS' = threads /\ region' = region
    BY <1>3, <1>14, Zenon
  <2>2. Sound(THREADS)' /\ Placed(THREADS, where, handles)' /\ Pieces(THREADS)' = Pieces(threads)
    BY <2>1, <1>8, <1>11, Zenon DEF Sound, Placed, Pieces, Stacks, Blocks, Kept
  <2> QED BY <2>1, <2>2, <1>8, <1>12, Zenon DEF ThreadsInv
<1> QED BY <1>13, <1>14, Zenon

\* The deadline of a wait.
LEMMA TickStays == ASSUME ThreadsInv, NEW x \in Indices, Tick(x) PROVE ThreadsInv'
<1>1. /\ THREADS' = THREADS /\ CURRENT' = CURRENT /\ handles' = handles /\ region' = region
      /\ where' = [where EXCEPT ![x].limit = "past"] /\ where \in [Indices -> Place]
  BY Zenon DEF Tick, ThreadsInv, Placed
<1>2. PICK new : new = [where[x] EXCEPT !.limit = "past"]
  OBVIOUS
<1>3. new \in Place /\ new.op = where[x].op /\ new.about = where[x].about
  <2>1. PICK old \in Place : old = where[x]
    BY <1>1, Zenon
  <2>2. new \in Place
    BY <1>2, <2>1, "past" \in {"none", "ahead", "past"}, Zenon DEF Place
  <2>3. new.op = old.op /\ new.about = old.about
    BY <1>2, <2>1, Zenon DEF Place
  <2> QED BY <2>1, <2>2, <2>3, Zenon
<1>4. where' \in [Indices -> Place] /\ \A i \in Indices : where'[i] = IF i = x THEN new ELSE where[i]
  BY <1>1, <1>2, <1>3, Zenon
<1>5. \A i \in Indices : where'[i].op = where[i].op /\ where'[i].about = where[i].about
  BY <1>3, <1>4, Zenon
<1>6. Placed(THREADS, where', handles)
  <2>1. Placed(THREADS, where, handles)
    BY Zenon DEF ThreadsInv
  <2>2. \A i \in Indices : where'[i].op # "run" => THREADS[i].state = "Live"
    BY <2>1, <1>5, Zenon DEF Placed
  <2>3. \A i \in Indices : where'[i].op = "join" => Kept(THREADS, where'[i].about) /\ where'[i].about \notin handles
    BY <2>1, <1>5, Zenon DEF Placed
  <2>4. \A i, j \in Indices : i # j /\ where'[i].op = "join" /\ where'[j].op = "join" => where'[i].about # where'[j].about
    <3>1. ASSUME NEW i \in Indices, NEW j \in Indices, i # j, where'[i].op = "join", where'[j].op = "join"
          PROVE  where'[i].about # where'[j].about
      <4>1. where[i].op = "join" /\ where[j].op = "join"
        BY <1>5, <3>1, Zenon
      <4>2. where[i].about # where[j].about
        BY <2>1, <3>1, <4>1, Zenon DEF Placed
      <4> QED BY <1>5, <4>2, Zenon
    <3> QED BY <3>1, Zenon
  <2> QED BY <1>4, <2>1, <2>2, <2>3, <2>4, Zenon DEF Placed
<1>7. Pieces(THREADS)' = Pieces(THREADS)
  BY <1>1, Zenon DEF Pieces, Stacks, Blocks
<1>8. Placed(THREADS, where, handles)'
  <2>1. THREADS' = THREADS /\ handles' = handles
    BY <1>1, Zenon
  <2> QED BY ONLY <2>1, <1>6, Zenon DEF Placed, Kept
<1> QED BY <1>1, <1>7, <1>8, Zenon DEF ThreadsInv, Sound

-----------------------------------------------------------------------------
\* Every step keeps the memory of the threads.
LEMMA ThreadsStay == ThreadsInv /\ [BareNext]_bare => ThreadsInv'
<1> SUFFICES ASSUME ThreadsInv, [BareNext]_bare PROVE ThreadsInv'
  BY Zenon
<1>1. CASE UNCHANGED bare
  BY <1>1, NobodyMoves, Zenon DEF bare
<1>2. CASE ThreadSteps
  <2>1. CASE yield_now
    BY <2>1, PollsAgain, Zenon DEF yield_now
  <2> QED BY <1>2, <2>1, CreateStays, MainStays, JoinStays, JoinPollStays, DetachStays, Zenon DEF ThreadSteps
<1>3. CASE SleepSteps
  <2>1. CASE sleep_ns
    BY <2>1, WaitBegins, Zenon DEF sleep_ns
  <2>2. CASE sleep_poll
    BY <2>2, Returning, PollsAgain, Zenon DEF sleep_poll
  <2> QED BY <1>3, <2>1, <2>2, Zenon DEF SleepSteps
<1>4. ASSUME stays, where' = where, handles' = handles PROVE ThreadsInv'
  BY <1>4, NobodyMoves, Zenon DEF stays, sched
<1>5. CASE EventSteps
  <2>1. CASE event_wait
    <3>1. CASE event.signaled
      BY <2>1, <3>1, <1>4, Zenon DEF event_wait, objects
    <3>2. CASE ~event.signaled
      <4>1. PICK limit \in {"none", "ahead"} : waits("wait", 0, limit)
        BY <2>1, <3>2, Zenon DEF event_wait
      <4>2. handles' = handles
        BY <2>1, Zenon DEF event_wait, objects
      <4> QED BY <4>1, <4>2, WaitBegins, Zenon
    <3> QED BY <3>1, <3>2, Zenon
  <2>2. CASE event_poll
    BY <2>2, Returning, PollsAgain, Zenon DEF event_poll, wait_ends, objects
  <2>3. CASE event_create \/ event_destroy \/ event_set \/ event_reset
    BY <2>3, <1>4, Zenon DEF event_create, event_destroy, event_set, event_reset, objects
  <2> QED BY <1>5, <2>1, <2>2, <2>3, Zenon DEF EventSteps
<1>6. CASE MutexSteps
  <2>1. CASE mutex_lock
    <3>1. (stays /\ where' = where) \/ waits("lock", 0, "none")
      BY <2>1, Zenon DEF mutex_lock
    <3>2. handles' = handles
      BY <2>1, Zenon DEF mutex_lock, objects
    <3> QED BY <3>1, <3>2, <1>4, WaitBegins, Zenon
  <2>2. CASE mutex_poll
    BY <2>2, Returning, PollsAgain, Zenon DEF mutex_poll, objects
  <2>3. CASE mutex_create \/ mutex_destroy \/ mutex_unlock
    BY <2>3, <1>4, Zenon DEF mutex_create, mutex_destroy, mutex_unlock, objects
  <2> QED BY <1>6, <2>1, <2>2, <2>3, Zenon DEF MutexSteps
<1>7. CASE RwLockSteps
  <2>1. ASSUME NEW op \in {"read", "write"}, rw_lock(op) PROVE ThreadsInv'
    BY <2>1, <1>4, WaitBegins, Zenon DEF rw_lock, objects
  <2>2. ASSUME NEW op \in {"read", "write"}, rw_poll(op) PROVE ThreadsInv'
    BY <2>2, Returning, PollsAgain, Zenon DEF rw_poll, objects
  <2>3. CASE rw_create \/ rw_destroy \/ rw_unlock
    BY <2>3, <1>4, Zenon DEF rw_create, rw_destroy, rw_unlock, objects
  <2> QED BY <1>7, <2>1, <2>2, <2>3, Zenon DEF RwLockSteps, read, write
<1>8. CASE KeySteps
  BY <1>8, NobodyMoves, Zenon DEF KeySteps, tls_create, tls_destroy, tls_set
<1> QED BY <1>1, <1>2, <1>3, <1>5, <1>6, <1>7, <1>8, TickStays, Zenon DEF BareNext

\* A slot takes what its key was given, or nothing.
LEMMA SlotsStay == SlotsInv /\ [BareNext]_bare => SlotsInv'
<1> SUFFICES ASSUME SlotsInv, [BareNext]_bare PROVE SlotsInv'
  BY Zenon
<1>1. ASSUME slots' \in [Indices -> Nat], KEYS' = KEYS, generation' = generation,
             \A i \in Indices : slots'[i] \in {0, slots[i], generation}
      PROVE  SlotsInv'
  BY <1>1, Zenon DEF SlotsInv
<1>2. ASSUME slots' = slots, KEYS' = KEYS, generation' = generation PROVE SlotsInv'
  BY <1>2, Zenon DEF SlotsInv
<1>3. ASSUME NEW threads, reclaim_finished(threads)
      PROVE  slots' \in [Indices -> Nat] /\ \A i \in Indices : slots'[i] \in {0, slots[i], generation}
  BY <1>3, 0 \in Nat, Zenon DEF reclaim_finished, SlotsInv
<1>4. ASSUME schedule(THREADS) \/ slots' = slots, KEYS' = KEYS, generation' = generation PROVE SlotsInv'
  BY <1>1, <1>2, <1>3, <1>4, Zenon DEF schedule
<1>5. CASE UNCHANGED bare
  BY <1>2, <1>5, Zenon DEF bare, tls
<1>6. CASE create
  <2>1. PICK x \in Indices : slots' = [slots EXCEPT ![x] = 0]
    BY <1>6, Zenon DEF create
  <2> QED BY <1>1, <1>6, <2>1, 0 \in Nat, Zenon DEF create, SlotsInv
<1>7. CASE pal_thread_main
  <2>1. KEYS' = KEYS /\ generation' = generation
    BY <1>7, Zenon DEF pal_thread_main
  <2>2. \A v, sets : run_destructors(v, sets) \in {0, generation}
    BY Zenon DEF run_destructors
  <2> DEFINE ended == [THREADS EXCEPT ![CURRENT] = [@ EXCEPT !.state = "Finished", !.reclaim = reclaim(THREADS[CURRENT])]]
  <2>3. PICK sets :
          slots' = [i \in Indices |-> IF goes(ended, i) THEN 0 ELSE IF i = CURRENT THEN run_destructors(slots[i], sets) ELSE slots[i]]
    BY <1>7, Zenon DEF pal_thread_main, me
  <2> HIDE DEF ended
  <2>4. slots' \in [Indices -> Nat] /\ \A i \in Indices : slots'[i] \in {0, slots[i], generation}
    BY <2>2, <2>3, 0 \in Nat, Zenon DEF SlotsInv
  <2> QED BY <1>1, <2>1, <2>4, Zenon
<1>8. CASE join \/ join_poll
  BY <1>1, <1>3, <1>4, <1>8, Zenon DEF join, join_poll, joined, waits, poll_again
<1>9. CASE detach
  BY <1>1, <1>2, <1>3, <1>9, Zenon DEF detach
<1>10. CASE yield_now \/ SleepSteps
  BY <1>4, <1>10, Zenon DEF yield_now, SleepSteps, sleep_ns, sleep_poll, waits, poll_again, stays
<1>11. CASE EventSteps
  BY <1>4, <1>11, Zenon DEF EventSteps, event_create, event_destroy, event_set, event_reset, event_wait, event_poll,
       wait_ends, waits, poll_again, stays, objects
<1>12. CASE MutexSteps
  BY <1>4, <1>12, Zenon DEF MutexSteps, mutex_create, mutex_destroy, mutex_lock, mutex_poll, mutex_unlock,
       waits, poll_again, stays, objects
<1>13. CASE RwLockSteps
  BY <1>4, <1>13, Zenon DEF RwLockSteps, rw_create, rw_destroy, read, write, rw_lock, rw_poll, rw_unlock,
       waits, poll_again, stays, objects
<1>14. CASE tls_create
  <2>1. generation' = generation + 1 /\ slots' = [i \in Indices |-> 0]
    BY <1>14, Zenon DEF tls_create, cleared
  <2>2. generation' \in Nat
    BY <2>1, SMT DEF SlotsInv
  <2> QED BY <2>1, <2>2, 0 \in Nat, Zenon DEF SlotsInv
<1>15. CASE tls_destroy
  <2>1. ~KEYS'.used /\ slots' = slots /\ generation' = generation
    BY <1>15, Zenon DEF tls_destroy, NoKey
  <2> QED BY <2>1, Zenon DEF SlotsInv
<1>16. CASE tls_set
  <2>1. PICK v \in {0, generation} : slots' = [slots EXCEPT ![CURRENT] = v]
    BY <1>16, Zenon DEF tls_set, me
  <2> QED BY <1>1, <1>16, <2>1, 0 \in Nat, Zenon DEF tls_set, SlotsInv
<1>17. CASE \E i \in Indices : Tick(i)
  BY <1>2, <1>17, Zenon DEF Tick, tls
<1> QED
  BY <1>5, <1>6, <1>7, <1>8, <1>9, <1>10, <1>11, <1>12, <1>13, <1>14, <1>15, <1>16, <1>17, Zenon DEF BareNext, ThreadSteps, KeySteps

\* The boot thread stands on its own stack, with the one TLS block.
LEMMA BareBegins == BareInit => BareInv
<1> SUFFICES ASSUME BareInit PROVE BareInv
  BY Zenon
<1>1. /\ THREADS = [i \in Indices |-> IF i = 0 THEN Started(0) ELSE EMPTY] /\ region = MEMORY - 1 /\ CURRENT = 0
      /\ where = [i \in Indices |-> Runs] /\ handles = {} /\ slots = [i \in Indices |-> 0] /\ generation = 0 /\ ~KEYS.used
  BY Zenon DEF BareInit, init_boot_thread, NoKey
<1>2. Started(0) \in Entry /\ EMPTY \in Entry /\ Runs \in Place
  BY IndicesFinite, SMT DEF Started, EMPTY, Entry, Runs, Place
<1>3. /\ Started(0).state = "Live" /\ ~Started(0).reclaim /\ Started(0).tls = 1 /\ Started(0).stack = 0
      /\ EMPTY.state = "Free" /\ EMPTY.tls = 0 /\ EMPTY.stack = 0 /\ Runs.op = "run" /\ "Live" # "Free" /\ "run" # "join"
  BY DEF Started, EMPTY, Runs
<1>4. \A i \in Indices : THREADS[i] = IF i = 0 THEN Started(0) ELSE EMPTY
  BY <1>1, Zenon
<1>5. Sound(THREADS)
  <2>1. THREADS \in [Indices -> Entry]
    BY <1>1, <1>2, Zenon
  <2> QED BY <2>1, <1>3, <1>4, IndicesFinite, Zenon DEF Sound
<1>6. Placed(THREADS, where, handles)
  BY <1>1, <1>2, <1>3, Zenon DEF Placed
<1>7. region \in Nat /\ region + Pieces(THREADS) = MEMORY
  <2>1. Stacks(THREADS) = {} /\ Blocks(THREADS) = {0}
    <3>1. \A i \in Indices : THREADS[i].stack = 0 /\ (THREADS[i].tls = 1 <=> i = 0)
      BY <1>3, <1>4, 0 # 1, Zenon
    <3> QED BY <3>1, IndicesFinite, 0 # 1, Zenon DEF Stacks, Blocks
  <2>2. Cardinality(Stacks(THREADS)) = 0 /\ Cardinality(Blocks(THREADS)) = 1
    BY <2>1, FS_EmptySet, FS_Singleton, Zenon
  <2> QED BY <1>1, <2>2, BootFits, SMT DEF Pieces
<1>8. SlotsInv
  BY <1>1, 0 \in Nat, Zenon DEF SlotsInv
<1> QED BY <1>1, <1>3, <1>4, <1>5, <1>6, <1>7, <1>8, IndicesFinite, Zenon DEF BareInv, ThreadsInv

\* A stack belongs to a thread or to the allocator, whoever runs, joins, detaches and
\* ends, in a table and a memory of any size: nobody that will run again has lost its
\* own, and no thread finds another's value in a slot (`reclaim_finished`, `tls_create`).
THEOREM StacksStayOwned == BareSpec => []StacksAreOwned
<1>1. BareInv => StacksAreOwned
  BY Zenon DEF BareInv, ThreadsInv, SlotsInv, StacksAreOwned, Sound, Placed, Kept, Pieces, Held
<1>2. BareInv /\ [BareNext]_bare => BareInv'
  BY ThreadsStay, SlotsStay, Zenon DEF BareInv
<1> QED BY <1>1, <1>2, BareBegins, PTL DEF BareSpec

-----------------------------------------------------------------------------
(* The cooperative event and mutex implement Events and Mutexes.           *)

\* The event counts the threads that wait for it, and is not destroyed under them.
EventInv ==
    /\ event \in [used : BOOLEAN, manual : BOOLEAN, signaled : BOOLEAN, waiters : Nat]
    /\ event.waiters = Cardinality(Waiting("wait"))
    /\ Waiting("wait") # {} => event.used

\* The mutex counts its holder's levels and the threads that wait for it; a free entry
\* is nobody's.
MutexInv ==
    /\ bare_mutex \in [used : BOOLEAN, recursive : BOOLEAN, owner : Indices \union {NOBODY}, depth : Nat, users : Nat]
    /\ bare_mutex.users = bare_mutex.depth + Cardinality(Waiting("lock"))
    /\ bare_mutex.owner = NOBODY <=> bare_mutex.depth = 0
    /\ ~bare_mutex.used => bare_mutex.users = 0

\* The waits that have a limit.
Limited(op) == {i \in Waiting(op) : where[i].limit # "none"}

\* A step that neither begins nor ends a wait of the kind.
Elsewhere(op) ==
    \A i \in Indices :
        /\ where'[i].op = op <=> where[i].op = op
        /\ where[i].op = op => (where'[i].limit = "none" <=> where[i].limit = "none")

\* Such a step leaves those who wait as they are.
LEMMA SameWaits ==
    ASSUME NEW op, Elsewhere(op)
    PROVE  Waiting(op)' = Waiting(op) /\ Limited(op)' = Limited(op)
BY Zenon DEF Elsewhere, Waiting, Limited

\* What a thread's place becomes, for the others and for itself.
LEMMA PlaceMoves ==
    ASSUME ThreadsInv, NEW x \in Indices, NEW there, where' = [where EXCEPT ![x] = there]
    PROVE  /\ \A op : where[x].op # op /\ there.op # op => Elsewhere(op)
           /\ \A op : where[x].op # op /\ there.op = op =>
                /\ x \notin Waiting(op) /\ Waiting(op)' = Waiting(op) \union {x}
                /\ Limited(op)' = IF there.limit = "none" THEN Limited(op) ELSE Limited(op) \union {x}
           /\ \A op : where[x].op = op /\ there.op # op =>
                x \in Waiting(op) /\ Waiting(op)' = Waiting(op) \ {x} /\ Limited(op)' = Limited(op) \ {x}
<1>1. \A i \in Indices : where'[i] = IF i = x THEN there ELSE where[i]
  BY Zenon DEF ThreadsInv, Placed
<1>2. ASSUME NEW op, where[x].op # op, there.op # op PROVE Elsewhere(op)
  BY <1>1, <1>2, Zenon DEF Elsewhere
<1>3. ASSUME NEW op, where[x].op # op, there.op = op
      PROVE  /\ x \notin Waiting(op) /\ Waiting(op)' = Waiting(op) \union {x}
             /\ Limited(op)' = IF there.limit = "none" THEN Limited(op) ELSE Limited(op) \union {x}
  <2>1. x \notin Waiting(op) /\ Waiting(op)' = Waiting(op) \union {x}
    BY <1>1, <1>3, Zenon DEF Waiting
  <2>2. CASE there.limit = "none"
    BY ONLY <2>1, <2>2, <1>1, <1>3, x \in Indices, Zenon DEF Limited, Waiting
  <2>3. CASE there.limit # "none"
    BY ONLY <2>1, <2>3, <1>1, <1>3, x \in Indices, Zenon DEF Limited, Waiting
  <2> QED BY <2>1, <2>2, <2>3, Zenon
<1>4. ASSUME NEW op, where[x].op = op, there.op # op
      PROVE  x \in Waiting(op) /\ Waiting(op)' = Waiting(op) \ {x} /\ Limited(op)' = Limited(op) \ {x}
  <2>1. x \in Waiting(op) /\ Waiting(op)' = Waiting(op) \ {x}
    BY <1>1, <1>4, Zenon DEF Waiting
  <2> QED BY ONLY <2>1, <1>1, <1>4, x \in Indices, Zenon DEF Limited, Waiting
<1> QED BY <1>2, <1>3, <1>4, Zenon

\* A step that leaves the places alone, and one that comes out of another wait.
LEMMA OtherPlaces ==
    ASSUME ThreadsInv, NEW op \in {"wait", "lock"}
    PROVE  /\ where' = where => Elsewhere(op)
           /\ Running /\ (\E other, about, limit : other # op /\ waits(other, about, limit)) => Elsewhere(op)
           /\ where[CURRENT].op # op /\ returns => Elsewhere(op)
           /\ poll_again => Elsewhere(op)
<1>0. CURRENT \in Indices /\ Runs.op = "run" /\ op # "run"
  BY DEF ThreadsInv, Runs
<1>1. where' = where => Elsewhere(op)
  BY Zenon DEF Elsewhere
<1>2. ASSUME Running, NEW other, NEW about, NEW limit, other # op, waits(other, about, limit) PROVE Elsewhere(op)
  <2> DEFINE there == [op |-> other, about |-> about, limit |-> limit]
  <2>1. there.op = other /\ where' = [where EXCEPT ![CURRENT] = there] /\ where[CURRENT].op # op
    BY <1>0, <1>2, Zenon DEF waits, Running
  <2> HIDE DEF there
  <2> QED BY <1>0, <1>2, <2>1, PlaceMoves, Zenon
<1>3. ASSUME where[CURRENT].op # op, returns PROVE Elsewhere(op)
  BY <1>0, <1>3, PlaceMoves, Zenon DEF returns
<1> QED BY <1>1, <1>2, <1>3, Zenon DEF poll_again

\* The steps of the threads, of sleep, of the reader-writer lock, of the keys and of
\* time begin and end no wait for an event or a mutex.
LEMMA OtherSteps ==
    ASSUME ThreadsInv, NEW op \in {"wait", "lock"},
           UNCHANGED bare \/ ThreadSteps \/ SleepSteps \/ RwLockSteps \/ KeySteps \/ \E i \in Indices : Tick(i)
    PROVE  Elsewhere(op) /\ event' = event /\ bare_mutex' = bare_mutex
<1>0. op # "run" /\ op # "join" /\ op # "sleep" /\ op # "read" /\ op # "write" /\ Runs.op = "run"
  BY DEF Runs
<1>1. CASE UNCHANGED bare
  BY <1>1, OtherPlaces, Zenon DEF bare, sched
<1>2. CASE create
  <2>1. PICK x \in Indices : THREADS[x].state = "Free" /\ where' = [where EXCEPT ![x] = Runs]
    BY <1>2, Zenon DEF create
  <2>2. where[x].op = "run"
    BY <2>1, "Live" # "Free", Zenon DEF ThreadsInv, Placed
  <2> QED BY <1>0, <1>2, <2>1, <2>2, PlaceMoves, Zenon DEF create
<1>3. CASE pal_thread_main \/ detach
  BY <1>3, OtherPlaces, Zenon DEF pal_thread_main, detach
<1>4. CASE join
  BY <1>0, <1>4, OtherPlaces, Zenon DEF join
<1>5. CASE join_poll
  BY <1>0, <1>5, OtherPlaces, Zenon DEF join_poll, Poll
<1>6. CASE yield_now \/ SleepSteps
  BY <1>0, <1>6, OtherPlaces, Zenon DEF yield_now, SleepSteps, sleep_ns, sleep_poll, Poll
<1>7. CASE RwLockSteps
  <2>1. ASSUME NEW other \in {"read", "write"}, rw_lock(other) \/ rw_poll(other)
        PROVE  Elsewhere(op) /\ event' = event /\ bare_mutex' = bare_mutex
    <3>1. other # op
      BY <1>0, Zenon
    <3> QED BY <2>1, <3>1, OtherPlaces, Zenon DEF rw_lock, rw_poll, Poll
  <2>2. CASE rw_create \/ rw_destroy \/ rw_unlock
    BY <2>2, OtherPlaces, Zenon DEF rw_create, rw_destroy, rw_unlock
  <2> QED BY <1>7, <2>1, <2>2, Zenon DEF RwLockSteps, read, write
<1>8. CASE KeySteps
  BY <1>8, OtherPlaces, Zenon DEF KeySteps, tls_create, tls_destroy, tls_set, sched
<1>9. ASSUME NEW x \in Indices, Tick(x) PROVE Elsewhere(op) /\ event' = event /\ bare_mutex' = bare_mutex
  <2>1. PICK new : new = [where[x] EXCEPT !.limit = "past"]
    OBVIOUS
  <2>2. where[x] \in Place /\ where[x].limit = "ahead" /\ where' = [where EXCEPT ![x] = new]
    BY <1>9, <2>1, Zenon DEF Tick, ThreadsInv, Placed
  <2>3. new.op = where[x].op /\ new.limit = "past"
    BY <2>1, <2>2, Zenon DEF Place
  <2>4. \A i \in Indices : where'[i] = IF i = x THEN new ELSE where[i]
    BY <2>2, Zenon DEF ThreadsInv, Placed
  <2>5. Elsewhere(op)
    BY <2>2, <2>3, <2>4, "past" # "none", "ahead" # "none", Zenon DEF Elsewhere
  <2> QED BY <1>9, <2>5, Zenon DEF Tick
<1> QED
  BY <1>1, <1>2, <1>3, <1>4, <1>5, <1>6, <1>7, <1>8, <1>9, Zenon DEF ThreadSteps

\* The threads that wait are a finite set.
LEMMA WaitsAreFinite == ASSUME NEW op PROVE IsFiniteSet(Waiting(op)) /\ Cardinality(Waiting(op)) \in Nat
BY IndicesFinite, Waiting(op) \in SUBSET Indices, Zenon DEF Waiting

\* A step that leaves the event and its waiters alone.
LEMMA EventAlone ==
    ASSUME EventInv, Elsewhere("wait"), event' = event
    PROVE  EventInv' /\ UNCHANGED AbstractEvent!vars
<1>1. Waiting("wait")' = Waiting("wait") /\ Limited("wait")' = Limited("wait")
  BY SameWaits, Zenon
<1>2. EventInv'
  BY <1>1, Zenon DEF EventInv
<1> QED BY <1>1, <1>2, Zenon DEF AbstractEvent!vars, Limited

\* The steps of the event: each keeps the count, and is one the boundary allows.
LEMMA EventMoves ==
    ASSUME ThreadsInv, EventInv, EventSteps
    PROVE  EventInv' /\ [AbstractEvent!Next]_(AbstractEvent!vars)
<1> DEFINE Fields == [used : BOOLEAN, manual : BOOLEAN, signaled : BOOLEAN, waiters : Nat]
<1>0. event \in Fields /\ event.waiters \in Nat /\ CURRENT \in Indices
  BY Zenon DEF EventInv, ThreadsInv
<1>t. PICK t \in Indices : t = CURRENT
  BY <1>0, Zenon
<1>1. ASSUME where' = where PROVE Waiting("wait")' = Waiting("wait") /\ Limited("wait")' = Limited("wait")
  BY <1>1, OtherPlaces, SameWaits, Zenon
<1>2. ASSUME where' = where, event' \in Fields, event'.waiters = event.waiters, event'.used \/ event.waiters = 0
      PROVE  EventInv'
  <2>1. event.waiters = 0 => Waiting("wait") = {}
    BY WaitsAreFinite, FS_EmptySet, Zenon DEF EventInv
  <2> QED BY <1>1, <1>2, <2>1, Zenon DEF EventInv
<1>3. CASE event_create
  <2>1. PICK m \in BOOLEAN, initial \in BOOLEAN : event' = [used |-> TRUE, manual |-> m, signaled |-> initial, waiters |-> 0]
    BY <1>3, Zenon DEF event_create
  <2>2. where' = where /\ ~event.used
    BY <1>3, Zenon DEF event_create
  <2>3. event' \in Fields /\ event'.used /\ event'.manual = m /\ event'.signaled = initial /\ event'.waiters = 0
    BY <2>1, 0 \in Nat, Zenon
  <2>4. event.waiters = 0
    BY <2>2, FS_EmptySet, Zenon DEF EventInv
  <2>5. EventInv'
    BY <1>2, <2>2, <2>3, <2>4, Zenon
  <2>6. AbstractEvent!Create(m, initial)
    BY <1>1, <2>2, <2>3, Zenon DEF AbstractEvent!Create, Limited
  <2> QED BY <2>5, <2>6, Zenon DEF AbstractEvent!Next
<1>4. CASE event_destroy
  <2>1. where' = where /\ event.used /\ event.waiters = 0 /\ event' = [event EXCEPT !.used = FALSE]
    BY <1>4, Zenon DEF event_destroy
  <2>2. event' \in Fields /\ event'.used = FALSE /\ event'.manual = event.manual /\ event'.signaled = event.signaled
        /\ event'.waiters = event.waiters
    BY <1>0, <2>1, Zenon
  <2>3. Waiting("wait") = {} /\ Limited("wait") = {}
    BY <2>1, WaitsAreFinite, FS_EmptySet, Zenon DEF EventInv, Limited
  <2>4. EventInv'
    BY <1>2, <2>1, <2>2, Zenon
  <2>5. AbstractEvent!Destroy
    BY <1>1, <2>1, <2>2, <2>3, Zenon DEF AbstractEvent!Destroy, Limited
  <2> QED BY <2>4, <2>5, Zenon DEF AbstractEvent!Next
<1>5. CASE event_set \/ event_reset
  <2>1. PICK b \in BOOLEAN : (b = TRUE \/ b = FALSE) /\ event' = [event EXCEPT !.signaled = b]
    BY <1>5, Zenon DEF event_set, event_reset
  <2>2. where' = where /\ event.used
    BY <1>5, Zenon DEF event_set, event_reset
  <2>3. event' \in Fields /\ event'.used = event.used /\ event'.manual = event.manual /\ event'.signaled = b
        /\ event'.waiters = event.waiters
    BY <1>0, <2>1, Zenon
  <2>4. EventInv'
    BY <1>2, <2>2, <2>3, Zenon
  <2>5. AbstractEvent!Set \/ AbstractEvent!Reset
    BY <1>1, <2>1, <2>2, <2>3, Zenon DEF AbstractEvent!Set, AbstractEvent!Reset, Limited
  <2> QED BY <2>4, <2>5, Zenon DEF AbstractEvent!Next
<1>6. event.manual \in BOOLEAN /\ event.signaled \in BOOLEAN
  BY <1>0, Zenon
<1>7. PICK e : e = taken(event)
  OBVIOUS
<1>8. e \in Fields /\ e.used = event.used /\ e.manual = event.manual /\ e.signaled = event.manual /\ e.waiters = event.waiters
  BY <1>0, <1>6, <1>7, Zenon DEF taken
<1>9. CASE event_wait /\ event.signaled
  <2>1. where' = where /\ event.used /\ event' = e
    BY <1>7, <1>9, Zenon DEF event_wait
  <2>2. EventInv'
    BY <1>2, <1>8, <2>1, Zenon
  <2>3. AbstractEvent!Poll
    BY <1>1, <1>8, <1>9, <2>1, Zenon DEF AbstractEvent!Poll, AbstractEvent!Consume, Limited
  <2> QED BY <2>2, <2>3, Zenon DEF AbstractEvent!Next
<1>10. CASE event_wait /\ ~event.signaled
  <2>1. PICK limit \in {"none", "ahead"} : waits("wait", 0, limit)
    BY <1>10, Zenon DEF event_wait
  <2>2. event.used /\ event' = [event EXCEPT !.waiters = @ + 1] /\ where[CURRENT].op = "run"
    BY <1>10, Zenon DEF event_wait, Running
  <2>3. PICK there : there = [op |-> "wait", about |-> 0, limit |-> limit]
    OBVIOUS
  <2>4. there.op = "wait" /\ there.limit = limit /\ where' = [where EXCEPT ![t] = there] /\ where[t].op # "wait"
    BY <1>t, <2>1, <2>2, <2>3, "run" # "wait", Zenon DEF waits
  <2>5. /\ t \notin Waiting("wait") /\ Waiting("wait")' = Waiting("wait") \union {t}
        /\ Limited("wait")' \in {Limited("wait"), Limited("wait") \union {t}}
    BY ONLY ThreadsInv, t \in Indices, <2>4, PlaceMoves, Zenon
  <2>6. event.waiters + 1 \in Nat
    BY <1>0, SMT
  <2>7. event' \in Fields /\ event'.used = event.used /\ event'.manual = event.manual /\ event'.signaled = event.signaled
        /\ event'.waiters = event.waiters + 1
    BY <1>0, <2>2, <2>6, Zenon
  <2>8. Cardinality(Waiting("wait"))' = Cardinality(Waiting("wait")) + 1
    BY <2>5, WaitsAreFinite, FS_AddElement, Zenon
  <2>9. EventInv'
    BY <2>2, <2>7, <2>8, Zenon DEF EventInv
  <2>10. AbstractEvent!Wait(t)
    BY <1>10, <2>2, <2>5, <2>7, Zenon DEF AbstractEvent!Wait, Limited
  <2> QED BY <2>9, <2>10, Zenon DEF AbstractEvent!Next
<1>11. ASSUME where[CURRENT].op = "wait", NEW f \in Fields, f.used = event.used, f.manual = event.manual,
              f.waiters = event.waiters, wait_ends(f)
       PROVE  /\ EventInv' /\ AbstractEvent!Leave(t) /\ event'.signaled = f.signaled
  <2>1. event' = [f EXCEPT !.waiters = @ - 1] /\ where' = [where EXCEPT ![t] = Runs] /\ where[t].op = "wait"
    BY <1>t, <1>11, Zenon DEF wait_ends, returns
  <2>2. Runs.op # "wait"
    BY DEF Runs
  <2>3. /\ t \in Waiting("wait") /\ Waiting("wait")' = Waiting("wait") \ {t}
        /\ Limited("wait")' = Limited("wait") \ {t}
    BY ONLY ThreadsInv, t \in Indices, <2>1, <2>2, PlaceMoves, Zenon
  <2>4. Cardinality(Waiting("wait"))' = Cardinality(Waiting("wait")) - 1 /\ event.used /\ event.waiters = Cardinality(Waiting("wait"))
    BY <2>3, WaitsAreFinite, FS_RemoveElement, Zenon DEF EventInv
  <2>5. Cardinality(Waiting("wait"))' \in Nat
    BY <2>3, WaitsAreFinite, FS_RemoveElement, FS_CardinalityType, Zenon
  <2>6. f.waiters - 1 = Cardinality(Waiting("wait"))'
    BY <1>11, <2>4, Zenon
  <2>7. event' \in Fields /\ event'.used = f.used /\ event'.manual = f.manual /\ event'.signaled = f.signaled
        /\ event'.waiters = f.waiters - 1
    BY <1>11, <2>1, <2>5, <2>6, Zenon
  <2>8. EventInv'
    BY <1>11, <2>4, <2>6, <2>7, Zenon DEF EventInv
  <2>9. AbstractEvent!Leave(t)
    BY <1>11, <2>3, <2>7, Zenon DEF AbstractEvent!Leave, Limited
  <2> QED BY <2>7, <2>8, <2>9, Zenon
<1>12. CASE event_poll
  <2>1. where[CURRENT].op = "wait"
    BY <1>12, Zenon DEF event_poll, Poll
  <2>2. CASE event.signaled
    <3>1. wait_ends(e)
      BY <1>7, <1>12, <2>2, Zenon DEF event_poll
    <3>2. EventInv' /\ AbstractEvent!Leave(t) /\ event'.signaled = event.manual
      BY <1>8, <1>11, <2>1, <3>1, Zenon
    <3>3. AbstractEvent!Satisfied(t)
      BY <2>2, <3>2, Zenon DEF AbstractEvent!Satisfied, AbstractEvent!Consume
    <3> QED BY <3>2, <3>3, Zenon DEF AbstractEvent!Next
  <2>3. CASE ~event.signaled /\ expired
    <3>1. wait_ends(event) /\ where[CURRENT].limit = "past" /\ "past" # "none"
      BY <1>12, <2>3, Zenon DEF event_poll, expired
    <3>2. EventInv' /\ AbstractEvent!Leave(t) /\ event'.signaled = event.signaled
      BY <1>0, <1>11, <2>1, <3>1, Zenon
    <3>3. t \in Limited("wait")
      BY <1>t, <2>1, <3>1, Zenon DEF Limited, Waiting
    <3>4. AbstractEvent!Expired(t)
      BY <2>3, <3>2, <3>3, Zenon DEF AbstractEvent!Expired, Limited
    <3> QED BY <3>2, <3>4, Zenon DEF AbstractEvent!Next
  <2>4. CASE ~event.signaled /\ ~expired
    <3>1. poll_again /\ event' = event
      BY <1>12, <2>4, Zenon DEF event_poll
    <3> QED BY <3>1, OtherPlaces, EventAlone, Zenon
  <2> QED BY <2>2, <2>3, <2>4, Zenon
<1> QED BY <1>3, <1>4, <1>5, <1>9, <1>10, <1>12, Zenon DEF EventSteps

\* A step that leaves the mutex and its waiters alone.
LEMMA MutexAlone ==
    ASSUME MutexInv, Elsewhere("lock"), bare_mutex' = bare_mutex
    PROVE  MutexInv' /\ UNCHANGED AbstractMutex!vars
<1>1. Waiting("lock")' = Waiting("lock")
  BY SameWaits, Zenon
<1>2. MutexInv'
  BY <1>1, Zenon DEF MutexInv
<1> QED BY <1>2, Zenon DEF AbstractMutex!vars

\* The steps of the mutex: each keeps the counts, and is one the boundary allows.
LEMMA MutexMoves ==
    ASSUME ThreadsInv, MutexInv, MutexSteps
    PROVE  MutexInv' /\ [AbstractMutex!Next]_(AbstractMutex!vars)
<1> DEFINE m == bare_mutex
           Fields == [used : BOOLEAN, recursive : BOOLEAN, owner : Indices \union {NOBODY}, depth : Nat, users : Nat]
<1>0. m \in Fields /\ m.depth \in Nat /\ m.users \in Nat /\ Cardinality(Waiting("lock")) \in Nat
  BY WaitsAreFinite, Zenon DEF MutexInv
<1>t. PICK t \in Indices : t = CURRENT
  BY Zenon DEF ThreadsInv
<1>1. /\ m.users = m.depth + Cardinality(Waiting("lock")) /\ (m.owner = NOBODY <=> m.depth = 0)
      /\ (~m.used => m.users = 0) /\ t # NOBODY
  BY IndicesFinite, Zenon DEF MutexInv
<1>2. ASSUME where' = where PROVE Waiting("lock")' = Waiting("lock")
  BY <1>2, OtherPlaces, SameWaits, Zenon
<1>3. CASE mutex_create
  <2>1. PICK r \in BOOLEAN : bare_mutex' = [FREE_MUTEX EXCEPT !.used = TRUE, !.recursive = r]
    BY <1>3, Zenon DEF mutex_create
  <2>2. where' = where /\ ~m.used
    BY <1>3, Zenon DEF mutex_create
  <2>3. FREE_MUTEX \in Fields /\ FREE_MUTEX.owner = NOBODY /\ FREE_MUTEX.depth = 0 /\ FREE_MUTEX.users = 0
    BY 0 \in Nat, Zenon DEF FREE_MUTEX
  <2>4. m'.used = TRUE /\ m'.recursive = r /\ m'.owner = NOBODY /\ m'.depth = 0 /\ m'.users = 0 /\ m' \in Fields
    BY <2>1, <2>3, Zenon
  <2>5. m.depth = 0 /\ Cardinality(Waiting("lock")) = 0
    BY <1>0, <1>1, <2>2, SMT
  <2>6. MutexInv'
    <3>1. 0 + Cardinality(Waiting("lock"))' = 0
      BY <1>2, <2>2, <2>5
    <3> QED BY <2>4, <3>1, Zenon DEF MutexInv
  <2>7. AbstractMutex!Create(r)
    BY <1>1, <2>2, <2>4, <2>5, Zenon DEF AbstractMutex!Create
  <2> QED BY <2>6, <2>7, Zenon DEF AbstractMutex!Next
<1>4. CASE mutex_destroy
  <2>1. where' = where /\ m.used /\ m.users = 0 /\ bare_mutex' = [bare_mutex EXCEPT !.used = FALSE]
    BY <1>4, Zenon DEF mutex_destroy
  <2>2. m'.used = FALSE /\ m'.recursive = m.recursive /\ m'.owner = m.owner /\ m'.depth = m.depth /\ m'.users = m.users /\ m' \in Fields
    BY <1>0, <2>1, Zenon
  <2>3. m.depth = 0
    BY <1>0, <1>1, <2>1, SMT
  <2>4. MutexInv'
    BY <1>1, <1>2, <2>1, <2>2, Zenon DEF MutexInv
  <2>5. AbstractMutex!Destroy
    BY <1>1, <2>1, <2>2, <2>3, Zenon DEF AbstractMutex!Destroy
  <2> QED BY <2>4, <2>5, Zenon DEF AbstractMutex!Next
<1>5. PICK u : u = [bare_mutex EXCEPT !.users = @ + 1]
  OBVIOUS
<1>6. u \in Fields /\ u.used = m.used /\ u.recursive = m.recursive /\ u.owner = m.owner /\ u.depth = m.depth /\ u.users = m.users + 1
  <2>1. m.users + 1 \in Nat
    BY <1>0, SMT
  <2> QED BY <1>0, <1>5, <2>1, Zenon
<1>7. ASSUME m.owner = t, m.recursive, m.used, bare_mutex' = [u EXCEPT !.depth = @ + 1], where' = where
      PROVE  MutexInv' /\ AbstractMutex!Next
  <2>1. m.depth + 1 \in Nat /\ m.depth + 1 # 0
    BY <1>0, SMT
  <2>2. /\ m'.used = m.used /\ m'.recursive = m.recursive /\ m'.owner = m.owner /\ m'.depth = m.depth + 1
        /\ m'.users = m.users + 1 /\ m' \in Fields
    BY <1>6, <1>7, <2>1, Zenon
  <2>3. m.users + 1 = (m.depth + 1) + Cardinality(Waiting("lock"))
    BY <1>0, <1>1, SMT
  <2>4. MutexInv'
    BY <1>1, <1>2, <1>7, <2>1, <2>2, <2>3, Zenon DEF MutexInv
  <2>5. AbstractMutex!Lock(t)
    BY <1>7, <2>2, Zenon DEF AbstractMutex!Lock
  <2> QED BY <2>4, <2>5, Zenon DEF AbstractMutex!Next
<1>8. ASSUME m.owner = NOBODY, m.used, NEW v \in Fields, v.used = m.used, v.recursive = m.recursive, v.owner = m.owner,
             v.users = 1 + Cardinality(Waiting("lock"))', bare_mutex' = owned(v)
      PROVE  MutexInv' /\ AbstractMutex!Next
  <2>1. bare_mutex' = [v EXCEPT !.owner = t, !.depth = 1] /\ 1 \in Nat
    BY <1>t, <1>8, Zenon DEF owned, me
  <2>2. /\ m'.used = m.used /\ m'.recursive = m.recursive /\ m'.owner = t /\ m'.depth = 1
        /\ m'.users = v.users /\ m' \in Fields
    BY <1>8, <2>1, Zenon
  <2>3. m.depth = 0 /\ 1 = 0 + 1 /\ 1 # 0
    BY <1>1, <1>8
  <2>4. MutexInv'
    BY <1>1, <1>8, <2>2, <2>3, Zenon DEF MutexInv
  <2>5. AbstractMutex!Lock(t)
    BY <1>8, <2>2, <2>3, Zenon DEF AbstractMutex!Lock
  <2> QED BY <2>4, <2>5, Zenon DEF AbstractMutex!Next
<1>9. CASE mutex_lock
  <2>1. where[t].op = "run" /\ m.used
    BY <1>t, <1>9, Zenon DEF mutex_lock, Running
  <2>2. CASE m.owner = t /\ m.recursive /\ bare_mutex' = [u EXCEPT !.depth = @ + 1] /\ where' = where
    BY <1>7, <2>1, <2>2, Zenon
  <2>3. CASE m.owner = NOBODY /\ bare_mutex' = owned(u) /\ where' = where
    <3>1. m.users + 1 = 1 + Cardinality(Waiting("lock"))
      BY <1>0, <1>1, <2>3, SMT
    <3>2. u.users = 1 + Cardinality(Waiting("lock"))'
      BY <1>2, <1>6, <2>3, <3>1, Zenon
    <3> QED BY <1>6, <1>8, <2>1, <2>3, <3>2, Zenon
  <2>4. CASE bare_mutex' = u /\ waits("lock", 0, "none")
    <3>1. PICK there : there = [op |-> "lock", about |-> 0, limit |-> "none"]
      OBVIOUS
    <3>2. there.op = "lock" /\ where' = [where EXCEPT ![t] = there] /\ where[t].op # "lock"
      BY <1>t, <2>1, <2>4, <3>1, "run" # "lock", Zenon DEF waits
    <3>3. t \notin Waiting("lock") /\ Waiting("lock")' = Waiting("lock") \union {t}
      BY ONLY ThreadsInv, t \in Indices, <3>2, PlaceMoves, Zenon
    <3>4. Cardinality(Waiting("lock"))' = Cardinality(Waiting("lock")) + 1
      BY <3>3, WaitsAreFinite, FS_AddElement, Zenon
    <3>5. m.users + 1 = m.depth + (Cardinality(Waiting("lock")) + 1)
      BY <1>0, <1>1, SMT
    <3>6. MutexInv'
      BY <1>1, <1>6, <2>1, <2>4, <3>4, <3>5, Zenon DEF MutexInv
    <3>7. UNCHANGED AbstractMutex!vars
      BY <1>6, <2>4, Zenon DEF AbstractMutex!vars
    <3> QED BY <3>6, <3>7, Zenon
  <2> QED BY <1>t, <1>5, <1>9, <2>2, <2>3, <2>4, Zenon DEF mutex_lock, me
<1>10. CASE mutex_poll
  <2>1. where[t].op = "lock"
    BY <1>t, <1>10, Zenon DEF mutex_poll, Poll
  <2>2. CASE m.owner = NOBODY
    <3>1. bare_mutex' = owned(bare_mutex) /\ where' = [where EXCEPT ![t] = Runs]
      BY <1>t, <1>10, <2>2, Zenon DEF mutex_poll, returns
    <3>2. Runs.op # "lock"
      BY DEF Runs
    <3>3. t \in Waiting("lock") /\ Waiting("lock")' = Waiting("lock") \ {t}
      BY ONLY ThreadsInv, t \in Indices, <2>1, <3>1, <3>2, PlaceMoves, Zenon
    <3>4. Cardinality(Waiting("lock"))' = Cardinality(Waiting("lock")) - 1
      BY <3>3, WaitsAreFinite, FS_RemoveElement, Zenon
    <3>5. Cardinality(Waiting("lock"))' \in Nat
      BY <3>3, WaitsAreFinite, FS_RemoveElement, FS_CardinalityType, Zenon
    <3>6. m.users = 1 + Cardinality(Waiting("lock"))' /\ m.users # 0
      BY <1>0, <1>1, <2>2, <3>4, <3>5, SMT
    <3>7. m.used
      BY <1>1, <3>6, Zenon
    <3> QED BY <1>0, <1>8, <2>2, <3>1, <3>6, <3>7, Zenon
  <2>3. CASE m.owner # NOBODY
    <3>1. poll_again /\ bare_mutex' = bare_mutex
      BY <1>10, <2>3, Zenon DEF mutex_poll
    <3> QED BY <3>1, OtherPlaces, MutexAlone, Zenon
  <2> QED BY <2>2, <2>3, Zenon
<1>11. CASE mutex_unlock
  <2>1. /\ where' = where /\ m.used /\ m.owner = t
        /\ bare_mutex' = [bare_mutex EXCEPT !.depth = @ - 1, !.users = @ - 1, !.owner = IF m.depth = 1 THEN NOBODY ELSE t]
    BY <1>t, <1>11, Zenon DEF mutex_unlock, me
  <2>2. m.depth # 0
    BY <1>1, <2>1, Zenon
  <2>3. /\ m.depth - 1 \in Nat /\ m.users - 1 \in Nat /\ m.users - 1 = (m.depth - 1) + Cardinality(Waiting("lock"))
        /\ (m.depth = 1 <=> m.depth - 1 = 0)
    BY <1>0, <1>1, <2>2, SMT
  <2>4. PICK o : o = IF m.depth = 1 THEN NOBODY ELSE t
    OBVIOUS
  <2>5. o \in Indices \union {NOBODY} /\ (o = NOBODY <=> m.depth - 1 = 0)
    BY <1>1, <2>3, <2>4, Zenon
  <2>6. /\ m'.used = m.used /\ m'.recursive = m.recursive /\ m'.owner = o /\ m'.depth = m.depth - 1
        /\ m'.users = m.users - 1 /\ m' \in Fields
    BY <1>0, <2>1, <2>3, <2>4, <2>5, Zenon
  <2>7. MutexInv'
    BY <1>2, <2>1, <2>3, <2>5, <2>6, Zenon DEF MutexInv
  <2>8. AbstractMutex!Unlock(t)
    BY <2>1, <2>4, <2>6, Zenon DEF AbstractMutex!Unlock
  <2> QED BY <2>7, <2>8, Zenon DEF AbstractMutex!Next
<1> QED BY <1>3, <1>4, <1>9, <1>10, <1>11, Zenon DEF MutexSteps

\* The steps of the event begin and end no wait for the mutex, and the other way round.
LEMMA EventLeavesMutex == ASSUME ThreadsInv, EventSteps PROVE Elsewhere("lock") /\ bare_mutex' = bare_mutex
BY OtherPlaces, "wait" # "lock", Zenon
   DEF EventSteps, event_create, event_destroy, event_set, event_reset, event_wait, event_poll, wait_ends, Poll

\* The steps of the mutex begin and end no wait for the event.
LEMMA MutexLeavesEvent == ASSUME ThreadsInv, MutexSteps PROVE Elsewhere("wait") /\ event' = event
BY OtherPlaces, "wait" # "lock", Zenon
   DEF MutexSteps, mutex_create, mutex_destroy, mutex_lock, mutex_poll, mutex_unlock, Poll

\* The inductive invariant of the objects, on top of that of the threads.
ObjectsInv == EventInv /\ MutexInv

\* At first there is no event and no mutex.
LEMMA ObjectsBegin == BareInit => ObjectsInv /\ AbstractEvent!Init /\ AbstractMutex!Init
<1> SUFFICES ASSUME BareInit PROVE ObjectsInv /\ AbstractEvent!Init /\ AbstractMutex!Init
  BY Zenon
<1>1. event = NoEvent /\ bare_mutex = FREE_MUTEX /\ where = [i \in Indices |-> Runs]
  BY Zenon DEF BareInit
<1>2. Runs.op # "wait" /\ Runs.op # "lock"
  BY DEF Runs
<1>3. Waiting("wait") = {} /\ Waiting("lock") = {}
  BY <1>1, <1>2, Zenon DEF Waiting
<1>4. Cardinality({}) = 0 /\ 0 + 0 = 0
  BY FS_EmptySet
<1>5. EventInv
  BY <1>1, <1>3, <1>4, 0 \in Nat, Zenon DEF EventInv, NoEvent
<1>6. MutexInv
  BY <1>1, <1>3, <1>4, 0 \in Nat, Zenon DEF MutexInv, FREE_MUTEX
<1>7. AbstractEvent!Init
  BY <1>1, <1>3, Zenon DEF AbstractEvent!Init, NoEvent
<1>8. AbstractMutex!Init
  BY <1>1, Zenon DEF AbstractMutex!Init, FREE_MUTEX
<1> QED BY <1>5, <1>6, <1>7, <1>8, Zenon DEF ObjectsInv

\* Every step is one the boundary allows of the event and of the mutex.
LEMMA ObjectsMove ==
    ThreadsInv /\ ObjectsInv /\ [BareNext]_bare =>
        ObjectsInv' /\ [AbstractEvent!Next]_(AbstractEvent!vars) /\ [AbstractMutex!Next]_(AbstractMutex!vars)
<1> SUFFICES ASSUME ThreadsInv, EventInv, MutexInv, [BareNext]_bare
             PROVE  /\ EventInv' /\ [AbstractEvent!Next]_(AbstractEvent!vars)
                    /\ MutexInv' /\ [AbstractMutex!Next]_(AbstractMutex!vars)
  BY Zenon DEF ObjectsInv
<1>1. CASE EventSteps
  BY <1>1, EventMoves, EventLeavesMutex, MutexAlone, Zenon
<1>2. CASE MutexSteps
  BY <1>2, MutexMoves, MutexLeavesEvent, EventAlone, Zenon
<1>3. CASE UNCHANGED bare \/ ThreadSteps \/ SleepSteps \/ RwLockSteps \/ KeySteps \/ \E i \in Indices : Tick(i)
  <2>1. Elsewhere("wait") /\ Elsewhere("lock") /\ event' = event /\ bare_mutex' = bare_mutex
    BY <1>3, OtherSteps, Zenon
  <2> QED BY <2>1, EventAlone, MutexAlone, Zenon
<1> QED BY <1>1, <1>2, <1>3, Zenon DEF BareNext

\* The cooperative event and mutex do what the boundary promises of one, with any
\* number of threads: no wait is satisfied by an event that is not set, an auto-reset
\* event satisfies one, a mutex has one holder, and none is destroyed in use.
THEOREM BareRefinement == BareSpec => ImplementsTheBoundary
<1>1. BareInv /\ ObjectsInv /\ [BareNext]_bare =>
        (BareInv /\ ObjectsInv)' /\ [AbstractEvent!Next]_(AbstractEvent!vars) /\ [AbstractMutex!Next]_(AbstractMutex!vars)
  BY ThreadsStay, SlotsStay, ObjectsMove, Zenon DEF BareInv
<1> QED
  BY <1>1, BareBegins, ObjectsBegin, PTL
     DEF BareSpec, ImplementsTheBoundary, AbstractEvent!SafeSpec, AbstractMutex!SafeSpec
=============================================================================
