------------------------- MODULE DescriptorsProofs --------------------------
(***************************************************************************)
(* The descriptor table counts every lifetime exactly, for any number of   *)
(* threads, objects and descriptors.  The primitives keep TableInv, which  *)
(* the event port's proofs rest on too; the calls keep DescriptorsInv.     *)
(***************************************************************************)
EXTENDS Descriptors, FiniteSetTheorems, TLAPS

\* An object that is being made has one reference, its maker's (`sn_new`).
NewIsSole ==
    \A t \in Makers :
        held[t] # <<>> /\ doomed[t] = NULL /\ references[Latest(t)] = 1
\* The standard streams keep a descriptor each, which no call may close.
StreamsStay == \A o \in Streams : \E fd \in Fds : fd < Standard /\ table[fd] = o
\* The pins of an object can be counted.
Finite(o) == IsFiniteSet(Pins(o))

\* The inductive invariant of the table, for the calls of any unit.
TableInv ==
    /\ ObjectsTypeOK
    /\ LifetimesAreExact
    /\ \A o \in Objects : Finite(o)
    /\ NewIsSole
    /\ StreamsStay

\* A thread destroys what it found doomed before it goes on with a call.
DoomedFirst == \A t \in Threads : op[t] \notin {"none", "use", "next"} => doomed[t] = NULL

\* The inductive invariant of the calls on files, watchers and sockets.
DescriptorsInv == TableInv /\ DescriptorsTypeOK /\ DoomedFirst

-----------------------------------------------------------------------------
\* The latest object of a thread that has one, and what the thread keeps of the
\* others when it lets that one go.
LEMMA LatestIsHeld ==
    ASSUME held \in [Threads -> Seq(Objects)], NEW t \in Threads, held[t] # <<>>
    PROVE  /\ held[t] \in Seq(Objects) /\ Len(held[t]) \in Nat \ {0}
           /\ Latest(t) = held[t][Len(held[t])] /\ Latest(t) \in Objects
<1>1. held[t] \in Seq(Objects) /\ Len(held[t]) \in Nat \ {0} /\ \A i \in 1 .. Len(held[t]) : held[t][i] \in Objects
  OBVIOUS
<1> QED BY <1>1 DEF Latest

\* Letting the latest object go keeps the others, of this thread and of every other.
LEMMA OthersAreKept ==
    ASSUME held \in [Threads -> Seq(Objects)], NEW t \in Threads, held[t] # <<>>, LetGo(t)
    PROVE  /\ held' \in [Threads -> Seq(Objects)]
           /\ Len(held'[t]) = Len(held[t]) - 1 /\ DOMAIN held'[t] = 1 .. Len(held[t]) - 1
           /\ \A i \in 1 .. Len(held[t]) - 1 : held'[t][i] = held[t][i]
           /\ \A u \in Threads \ {t} : held'[u] = held[u]
<1>1. held[t] \in Seq(Objects) /\ Len(held[t]) \in Nat \ {0}
  OBVIOUS
<1>2. /\ Len(SubSeq(held[t], 1, Len(held[t]) - 1)) = Len(held[t]) - 1
      /\ DOMAIN SubSeq(held[t], 1, Len(held[t]) - 1) = 1 .. Len(held[t]) - 1
      /\ \A i \in 1 .. Len(held[t]) - 1 : SubSeq(held[t], 1, Len(held[t]) - 1)[i] = held[t][i]
  <2>1. SubSeq(held[t], 1, Len(held[t]) - 1) = [i \in 1 .. Len(held[t]) - 1 |-> held[t][i]]
    BY <1>1
  <2>2. \A n \in Nat : Len([i \in 1 .. n |-> held[t][i]]) = n
    OBVIOUS
  <2>3. DOMAIN SubSeq(held[t], 1, Len(held[t]) - 1) = 1 .. Len(held[t]) - 1
    BY <2>1, Zenon
  <2>4. \A i \in 1 .. Len(held[t]) - 1 : SubSeq(held[t], 1, Len(held[t]) - 1)[i] = held[t][i]
    BY <2>1, Zenon
  <2>5. Len(held[t]) - 1 \in Nat
    BY <1>1
  <2>6. Len([i \in 1 .. Len(held[t]) - 1 |-> held[t][i]]) = Len(held[t]) - 1
    BY <2>2, <2>5, Zenon
  <2>7. Len(SubSeq(held[t], 1, Len(held[t]) - 1)) = Len(held[t]) - 1
    BY <2>1, <2>6, Zenon
  <2> QED BY <2>3, <2>4, <2>7, Zenon
<1>3. SubSeq(held[t], 1, Len(held[t]) - 1) \in Seq(Objects)
  BY <1>1
<1>4. held'[t] = SubSeq(held[t], 1, Len(held[t]) - 1) /\ \A u \in Threads \ {t} : held'[u] = held[u]
  BY Zenon DEF LetGo
<1>5. held' \in [Threads -> Seq(Objects)]
  BY <1>3, Zenon DEF LetGo
<1> QED BY <1>2, <1>4, <1>5, Zenon

\* The descriptors of an object and the threads that make or destroy it are finite.
LEMMA FewAreFinite ==
    ASSUME NEW o
    PROVE  IsFiniteSet(Named(o)) /\ IsFiniteSet(Making(o)) /\ IsFiniteSet(Doomed(o))
<1>1. IsFiniteSet(Fds)
  BY FS_Interval, DescriptorsAssumption DEF Fds
<1>2. Named(o) \subseteq Fds /\ Making(o) \subseteq Threads /\ Doomed(o) \subseteq Threads
  BY Zenon DEF Named, Making, Makers, Doomed
<1> QED BY <1>1, <1>2, ThreadsFinite, FS_Subset, Zenon

\* When no thread's pins of an object change, neither do the object's.
LEMMA PinsSame ==
    ASSUME NEW o, \A u \in Threads : Pinned(u, o)' = Pinned(u, o)
    PROVE  Pins(o)' = Pins(o)
BY Zenon DEF Pins

\* A pin more.
LEMMA PinsGain ==
    ASSUME NEW o, NEW t \in Threads, NEW n, Finite(o),
           \A u \in Threads \ {t} : Pinned(u, o)' = Pinned(u, o),
           n \notin Pinned(t, o), Pinned(t, o)' = Pinned(t, o) \union {n}
    PROVE  Finite(o)' /\ Cardinality(Pins(o)') = Cardinality(Pins(o)) + 1
<1>1. <<t, n>> \notin Pins(o)
  BY DEF Pins
<1>2. Pins(o)' = Pins(o) \union {<<t, n>>}
  BY DEF Pins
<1> QED BY <1>1, <1>2, FS_AddElement, Zenon DEF Finite

\* A pin less.
LEMMA PinsLose ==
    ASSUME NEW o, NEW t \in Threads, NEW n, Finite(o),
           \A u \in Threads \ {t} : Pinned(u, o)' = Pinned(u, o),
           n \in Pinned(t, o), Pinned(t, o)' = Pinned(t, o) \ {n}
    PROVE  Finite(o)' /\ Cardinality(Pins(o)') = Cardinality(Pins(o)) - 1
<1>1. <<t, n>> \in Pins(o)
  BY DEF Pins
<1>2. Pins(o)' = Pins(o) \ {<<t, n>>}
  BY DEF Pins
<1> QED BY <1>1, <1>2, FS_RemoveElement, Zenon DEF Finite

-----------------------------------------------------------------------------
\* The counts of an object are numbers, and zero for an empty set.
LEMMA Counted ==
    ASSUME TableInv, NEW o \in Objects
    PROVE  /\ Exact(o) /\ Finite(o) /\ o # NULL
           /\ references[o] \in Nat /\ descriptors[o] \in Nat
           /\ Cardinality(Named(o)) \in Nat /\ (Cardinality(Named(o)) = 0 <=> Named(o) = {})
           /\ Cardinality(Making(o)) \in Nat /\ (Cardinality(Making(o)) = 0 <=> Making(o) = {})
           /\ Cardinality(Pins(o)) \in Nat /\ (Cardinality(Pins(o)) = 0 <=> Pins(o) = {})
           /\ Cardinality(Doomed(o)) \in Nat /\ (Cardinality(Doomed(o)) = 0 <=> Doomed(o) = {})
<1>1. Exact(o) /\ Finite(o) /\ references[o] \in Nat /\ descriptors[o] \in Nat
  BY Zenon DEF TableInv, LifetimesAreExact, ObjectsTypeOK
<1>2. o # NULL
  BY DescriptorsAssumption, Zenon
<1> QED BY <1>1, <1>2, FewAreFinite, FS_CardinalityType, FS_EmptySet, Zenon DEF Finite

\* An object that is being made has no descriptor, no pin and one maker.
LEMMA MadeIsSole ==
    ASSUME TableInv, NEW t \in Makers
    PROVE  LET o == Latest(t) IN
           /\ o \in Objects /\ held[t] # <<>> /\ doomed[t] = NULL
           /\ references[o] = 1 /\ descriptors[o] = 1 /\ o \in open
           /\ Named(o) = {} /\ Making(o) = {t} /\ Pins(o) = {} /\ Doomed(o) = {}
<1> DEFINE o == Latest(t)
<1>1. held[t] # <<>> /\ doomed[t] = NULL /\ references[o] = 1
  BY Zenon DEF TableInv, NewIsSole
<1>2. o \in Objects
  <2>1. held \in [Threads -> Seq(Objects)] /\ t \in Threads
    BY Zenon DEF TableInv, ObjectsTypeOK, Makers
  <2> QED BY <2>1, <1>1, LatestIsHeld, Zenon
<1>3. t \in Making(o)
  BY Zenon DEF Making
<1>4. Cardinality(Making(o)) = 1 /\ Named(o) = {} /\ Pins(o) = {} /\ descriptors[o] = 1
  <2> HIDE DEF o
  <2> QED BY <1>1, <1>2, <1>3, Counted DEF Exact
<1>5. Making(o) = {t}
  <2> HIDE DEF o
  <2>1. PICK x : Making(o) = {x}
    BY <1>4, FewAreFinite, FS_Singleton, Zenon
  <2> QED BY <2>1, <1>3, Zenon
<1>6. o \in open /\ Doomed(o) = {}
  <2> HIDE DEF o
  <2> QED BY <1>1, <1>2, Counted DEF Exact
<1> QED BY <1>1, <1>2, <1>4, <1>5, <1>6, Zenon

\* So what has a descriptor or a pin, or is not open, is not being made.
LEMMA UsedIsMade ==
    ASSUME TableInv, NEW o \in Objects,
           Named(o) # {} \/ Pins(o) # {} \/ references[o] # 1 \/ o \notin open
    PROVE  \A t \in Makers : Latest(t) # o
BY MadeIsSole, Zenon

\* An object that is used is open, and nobody is about to destroy it.
LEMMA UsedIsOpen ==
    ASSUME TableInv, NEW o \in Objects, Named(o) # {} \/ Pins(o) # {} \/ Making(o) # {}
    PROVE  references[o] \in Nat \ {0} /\ Doomed(o) = {} /\ o \in open
<1>1. references[o] > 0 /\ references[o] \in Nat
  BY Counted DEF Exact
<1> QED BY <1>1, Counted DEF Exact

\* An object that a step leaves alone.
LEMMA ExactStays ==
    ASSUME NEW o, Exact(o), Finite(o),
           Named(o)' = Named(o), Making(o)' = Making(o), Doomed(o)' = Doomed(o),
           \A u \in Threads : Pinned(u, o)' = Pinned(u, o),
           references'[o] = references[o], descriptors'[o] = descriptors[o],
           o \in open' <=> o \in open
    PROVE  Exact(o)' /\ Finite(o)'
<1>1. Pins(o)' = Pins(o)
  BY PinsSame, Zenon
<1> QED BY <1>1, Zenon DEF Exact, Finite

-----------------------------------------------------------------------------
\* A step that changes no object.
LEMMA SkipKeeps ==
    ASSUME TableInv, UNCHANGED objects, Makers' = Makers
    PROVE  TableInv'
<1>1. \A o : Named(o)' = Named(o) /\ Doomed(o)' = Doomed(o) /\ Making(o)' = Making(o)
  BY Zenon DEF objects, Named, Doomed, Making, Latest
<1>2. \A o : \A u \in Threads : Pinned(u, o)' = Pinned(u, o)
  BY Zenon DEF objects, Pinned
<1>3. \A o \in Objects : Exact(o)' /\ Finite(o)'
  BY <1>1, <1>2, ExactStays, Zenon DEF objects, TableInv, LifetimesAreExact
<1>4. ObjectsTypeOK' /\ NewIsSole' /\ StreamsStay'
  BY Zenon DEF objects, TableInv, ObjectsTypeOK, NewIsSole, Latest, StreamsStay
<1> QED BY <1>3, <1>4, Zenon DEF TableInv, LifetimesAreExact

\* A thread gets a pin of an object that has a descriptor or a pin already.
LEMMA OnePinMore ==
    ASSUME TableInv, NEW t \in Threads \ Makers, NEW x \in Objects,
           Named(x) # {} \/ Pins(x) # {}, Makers' = Makers,
           held' = [held EXCEPT ![t] = Append(@, x)],
           references' = [references EXCEPT ![x] = @ + 1],
           UNCHANGED <<table, descriptors, open, doomed>>
    PROVE  TableInv'
<1>1. held[t] \in Seq(Objects) /\ Len(held[t]) \in Nat
  BY DEF TableInv, ObjectsTypeOK
<1>2. ObjectsTypeOK'
  BY <1>1 DEF TableInv, ObjectsTypeOK
<1>3. held'[t] = Append(held[t], x) /\ \A u \in Threads \ {t} : held'[u] = held[u]
  BY Zenon DEF TableInv, ObjectsTypeOK
<1>4. table' = table /\ descriptors' = descriptors /\ open' = open /\ doomed' = doomed
  BY Zenon
<1>5. \A u \in Makers : u # t /\ u \in Threads
  BY Zenon DEF Makers
<1>6. \A o : Named(o)' = Named(o) /\ Doomed(o)' = Doomed(o) /\ Making(o)' = Making(o)
  BY <1>3, <1>5, Zenon DEF Named, Doomed, Making, Latest
<1>7. \A o : \A u \in Threads \ {t} : Pinned(u, o)' = Pinned(u, o)
  BY <1>3, Zenon DEF Pinned
<1>8. \A o : o # x => Pinned(t, o)' = Pinned(t, o)
  BY <1>1, <1>3 DEF Pinned
<1>9. Pinned(t, x)' = Pinned(t, x) \union {Len(held[t]) + 1} /\ Len(held[t]) + 1 \notin Pinned(t, x)
  BY <1>1, <1>3 DEF Pinned
<1>11. ASSUME NEW o \in Objects PROVE Exact(o)' /\ Finite(o)'
  <2>1. CASE o # x
    <3>1. references'[o] = references[o]
      BY <2>1, Zenon DEF TableInv, ObjectsTypeOK
    <3>2. \A u \in Threads : Pinned(u, o)' = Pinned(u, o)
      BY <1>7, <1>8, <2>1, Zenon
    <3> QED BY <3>1, <3>2, <1>6, Counted, ExactStays, Zenon
  <2>2. CASE o = x
    <3>1. Finite(o)' /\ Cardinality(Pins(o)') = Cardinality(Pins(o)) + 1
      BY <1>7, <1>9, <2>2, Counted, PinsGain, Zenon
    <3>2. references'[o] = references[o] + 1
      BY <2>2, Counted, Zenon DEF TableInv, ObjectsTypeOK
    <3>3. references[o] > 0 /\ Doomed(o) = {} /\ o \in open
      BY <2>2, UsedIsOpen
    <3>4. references'[o] = descriptors'[o] + Cardinality(Pins(o)') /\ references'[o] > 0
      <4>1. /\ references[o] = descriptors[o] + Cardinality(Pins(o))
            /\ references[o] \in Nat /\ descriptors[o] \in Nat /\ Cardinality(Pins(o)) \in Nat
        BY Counted, Zenon DEF Exact
      <4> QED BY <4>1, <3>1, <3>2, <1>4
    <3> QED BY <3>1, <3>3, <3>4, <1>4, <1>6, Counted, Zenon DEF Exact
  <2> QED BY <2>1, <2>2, Zenon
<1>12. NewIsSole'
  <2>1. \A u \in Makers : Latest(u) # x /\ Latest(u) \in Objects
    BY UsedIsMade, MadeIsSole, Zenon
  <2> QED BY <2>1, <1>3, <1>5, Zenon DEF NewIsSole, Latest, TableInv, ObjectsTypeOK
<1>13. StreamsStay'
  BY Zenon DEF TableInv, StreamsStay
<1> QED BY <1>2, <1>11, <1>12, <1>13, Zenon DEF TableInv, LifetimesAreExact

\* sn_pin: the object has the descriptor it is found by.
LEMMA PinKeeps ==
    ASSUME TableInv, NEW t \in Threads \ Makers, NEW fd \in Fds, NEW kinds \in SUBSET Objects,
           sn_pin(t, fd, kinds), Makers' = Makers
    PROVE  TableInv'
<1>1. table[fd] \in Objects /\ fd \in Named(table[fd])
  BY Zenon DEF sn_pin, Named
<1> QED BY <1>1, OnePinMore, Zenon DEF sn_pin

\* sn_unpin: the last user of the object is to destroy it.
LEMMA UnpinKeeps ==
    ASSUME TableInv, NEW t \in Threads \ Makers, sn_unpin(t), Makers' = Makers
    PROVE  TableInv'
<1>0. PICK x : x = Latest(t)
  BY Zenon
<1>1. /\ held \in [Threads -> Seq(Objects)] /\ held[t] # <<>> /\ doomed[t] = NULL
      /\ Len(held[t]) \in Nat \ {0} /\ x = held[t][Len(held[t])] /\ x \in Objects
  <2>1. held \in [Threads -> Seq(Objects)] /\ held[t] # <<>> /\ doomed[t] = NULL
    BY Zenon DEF TableInv, ObjectsTypeOK, sn_unpin
  <2> QED BY <1>0, <2>1, LatestIsHeld, Zenon
<1>2. /\ table' = table /\ open' = open /\ descriptors' = descriptors
      /\ references' = [references EXCEPT ![x] = @ - 1]
      /\ doomed' = [doomed EXCEPT ![t] = IF references[x] = 1 THEN x ELSE NULL]
      /\ LetGo(t)
  BY <1>0, Zenon DEF sn_unpin
<1>3. /\ held' \in [Threads -> Seq(Objects)]
      /\ Len(held'[t]) = Len(held[t]) - 1 /\ DOMAIN held'[t] = 1 .. Len(held[t]) - 1
      /\ \A i \in 1 .. Len(held[t]) - 1 : held'[t][i] = held[t][i]
      /\ \A u \in Threads \ {t} : held'[u] = held[u]
  BY <1>1, <1>2, OthersAreKept, Zenon
<1>4. \A o : \A u \in Threads \ {t} : Pinned(u, o)' = Pinned(u, o)
  BY <1>3, Zenon DEF Pinned
<1>5. \A o : o # x => Pinned(t, o)' = Pinned(t, o)
  <2>1. SUFFICES ASSUME NEW o, o # x PROVE Pinned(t, o)' = Pinned(t, o)
    BY Zenon
  <2>2. Pinned(t, o) = {i \in 1 .. Len(held[t]) : held[t][i] = o}
    BY <1>1 DEF Pinned
  <2>3. Pinned(t, o)' = {i \in 1 .. Len(held[t]) - 1 : held[t][i] = o}
    BY <1>1, <1>3, Zenon DEF Pinned
  <2>4. ~(held[t][Len(held[t])] = o)
    BY <1>1, <2>1, Zenon
  <2> QED BY <2>2, <2>3, <2>4, <1>1
<1>6. Pinned(t, x)' = Pinned(t, x) \ {Len(held[t])} /\ Len(held[t]) \in Pinned(t, x)
  BY <1>1, <1>3 DEF Pinned
<1>7. <<t, Len(held[t])>> \in Pins(x)
  BY <1>6 DEF Pins
<1>8. references[x] \in Nat \ {0} /\ Doomed(x) = {} /\ x \in open
  BY <1>1, <1>7, UsedIsOpen, Zenon
<1>9. ObjectsTypeOK'
  <2>1. references' \in [Objects -> Nat]
    BY <1>2, <1>8 DEF TableInv, ObjectsTypeOK
  <2>2. doomed' \in [Threads -> Objects \union {NULL}]
    BY <1>1, <1>2, Zenon DEF TableInv, ObjectsTypeOK
  <2> QED BY <2>1, <2>2, <1>2, <1>3, Zenon DEF TableInv, ObjectsTypeOK
<1>10. \A u \in Makers : u # t /\ u \in Threads
  BY Zenon DEF Makers
<1>11. \A o : Named(o)' = Named(o) /\ Making(o)' = Making(o)
  BY <1>2, <1>3, <1>10, Zenon DEF Named, Making, Latest
<1>12. ASSUME NEW o \in Objects PROVE Exact(o)' /\ Finite(o)'
  <2>1. CASE o # x
    <3>1. references'[o] = references[o]
      BY <1>2, <2>1, Zenon DEF TableInv, ObjectsTypeOK
    <3>2. \A u \in Threads : Pinned(u, o)' = Pinned(u, o)
      BY <1>4, <1>5, <2>1, Zenon
    <3>3. Doomed(o)' = Doomed(o)
      BY <1>1, <1>2, <2>1, DescriptorsAssumption, Zenon DEF Doomed, TableInv, ObjectsTypeOK
    <3> QED BY <3>1, <3>2, <3>3, <1>2, <1>11, Counted, ExactStays, Zenon
  <2>2. CASE o = x
    <3>1. Finite(o)' /\ Cardinality(Pins(o)') = Cardinality(Pins(o)) - 1
      BY <1>4, <1>6, <2>2, Counted, PinsLose, Zenon
    <3>2. references'[o] = references[o] - 1
      BY <1>1, <1>2, <2>2, Zenon DEF TableInv, ObjectsTypeOK
    <3>3. Doomed(o)' = IF references[o] = 1 THEN {t} ELSE {}
      <4>1. doomed'[t] = IF references[o] = 1 THEN o ELSE NULL
        BY <1>2, <2>2, Zenon DEF TableInv, ObjectsTypeOK
      <4>2. \A u \in Threads \ {t} : doomed'[u] = doomed[u] /\ doomed[u] # o
        BY <1>2, <1>8, <2>2, Zenon DEF Doomed, TableInv, ObjectsTypeOK
      <4> QED BY <4>1, <4>2, DescriptorsAssumption, Zenon DEF Doomed
    <3>4. Cardinality(Doomed(o)') <= 1
      BY <3>3, FS_EmptySet, FS_Singleton
    <3> QED BY <2>2, <3>1, <3>2, <3>3, <3>4, <1>2, <1>8, <1>11, Counted DEF Exact
  <2> QED BY <2>1, <2>2, Zenon
<1>13. NewIsSole'
  <2>1. \A u \in Makers : Latest(u) # x /\ Latest(u) \in Objects
    BY <1>1, <1>7, UsedIsMade, MadeIsSole, Zenon
  <2> QED BY <2>1, <1>2, <1>3, <1>10 DEF NewIsSole, Latest, TableInv, ObjectsTypeOK
<1>14. StreamsStay'
  BY <1>2, Zenon DEF TableInv, StreamsStay
<1> QED BY <1>9, <1>12, <1>13, <1>14, Zenon DEF TableInv, LifetimesAreExact

\* sn_new: what is not open has no user, so its maker is the only one.
LEMMA NewKeeps ==
    ASSUME TableInv, NEW t \in Threads \ Makers, doomed[t] = NULL, NEW x \in Objects,
           sn_new(t, x), Makers' = Makers \union {t}
    PROVE  TableInv'
<1>1. held[t] \in Seq(Objects) /\ Len(held[t]) \in Nat
  BY DEF TableInv, ObjectsTypeOK
<1>2. /\ table' = table /\ doomed' = doomed /\ open' = open \union {x}
      /\ references' = [references EXCEPT ![x] = 1]
      /\ descriptors' = [descriptors EXCEPT ![x] = 1]
  BY Zenon DEF sn_new
<1>3. held'[t] = Append(held[t], x) /\ \A u \in Threads \ {t} : held'[u] = held[u]
  BY Zenon DEF TableInv, ObjectsTypeOK, sn_new
<1>4. ObjectsTypeOK'
  BY <1>1 DEF TableInv, ObjectsTypeOK, sn_new
<1>5. \A u \in Makers : u # t /\ u \in Threads
  BY Zenon DEF Makers
<1>6. \A o : Named(o)' = Named(o) /\ Doomed(o)' = Doomed(o)
  BY <1>2, Zenon DEF Named, Doomed
<1>7. \A o : \A u \in Threads \ {t} : Pinned(u, o)' = Pinned(u, o)
  BY <1>3, Zenon DEF Pinned
<1>8. \A o : Pinned(t, o)' = Pinned(t, o)
  BY <1>1, <1>3 DEF Pinned
<1>9. Latest(t)' = x /\ \A u \in Makers : Latest(u)' = Latest(u)
  BY <1>1, <1>3, <1>5 DEF Latest
<1>10. \A o : Making(o)' = IF o = x THEN Making(o) \union {t} ELSE Making(o)
  BY <1>9, Zenon DEF Making
<1>11. /\ x \notin open /\ references[x] = 0 /\ Named(x) = {} /\ Making(x) = {} /\ Pins(x) = {}
       /\ Doomed(x) = {}
  <2>1. x \notin open
    BY Zenon DEF sn_new
  <2>2. Named(x) = {} /\ Making(x) = {} /\ Pins(x) = {}
    BY <2>1, UsedIsOpen, Zenon
  <2> QED BY <2>1, <2>2, Counted DEF Exact
<1>12. ASSUME NEW o \in Objects PROVE Exact(o)' /\ Finite(o)'
  <2>1. \A u \in Threads : Pinned(u, o)' = Pinned(u, o)
    BY <1>7, <1>8, Zenon
  <2>2. CASE o # x
    <3>1. references'[o] = references[o] /\ descriptors'[o] = descriptors[o]
      BY <1>2, <2>2, Zenon DEF TableInv, ObjectsTypeOK
    <3> QED BY <3>1, <2>1, <2>2, <1>2, <1>6, <1>10, Counted, ExactStays, Zenon
  <2>3. CASE o = x
    <3>1. Pins(o)' = {} /\ Finite(o)'
      BY <2>1, <2>3, <1>11, PinsSame, FS_EmptySet, Zenon DEF Finite
    <3>2. references'[o] = 1 /\ descriptors'[o] = 1 /\ o \in open'
      BY <1>2, <2>3, Zenon DEF TableInv, ObjectsTypeOK
    <3>3. Named(o)' = {} /\ Making(o)' = {t} /\ Doomed(o)' = {}
      BY <2>3, <1>6, <1>10, <1>11, Zenon
    <3>4. Cardinality({t}) = 1 /\ Cardinality({}) = 0
      BY FS_EmptySet, FS_Singleton, Zenon
    <3> QED BY <3>1, <3>2, <3>3, <3>4 DEF Exact
  <2> QED BY <2>2, <2>3, Zenon
<1>13. NewIsSole'
  <2>1. \A u \in Makers : Latest(u) # x /\ Latest(u) \in Objects /\ held[u] # <<>>
                          /\ doomed[u] = NULL /\ references[Latest(u)] = 1
    BY <1>11, UsedIsMade, MadeIsSole, Zenon
  <2>2. \A u \in Makers : references'[Latest(u)] = 1
    BY <2>1, <1>2, Zenon DEF TableInv, ObjectsTypeOK
  <2>3. held'[t] # <<>> /\ references'[x] = 1
    BY <1>1, <1>2, <1>3, SMTT(20) DEF TableInv, ObjectsTypeOK
  <2> QED BY <2>1, <2>2, <2>3, <1>2, <1>3, <1>5, <1>9, Zenon DEF NewIsSole
<1>14. StreamsStay'
  BY <1>2, Zenon DEF TableInv, StreamsStay
<1> QED BY <1>4, <1>12, <1>13, <1>14, Zenon DEF TableInv, LifetimesAreExact

\* destroy: the object it closes is no stream, for those keep their descriptors.
LEMMA DestroyKeeps ==
    ASSUME TableInv, NEW t \in Threads, destroy(t), Makers' = Makers
    PROVE  TableInv'
<1>0. PICK x : x = doomed[t]
  BY Zenon
<1>1. x \in Objects /\ t \in Doomed(x)
  BY <1>0, Zenon DEF TableInv, ObjectsTypeOK, destroy, Doomed
<1>2. Cardinality(Doomed(x)) = 1 /\ references[x] = 0 /\ x \in open
  BY <1>1, Counted DEF Exact
<1>3. Doomed(x) = {t}
  <2>1. PICK y : Doomed(x) = {y}
    BY <1>2, FewAreFinite, FS_Singleton, Zenon
  <2> QED BY <2>1, <1>1, Zenon
<1>4. x \notin Streams
  <2>1. SUFFICES ASSUME x \in Streams PROVE FALSE
    BY Zenon
  <2>2. Named(x) # {}
    BY <2>1, Zenon DEF TableInv, StreamsStay, Named
  <2> QED BY <2>2, <1>1, <1>3, UsedIsOpen, Zenon
<1>5. /\ table' = table /\ references' = references /\ descriptors' = descriptors /\ held' = held
      /\ open' = open \ {x} /\ doomed' = [doomed EXCEPT ![t] = NULL]
  BY <1>0, <1>4, Zenon DEF destroy
<1>6. ObjectsTypeOK'
  BY <1>5, Zenon DEF TableInv, ObjectsTypeOK
<1>7. \A o : Named(o)' = Named(o) /\ Making(o)' = Making(o)
  BY <1>5, Zenon DEF Named, Making, Latest
<1>8. \A o : \A u \in Threads : Pinned(u, o)' = Pinned(u, o)
  BY <1>5, Zenon DEF Pinned
<1>9. ASSUME NEW o \in Objects PROVE Doomed(o)' = IF o = x THEN {} ELSE Doomed(o)
  <2>1. doomed'[t] = NULL /\ \A u \in Threads \ {t} : doomed'[u] = doomed[u]
    BY <1>5, Zenon DEF TableInv, ObjectsTypeOK
  <2>2. doomed[t] = x /\ o # NULL /\ \A u \in Threads \ {t} : doomed[u] # x
    BY <1>0, <1>3, DescriptorsAssumption, Zenon DEF Doomed
  <2> QED BY <2>1, <2>2, Zenon DEF Doomed
<1>10. ASSUME NEW o \in Objects PROVE Exact(o)' /\ Finite(o)'
  <2>1. CASE o # x
    <3>1. Doomed(o)' = Doomed(o) /\ (o \in open' <=> o \in open)
      BY <2>1, <1>5, <1>9, Zenon
    <3> QED BY <3>1, <1>5, <1>7, <1>8, Counted, ExactStays, Zenon
  <2>2. CASE o = x
    <3>1. Doomed(o)' = {} /\ Cardinality(Doomed(o)') = 0
      BY <2>2, <1>9, FS_EmptySet, Zenon
    <3>2. Pins(o)' = Pins(o)
      BY <1>8, PinsSame, Zenon
    <3> QED BY <3>1, <3>2, <2>2, <1>2, <1>5, <1>7, Counted DEF Exact, Finite
  <2> QED BY <2>1, <2>2, Zenon
<1>11. NewIsSole' /\ StreamsStay'
  BY <1>5 DEF TableInv, NewIsSole, StreamsStay, Latest, ObjectsTypeOK
<1> QED BY <1>6, <1>10, <1>11, Zenon DEF TableInv, LifetimesAreExact

\* A descriptor that was free names an object: one more name, and no other changes.
LEMMA NameGained ==
    ASSUME TableInv, NEW fd, LowestFree(fd), NEW x \in Objects,
           table' = [table EXCEPT ![fd] = x]
    PROVE  /\ table' \in [Fds -> Objects \union {NULL}]
           /\ \A o \in Objects \ {x} : Named(o)' = Named(o)
           /\ Named(x)' = Named(x) \union {fd} /\ fd \notin Named(x)
           /\ StreamsStay'
<1>1. fd \in Fds /\ fd >= Standard /\ table[fd] = NULL /\ NULL \notin Objects
  BY DescriptorsAssumption, Zenon DEF LowestFree, FreeFds
<1>2. table' \in [Fds -> Objects \union {NULL}]
  BY Zenon DEF TableInv, ObjectsTypeOK
<1>3. table'[fd] = x /\ \A g \in Fds \ {fd} : table'[g] = table[g]
  BY <1>1, Zenon DEF TableInv, ObjectsTypeOK
<1>4. \A o \in Objects \ {x} : Named(o)' = Named(o)
  BY <1>1, <1>3, Zenon DEF Named
<1>5. Named(x)' = Named(x) \union {fd} /\ fd \notin Named(x)
  BY <1>1, <1>3, Zenon DEF Named
<1>6. StreamsStay'
  <2>1. ASSUME NEW o \in Streams PROVE \E g \in Fds : g < Standard /\ table'[g] = o
    <3>1. PICK g \in Fds : g < Standard /\ table[g] = o
      BY Zenon DEF TableInv, StreamsStay
    <3>2. o # NULL
      BY <1>1, Zenon DEF Objects
    <3>3. table'[g] = o
      BY <1>1, <1>3, <3>1, <3>2, Zenon
    <3> QED BY <3>1, <3>3, Zenon
  <2> QED BY <2>1, Zenon DEF StreamsStay
<1> QED BY <1>2, <1>4, <1>5, <1>6, Zenon

\* sn_install: the object gets the lowest descriptor, or its maker destroys it.
LEMMA InstallKeeps ==
    ASSUME TableInv, NEW t \in Makers, sn_install(t), Makers' = Makers \ {t}
    PROVE  TableInv'
<1>0. PICK x : x = Latest(t)
  BY Zenon
<1>1. /\ x \in Objects /\ held[t] # <<>> /\ doomed[t] = NULL /\ references[x] = 1
      /\ descriptors[x] = 1 /\ x \in open
      /\ Named(x) = {} /\ Making(x) = {t} /\ Pins(x) = {} /\ Doomed(x) = {}
  BY <1>0, MadeIsSole, Zenon
<1>2. t \in Threads /\ held \in [Threads -> Seq(Objects)]
  BY Zenon DEF Makers, TableInv, ObjectsTypeOK
<1>3. /\ held' \in [Threads -> Seq(Objects)]
      /\ Len(held'[t]) = Len(held[t]) - 1 /\ DOMAIN held'[t] = 1 .. Len(held[t]) - 1
      /\ \A i \in 1 .. Len(held[t]) - 1 : held'[t][i] = held[t][i]
      /\ \A u \in Threads \ {t} : held'[u] = held[u]
  BY <1>1, <1>2, OthersAreKept, Zenon DEF sn_install
<1>4. open' = open
  BY Zenon DEF sn_install
<1>5. \A o : \A u \in Threads \ {t} : Pinned(u, o)' = Pinned(u, o)
  BY <1>3, Zenon DEF Pinned
<1>6. \A o : Pinned(t, o)' = Pinned(t, o)
  <2>1. DOMAIN held[t] = 1 .. Len(held[t]) /\ Len(held[t]) \in Nat
    BY <1>2
  <2> QED BY <2>1, <1>3 DEF Pinned
<1>7. \A o : Making(o)' = Making(o) \ {t}
  <2>1. \A u \in Makers \ {t} : Latest(u)' = Latest(u)
    BY <1>3, Zenon DEF Latest, Makers
  <2> QED BY <2>1, Zenon DEF Making
<1>8. \A o : \A u \in Threads : Pinned(u, o)' = Pinned(u, o)
  BY <1>5, <1>6, Zenon
<1>9. \A u \in Makers \ {t} : /\ u \in Threads /\ held'[u] = held[u] /\ Latest(u)' = Latest(u)
                             /\ Latest(u) # x /\ Latest(u) \in Objects /\ held[u] # <<>>
                             /\ doomed[u] = NULL /\ references[Latest(u)] = 1
  <2>1. \A u \in Makers : Making(Latest(u)) = {u}
    BY MadeIsSole, Zenon
  <2>2. \A u \in Makers \ {t} : Latest(u) # x
    BY <1>1, <2>1, Zenon
  <2> QED BY <2>2, <1>3, MadeIsSole, Zenon DEF Latest, Makers
<1>10. \A o \in Objects \ {x} : Making(o)' = Making(o)
  BY <1>0, <1>7, Zenon DEF Making
<1>11. CASE FreeFds = {}
  <2>1. /\ table' = table /\ doomed' = [doomed EXCEPT ![t] = x]
        /\ references' = [references EXCEPT ![x] = 0]
        /\ descriptors' = [descriptors EXCEPT ![x] = 0]
    BY <1>0, <1>11, Zenon DEF sn_install
  <2>2. ObjectsTypeOK'
    BY <2>1, <1>1, <1>3, <1>4, Zenon DEF TableInv, ObjectsTypeOK
  <2>3. \A o : Named(o)' = Named(o)
    BY <2>1, Zenon DEF Named
  <2>4. \A o \in Objects : Doomed(o)' = IF o = x THEN {t} ELSE Doomed(o)
    <3>1. doomed'[t] = x /\ doomed[t] = NULL /\ \A u \in Threads \ {t} : doomed'[u] = doomed[u]
      BY <2>1, <1>1, <1>2, Zenon DEF TableInv, ObjectsTypeOK
    <3>2. \A u \in Threads : doomed[u] # x
      BY <1>1, Zenon DEF Doomed
    <3> QED BY <3>1, <3>2, <1>2, DescriptorsAssumption DEF Doomed
  <2>5. ASSUME NEW o \in Objects PROVE Exact(o)' /\ Finite(o)'
    <3>1. CASE o # x
      <4>1. references'[o] = references[o] /\ descriptors'[o] = descriptors[o]
        BY <2>1, <3>1, Zenon DEF TableInv, ObjectsTypeOK
      <4>2. Doomed(o)' = Doomed(o)
        BY <2>4, <3>1, Zenon
      <4> QED BY <4>1, <4>2, <3>1, <2>3, <1>4, <1>8, <1>10, Counted, ExactStays, Zenon
    <3>2. CASE o = x
      <4>1. Pins(o)' = {} /\ Finite(o)'
        BY <3>2, <1>1, <1>8, PinsSame, FS_EmptySet, Zenon DEF Finite
      <4>2. references'[o] = 0 /\ descriptors'[o] = 0 /\ o \in open'
        BY <2>1, <1>1, <1>4, <3>2, Zenon DEF TableInv, ObjectsTypeOK
      <4>3. Named(o)' = {} /\ Making(o)' = {} /\ Doomed(o)' = {t}
        BY <3>2, <2>3, <2>4, <1>1, <1>7, Zenon
      <4>4. Cardinality({t}) = 1 /\ Cardinality({}) = 0
        BY FS_EmptySet, FS_Singleton, Zenon
      <4> QED BY <4>1, <4>2, <4>3, <4>4 DEF Exact
    <3> QED BY <3>1, <3>2, Zenon
  <2>6. NewIsSole'
    BY <2>1, <1>9, <1>2, Zenon DEF NewIsSole, TableInv, ObjectsTypeOK
  <2>7. StreamsStay'
    BY <2>1, Zenon DEF TableInv, StreamsStay
  <2> QED BY <2>2, <2>5, <2>6, <2>7, Zenon DEF TableInv, LifetimesAreExact
<1>12. CASE FreeFds # {}
  <2>1. references' = references /\ descriptors' = descriptors /\ doomed' = doomed
    BY <1>12, Zenon DEF sn_install
  <2>2. PICK fd : LowestFree(fd) /\ table' = [table EXCEPT ![fd] = x]
    BY <1>0, <1>12, Zenon DEF sn_install
  <2>3. /\ table' \in [Fds -> Objects \union {NULL}]
        /\ \A o \in Objects \ {x} : Named(o)' = Named(o)
        /\ Named(x)' = Named(x) \union {fd} /\ fd \notin Named(x)
        /\ StreamsStay'
    BY <2>2, <1>1, NameGained, Zenon
  <2>4. ObjectsTypeOK'
    BY <2>1, <2>3, <1>3, <1>4, Zenon DEF TableInv, ObjectsTypeOK
  <2>5. \A o : Doomed(o)' = Doomed(o)
    BY <2>1, Zenon DEF Doomed
  <2>6. ASSUME NEW o \in Objects PROVE Exact(o)' /\ Finite(o)'
    <3>1. CASE o # x
      <4>1. Named(o)' = Named(o) /\ Making(o)' = Making(o)
        BY <2>3, <3>1, <1>10, Zenon
      <4> QED BY <4>1, <2>1, <2>5, <1>4, <1>8, Counted, ExactStays, Zenon
    <3>2. CASE o = x
      <4>1. Pins(o)' = {} /\ Finite(o)'
        BY <3>2, <1>1, <1>8, PinsSame, FS_EmptySet, Zenon DEF Finite
      <4>2. references'[o] = 1 /\ descriptors'[o] = 1 /\ o \in open'
        BY <2>1, <1>1, <1>4, <3>2, Zenon
      <4>3. Named(o)' = {fd} /\ Making(o)' = {} /\ Doomed(o)' = {}
        BY <3>2, <2>3, <2>5, <1>1, <1>7, Zenon
      <4>4. Cardinality({fd}) = 1 /\ Cardinality({}) = 0
        BY FS_EmptySet, FS_Singleton, Zenon
      <4> QED BY <4>1, <4>2, <4>3, <4>4 DEF Exact
    <3> QED BY <3>1, <3>2, Zenon
  <2>7. NewIsSole'
    BY <2>1, <1>9, Zenon DEF NewIsSole
  <2> QED BY <2>3, <2>4, <2>6, <2>7, Zenon DEF TableInv, LifetimesAreExact
<1> QED BY <1>11, <1>12, Zenon

\* dup: one more descriptor of an object that has one.
LEMMA DupKeeps ==
    ASSUME TableInv, NEW fd \in Fds, dup(fd), Makers' = Makers
    PROVE  TableInv'
<1>0. PICK x : x = table[fd]
  BY Zenon
<1>1. x \in Objects /\ fd \in Named(x)
  BY <1>0, Zenon DEF dup, Named, TableInv, ObjectsTypeOK
<1>2. PICK new : LowestFree(new) /\ table' = [table EXCEPT ![new] = x]
  BY <1>0, Zenon DEF dup
<1>3. /\ open' = open /\ held' = held /\ doomed' = doomed
      /\ references' = [references EXCEPT ![x] = @ + 1]
      /\ descriptors' = [descriptors EXCEPT ![x] = @ + 1]
  BY <1>0, Zenon DEF dup
<1>4. /\ table' \in [Fds -> Objects \union {NULL}]
      /\ \A o \in Objects \ {x} : Named(o)' = Named(o)
      /\ Named(x)' = Named(x) \union {new} /\ new \notin Named(x)
      /\ StreamsStay'
  BY <1>1, <1>2, NameGained, Zenon
<1>5. ObjectsTypeOK'
  <2>1. references' \in [Objects -> Nat] /\ descriptors' \in [Objects -> Nat]
    BY <1>1, <1>3 DEF TableInv, ObjectsTypeOK
  <2> QED BY <2>1, <1>3, <1>4, Zenon DEF TableInv, ObjectsTypeOK
<1>6. \A o : Doomed(o)' = Doomed(o) /\ Making(o)' = Making(o)
  BY <1>3, Zenon DEF Doomed, Making, Latest
<1>7. \A o : \A u \in Threads : Pinned(u, o)' = Pinned(u, o)
  BY <1>3, Zenon DEF Pinned
<1>8. ASSUME NEW o \in Objects PROVE Exact(o)' /\ Finite(o)'
  <2>1. CASE o # x
    <3>1. Named(o)' = Named(o) /\ references'[o] = references[o] /\ descriptors'[o] = descriptors[o]
      BY <2>1, <1>3, <1>4, Zenon DEF TableInv, ObjectsTypeOK
    <3> QED BY <3>1, <1>3, <1>6, <1>7, Counted, ExactStays, Zenon
  <2>2. CASE o = x
    <3>1. Pins(o)' = Pins(o)
      BY <1>7, PinsSame, Zenon
    <3>2. Cardinality(Named(o)') = Cardinality(Named(o)) + 1
      BY <2>2, <1>4, FewAreFinite, FS_AddElement, Zenon
    <3>3. references'[o] = references[o] + 1 /\ descriptors'[o] = descriptors[o] + 1
      BY <2>2, <1>3, Zenon DEF TableInv, ObjectsTypeOK
    <3>4. references[o] > 0 /\ Doomed(o) = {} /\ o \in open
      BY <2>2, <1>1, UsedIsOpen
    <3> QED BY <3>1, <3>2, <3>3, <3>4, <1>3, <1>6, Counted DEF Exact, Finite
  <2> QED BY <2>1, <2>2, Zenon
<1>9. NewIsSole'
  <2>1. \A u \in Makers : Latest(u) # x /\ Latest(u) \in Objects
    BY <1>1, UsedIsMade, MadeIsSole, Zenon
  <2> QED BY <2>1, <1>3, Zenon DEF NewIsSole, Latest, TableInv, ObjectsTypeOK
<1> QED BY <1>4, <1>5, <1>8, <1>9, Zenon DEF TableInv, LifetimesAreExact

\* close: the descriptor goes; without another and without a pin the object does.
LEMMA CloseKeeps ==
    ASSUME TableInv, NEW t \in Threads, doomed[t] = NULL, NEW fd \in Fds, t \notin Makers,
           close_descriptor(t, fd), Makers' = Makers
    PROVE  TableInv'
<1>0. PICK x : x = table[fd]
  BY Zenon
<1>1. x \in Objects /\ fd \in Named(x) /\ fd >= Standard
  BY <1>0, Zenon DEF close_descriptor, Named, TableInv, ObjectsTypeOK
<1>2. /\ open' = open /\ held' = held /\ table' = [table EXCEPT ![fd] = NULL]
      /\ references' = [references EXCEPT ![x] = @ - 1]
      /\ descriptors' = [descriptors EXCEPT ![x] = @ - 1]
      /\ doomed' = [doomed EXCEPT ![t] = IF references[x] = 1 THEN x ELSE NULL]
  BY <1>0, Zenon DEF close_descriptor, LastUser
<1>3. references[x] \in Nat \ {0} /\ Doomed(x) = {} /\ x \in open /\ descriptors[x] \in Nat \ {0}
  <2>1. Cardinality(Named(x)) > 0
    BY <1>1, Counted
  <2>2. descriptors[x] \in Nat \ {0}
    BY <2>1, <1>1, Counted DEF Exact
  <2> QED BY <2>2, <1>1, UsedIsOpen, Zenon
<1>4. table'[fd] = NULL /\ \A g \in Fds \ {fd} : table'[g] = table[g]
  BY <1>2, Zenon DEF TableInv, ObjectsTypeOK
<1>5. \A o \in Objects : Named(o)' = Named(o) \ {fd}
  BY <1>4, DescriptorsAssumption, Zenon DEF Named
<1>6. \A o \in Objects : o # x => Named(o)' = Named(o)
  BY <1>0, <1>5, Zenon DEF Named
<1>7. ObjectsTypeOK'
  <2>1. references' \in [Objects -> Nat] /\ descriptors' \in [Objects -> Nat]
    BY <1>2, <1>3 DEF TableInv, ObjectsTypeOK
  <2>2. doomed' \in [Threads -> Objects \union {NULL}]
    BY <1>1, <1>2, Zenon DEF TableInv, ObjectsTypeOK
  <2>3. table' \in [Fds -> Objects \union {NULL}]
    BY <1>2, Zenon DEF TableInv, ObjectsTypeOK
  <2> QED BY <2>1, <2>2, <2>3, <1>2, Zenon DEF TableInv, ObjectsTypeOK
<1>8. \A o : Making(o)' = Making(o)
  BY <1>2, Zenon DEF Making, Latest
<1>9. \A o : \A u \in Threads : Pinned(u, o)' = Pinned(u, o)
  BY <1>2, Zenon DEF Pinned
<1>10. ASSUME NEW o \in Objects PROVE Exact(o)' /\ Finite(o)'
  <2>1. CASE o # x
    <3>1. Named(o)' = Named(o) /\ references'[o] = references[o] /\ descriptors'[o] = descriptors[o]
      BY <2>1, <1>2, <1>6, Zenon DEF TableInv, ObjectsTypeOK
    <3>2. Doomed(o)' = Doomed(o)
      BY <1>2, <2>1, DescriptorsAssumption, Zenon DEF Doomed, TableInv, ObjectsTypeOK
    <3> QED BY <3>1, <3>2, <1>2, <1>8, <1>9, Counted, ExactStays, Zenon
  <2>2. CASE o = x
    <3>1. Pins(o)' = Pins(o)
      BY <1>9, PinsSame, Zenon
    <3>2. Cardinality(Named(o)') = Cardinality(Named(o)) - 1
      BY <2>2, <1>1, <1>5, FewAreFinite, FS_RemoveElement, Zenon
    <3>3. references'[o] = references[o] - 1 /\ descriptors'[o] = descriptors[o] - 1
      BY <2>2, <1>2, Zenon DEF TableInv, ObjectsTypeOK
    <3>4. Doomed(o)' = IF references[o] = 1 THEN {t} ELSE {}
      <4>1. doomed'[t] = IF references[o] = 1 THEN o ELSE NULL
        BY <1>2, <2>2, Zenon DEF TableInv, ObjectsTypeOK
      <4>2. \A u \in Threads \ {t} : doomed'[u] = doomed[u] /\ doomed[u] # o
        BY <1>2, <1>3, <2>2, Zenon DEF Doomed, TableInv, ObjectsTypeOK
      <4> QED BY <4>1, <4>2, DescriptorsAssumption, Zenon DEF Doomed
    <3>5. Cardinality(Doomed(o)') <= 1
      BY <3>4, FS_EmptySet, FS_Singleton
    <3> QED BY <2>2, <3>1, <3>2, <3>3, <3>4, <3>5, <1>2, <1>3, <1>8, Counted DEF Exact, Finite
  <2> QED BY <2>1, <2>2, Zenon
<1>11. NewIsSole'
  <2>1. \A u \in Makers : u \in Threads /\ u # t /\ Latest(u) # x /\ Latest(u) \in Objects
    BY <1>1, UsedIsMade, MadeIsSole, Zenon DEF Makers
  <2> QED BY <2>1, <1>2, Zenon DEF NewIsSole, Latest, TableInv, ObjectsTypeOK
<1>12. StreamsStay'
  <2>1. ASSUME NEW o \in Streams PROVE \E g \in Fds : g < Standard /\ table'[g] = o
    <3>1. PICK g \in Fds : g < Standard /\ table[g] = o
      BY Zenon DEF TableInv, StreamsStay
    <3>2. g # fd
      <4>1. Standard \in Nat /\ g \in Int /\ fd \in Int
        BY DescriptorsAssumption, FS_CardinalityType DEF Standard, Fds
      <4> QED BY <4>1, <3>1, <1>1
    <3> QED BY <3>1, <3>2, <1>4, Zenon
  <2> QED BY <2>1, Zenon DEF StreamsStay
<1> QED BY <1>7, <1>10, <1>11, <1>12, Zenon DEF TableInv, LifetimesAreExact

-----------------------------------------------------------------------------
\* In the first state every stream has one descriptor: as many as there are streams
\* name them all.
LEMMA InitialTable == DescriptorsInit => TableInv
<1> SUFFICES ASSUME DescriptorsInit PROVE TableInv
  BY Zenon
<1>1. Standard \in Nat /\ Cardinality(Streams) = Standard /\ MaxFd \in Nat /\ Standard <= MaxFd
  BY DescriptorsAssumption, FS_CardinalityType, Zenon DEF Standard
<1>2. Streams \subseteq Objects /\ NULL \notin Objects
  BY DescriptorsAssumption, Zenon DEF Objects
<1>3. ObjectsTypeOK
  <2>1. table \in [Fds -> Objects \union {NULL}]
    BY <1>2, Zenon DEF DescriptorsInit
  <2>2. references \in [Objects -> Nat] /\ descriptors \in [Objects -> Nat]
    BY Zenon DEF DescriptorsInit
  <2>3. open \subseteq Objects /\ doomed \in [Threads -> Objects \union {NULL}]
    BY <1>2, Zenon DEF DescriptorsInit
  <2>4. held \in [Threads -> Seq(Objects)]
    BY DEF DescriptorsInit
  <2> QED BY <2>1, <2>2, <2>3, <2>4, Zenon DEF ObjectsTypeOK
<1>4. Makers = {} /\ \A o : Making(o) = {}
  BY Zenon DEF DescriptorsInit, Makers, Making
<1>5. \A o : Pins(o) = {}
  BY DEF DescriptorsInit, Pins, Pinned
<1>6. \A o \in Objects : Doomed(o) = {}
  BY <1>2, Zenon DEF DescriptorsInit, Doomed
<1>7. \A o \in Objects \ Streams : Named(o) = {}
  BY <1>2, Zenon DEF DescriptorsInit, Named
<1>8. \A fd \in Fds : table[fd] \in Streams => fd \in 0 .. Standard - 1
  <2>1. \A fd \in Fds : fd \in Nat /\ (table[fd] \in Streams => ~(fd >= Standard))
    BY <1>2 DEF DescriptorsInit, Fds
  <2> QED BY <1>1, <2>1
<1>9. \A o \in Streams : \E fd : Named(o) = {fd}
  <2> DEFINE Low == 0 .. Standard - 1
             name == [fd \in Low |-> table[fd]]
  <2>1. \A fd \in Low : fd \in Fds /\ ~(fd >= Standard)
    BY <1>1 DEF Fds
  <2>2. \A fd \in Low : table[fd] \in Streams
    BY <2>1, Zenon DEF DescriptorsInit
  <2>3. \A o \in Streams : \E fd \in Low : table[fd] = o
    BY <1>8, Zenon DEF DescriptorsInit
  <2>4. name \in Surjection(Low, Streams)
    BY <2>2, <2>3, Zenon DEF Surjection
  <2>5. IsFiniteSet(Low) /\ Cardinality(Low) = Standard
    BY <1>1, FS_Interval
  <2>6. name \in Injection(Low, Streams)
    <3> HIDE DEF Low, name
    <3> QED BY <2>4, <2>5, <1>1, FS_SurjSameCardinalityImpliesInj, Zenon
  <2>7. \A fd, g \in Low : table[fd] = table[g] => fd = g
    BY <2>6, Zenon DEF Injection, IsInjective
  <2>8. ASSUME NEW o \in Streams PROVE \E fd : Named(o) = {fd}
    <3>1. PICK fd \in Low : table[fd] = o
      BY <2>3, Zenon
    <3>2. \A g \in Fds : table[g] = o => g = fd
      BY <3>1, <2>7, <1>8, Zenon
    <3>3. Named(o) = {fd}
      BY <3>1, <3>2, <2>1, Zenon DEF Named
    <3> QED BY <3>3, Zenon
  <2> QED BY <2>8, Zenon
<1>10. ASSUME NEW o \in Objects PROVE Exact(o) /\ Finite(o)
  <2>1. Cardinality({}) = 0 /\ IsFiniteSet({})
    BY FS_EmptySet, Zenon
  <2>2. Cardinality(Named(o)) = IF o \in Streams THEN 1 ELSE 0
    BY <2>1, <1>7, <1>9, FS_Singleton, Zenon
  <2>3. references[o] = (IF o \in Streams THEN 1 ELSE 0) /\ descriptors[o] = references[o]
        /\ open = Streams
    BY Zenon DEF DescriptorsInit
  <2> QED BY <2>1, <2>2, <2>3, <1>4, <1>5, <1>6 DEF Exact, Finite
<1>11. NewIsSole
  BY <1>4, Zenon DEF NewIsSole
<1>12. StreamsStay
  <2>1. ASSUME NEW o \in Streams PROVE \E fd \in Fds : fd < Standard /\ table[fd] = o
    <3>1. PICK fd \in Fds : table[fd] = o
      BY Zenon DEF DescriptorsInit
    <3> QED BY <3>1, <1>1, <1>8
  <2> QED BY <2>1, Zenon DEF StreamsStay
<1> QED BY <1>3, <1>10, <1>11, <1>12, Zenon DEF TableInv, LifetimesAreExact

-----------------------------------------------------------------------------
\* The steps of the calls on the table.
Ops == {"none", "open", "use", "copy", "watch", "accept", "adopt", "part", "next"}

\* Where the step of one thread takes the calls.
LEMMA CallsGo ==
    ASSUME DescriptorsInv, NEW t \in Threads, NEW call \in Ops, Goto(t, call)
    PROVE  /\ op' \in [Threads -> Ops] /\ op'[t] = call
           /\ \A u \in Threads \ {t} : op'[u] = op[u]
           /\ call \notin {"open", "adopt"} => Makers' = Makers \ {t}
           /\ call \in {"open", "adopt"} => Makers' = Makers \union {t}
<1>1. op \in [Threads -> Ops]
  BY Zenon DEF DescriptorsInv, DescriptorsTypeOK, Ops
<1>2. op' \in [Threads -> Ops] /\ op'[t] = call /\ \A u \in Threads \ {t} : op'[u] = op[u]
  BY <1>1, Zenon DEF Goto
<1>3. call # "channel"
  BY Zenon DEF Ops
<1> QED BY <1>2, <1>3, Zenon DEF Makers

\* The objects are in order after a step of one thread: so is the rest.
LEMMA RestFollows ==
    ASSUME DescriptorsInv, TableInv', NEW t \in Threads,
           op' \in [Threads -> Ops], \A u \in Threads \ {t} : op'[u] = op[u],
           \A u \in Threads \ {t} : doomed'[u] = doomed[u],
           op'[t] \in {"none", "use", "next"} \/ doomed'[t] = NULL
    PROVE  DescriptorsInv'
<1>1. DescriptorsTypeOK'
  BY Zenon DEF TableInv, DescriptorsTypeOK, Ops
<1>2. DoomedFirst'
  BY Zenon DEF DescriptorsInv, DoomedFirst
<1> QED BY <1>1, <1>2, Zenon DEF DescriptorsInv

\* A call that begins, or goes on, by pinning an object.
LEMMA PinCall ==
    ASSUME DescriptorsInv, NEW t \in Threads, NEW fd \in Fds, NEW kinds \in SUBSET Objects,
           sn_pin(t, fd, kinds), doomed[t] = NULL, op[t] \notin {"open", "adopt", "channel"},
           NEW call \in {"use", "watch", "accept", "part", "copy"}, Goto(t, call)
    PROVE  DescriptorsInv'
<1>1. t \notin Makers
  BY Zenon DEF Makers
<1>2. /\ op' \in [Threads -> Ops] /\ op'[t] = call
      /\ \A u \in Threads \ {t} : op'[u] = op[u]
      /\ Makers' = Makers
  <2>1. call \in Ops /\ call \notin {"open", "adopt"}
    BY Zenon DEF Ops
  <2>2. /\ op' \in [Threads -> Ops] /\ op'[t] = call
        /\ \A u \in Threads \ {t} : op'[u] = op[u]
        /\ Makers' = Makers \ {t}
    BY <2>1, CallsGo, Zenon
  <2> QED BY <1>1, <2>2, Zenon
<1>3. TableInv'
  BY <1>1, <1>2, PinKeeps, Zenon DEF DescriptorsInv
<1>4. doomed' = doomed
  BY Zenon DEF sn_pin
<1> QED BY <1>2, <1>3, <1>4, RestFollows, Zenon

\* A call that begins by making an object.
LEMMA NewCall ==
    ASSUME DescriptorsInv, NEW t \in Threads, NEW o \in Objects, sn_new(t, o),
           doomed[t] = NULL, op[t] \notin {"open", "adopt", "channel"},
           NEW call \in {"open", "adopt"}, Goto(t, call)
    PROVE  DescriptorsInv'
<1>1. t \notin Makers
  BY Zenon DEF Makers
<1>2. /\ op' \in [Threads -> Ops] /\ op'[t] = call
      /\ \A u \in Threads \ {t} : op'[u] = op[u]
      /\ Makers' = Makers \union {t}
  <2>1. call \in Ops
    BY Zenon DEF Ops
  <2> QED BY <2>1, CallsGo, Zenon
<1>3. TableInv'
  BY <1>1, <1>2, NewKeeps, Zenon DEF DescriptorsInv
<1>4. doomed' = doomed
  BY Zenon DEF sn_new
<1> QED BY <1>2, <1>3, <1>4, RestFollows, Zenon

\* A thread that is not making anything goes on without touching an object.
LEMMA PlainCall ==
    ASSUME DescriptorsInv, NEW t \in Threads, UNCHANGED objects,
           op[t] \notin {"open", "adopt", "channel"},
           NEW call \in Ops \ {"open", "adopt"}, Goto(t, call),
           doomed[t] = NULL
    PROVE  DescriptorsInv'
<1>1. t \notin Makers
  BY Zenon DEF Makers
<1>2. /\ op' \in [Threads -> Ops] /\ op'[t] = call
      /\ \A u \in Threads \ {t} : op'[u] = op[u]
      /\ Makers' = Makers
  BY <1>1, CallsGo
<1>3. TableInv'
  BY <1>2, SkipKeeps, Zenon DEF DescriptorsInv
<1>4. doomed' = doomed
  BY Zenon DEF objects
<1> QED BY <1>2, <1>3, <1>4, RestFollows, Zenon

\* A thread lets go of its latest pin.
LEMMA UnpinCall ==
    ASSUME DescriptorsInv, NEW t \in Threads, sn_unpin(t),
           op[t] \notin {"open", "adopt", "channel"},
           NEW call \in {"use", "next"}, Goto(t, call)
    PROVE  DescriptorsInv'
<1>1. t \notin Makers
  BY Zenon DEF Makers
<1>2. /\ op' \in [Threads -> Ops] /\ op'[t] = call
      /\ \A u \in Threads \ {t} : op'[u] = op[u]
      /\ Makers' = Makers
  <2>1. call \in Ops /\ call \notin {"open", "adopt"}
    BY Zenon DEF Ops
  <2>2. /\ op' \in [Threads -> Ops] /\ op'[t] = call
        /\ \A u \in Threads \ {t} : op'[u] = op[u]
        /\ Makers' = Makers \ {t}
    BY <2>1, CallsGo, Zenon
  <2> QED BY <1>1, <2>2, Zenon
<1>3. TableInv'
  BY <1>1, <1>2, UnpinKeeps, Zenon DEF DescriptorsInv
<1>4. \A u \in Threads \ {t} : doomed'[u] = doomed[u]
  BY Zenon DEF DescriptorsInv, TableInv, ObjectsTypeOK, sn_unpin
<1> QED BY <1>2, <1>3, <1>4, RestFollows, Zenon

\* A call that keeps where it is: Goto of the same place.
LEMMA StaysPut ==
    ASSUME DescriptorsInv, NEW t \in Threads, UNCHANGED op
    PROVE  Goto(t, op[t]) /\ op[t] \in Ops
BY Zenon DEF DescriptorsInv, DescriptorsTypeOK, Ops, Goto

\* Every step of a thread keeps the invariant.
LEMMA DescriptorsKeep ==
    DescriptorsInv /\ [DescriptorsNext]_descriptor_table => DescriptorsInv'
<1> SUFFICES ASSUME DescriptorsInv, [DescriptorsNext]_descriptor_table
             PROVE  DescriptorsInv'
  BY Zenon
<1> USE DEF Ops
<1>1. CASE UNCHANGED descriptor_table
  <2>1. UNCHANGED objects /\ op' = op /\ Makers' = Makers
    BY <1>1, Zenon DEF descriptor_table, Makers
  <2>2. TableInv' /\ doomed' = doomed
    BY <2>1, SkipKeeps, Zenon DEF DescriptorsInv, objects
  <2> QED BY <2>1, <2>2, Zenon DEF DescriptorsInv, DescriptorsTypeOK, DoomedFirst, TableInv
<1>2. CASE DescriptorsNext
  <2>1. PICK t \in Threads : 
           \/ Open(t) \/ INotifyInit(t) \/ Socket(t) \/ Install(t)
           \/ \E fd \in Fds :
                 \/ Dup(t, fd) \/ Close(t, fd)
                 \/ Transfer(t, fd) \/ Vectored(t, fd) \/ FStat(t, fd)
                 \/ Resize(t, fd) \/ Advise(t, fd) \/ ChangeFile(t, fd)
                 \/ INotifyWatch(t, fd) \/ Accept(t, fd)
                 \/ SocketBind(t, fd) \/ SocketName(t, fd)
                 \/ SocketTransfer(t, fd) \/ SocketOption(t, fd)
                 \/ Multicast(t, fd) \/ SetBlocking(t, fd)
                 \/ SendFile(t, fd) \/ SendNext(t, fd)
                 \/ CopyFile(t, fd) \/ CopyFileTo(t, fd)
                 \/ WatchRead(t, fd)
           \/ \E event \in BOOLEAN : watch_fill(t, event)
           \/ Accepted(t) \/ SendPart(t)
           \/ Finish(t)
           \/ Destroy(t)
    BY <1>2, Zenon DEF DescriptorsNext
  <2>2. Files \subseteq Objects /\ Sockets \subseteq Objects /\ Watches \subseteq Objects
    BY Zenon DEF Objects
  <2>3. op[t] \notin {"none", "use", "next"} => doomed[t] = NULL
    BY Zenon DEF DescriptorsInv, DoomedFirst
  <2>4. CASE Open(t) \/ INotifyInit(t) \/ Socket(t)
    BY <2>2, <2>4, NewCall, Zenon DEF Open, INotifyInit, Socket, Calls
  <2>5. CASE Install(t)
    <3>1. t \in Makers /\ sn_install(t)
      BY <2>5, Zenon DEF Install, Makers
    <3>2. PICK call \in {"none", "use"} : Goto(t, call)
      BY <2>5, Zenon DEF Install
    <3>3. /\ op' \in [Threads -> Ops] /\ op'[t] = call
          /\ \A u \in Threads \ {t} : op'[u] = op[u] /\ Makers' = Makers \ {t}
      BY <3>2, CallsGo, Zenon
    <3>4. TableInv'
      <4>1. Makers' = Makers \ {t}
        BY <3>2, CallsGo, Zenon
      <4> QED BY <3>1, <4>1, InstallKeeps, Zenon DEF DescriptorsInv
    <3>5. \A u \in Threads \ {t} : doomed'[u] = doomed[u]
      BY <3>1, Zenon DEF sn_install, DescriptorsInv, TableInv, ObjectsTypeOK
    <3> QED BY <3>3, <3>4, <3>5, RestFollows, Zenon
  <2>6. ASSUME NEW fd \in Fds, Dup(t, fd) PROVE DescriptorsInv'
    <3>1. /\ op[t] = "none" /\ op' \in [Threads -> Ops] /\ op'[t] = "none"
          /\ \A u \in Threads \ {t} : op'[u] = op[u]
          /\ Makers' = Makers \ {t}
      BY <2>6, CallsGo, Zenon DEF Dup, Calls
    <3>2. Makers' = Makers
      BY <3>1, Zenon DEF Makers
    <3>3. TableInv' /\ doomed' = doomed
      BY <2>6, <3>2, DupKeeps, Zenon DEF Dup, dup, DescriptorsInv
    <3> QED BY <3>1, <3>3, RestFollows, Zenon
  <2>7. ASSUME NEW fd \in Fds, Close(t, fd) PROVE DescriptorsInv'
    <3>1. /\ op[t] = "none" /\ op' \in [Threads -> Ops] /\ op'[t] = "none"
          /\ \A u \in Threads \ {t} : op'[u] = op[u]
          /\ Makers' = Makers \ {t}
      BY <2>7, CallsGo, Zenon DEF Close, Calls
    <3>2. Makers' = Makers /\ t \notin Makers
      BY <3>1, Zenon DEF Makers
    <3>3. TableInv'
      BY <2>7, <3>2, CloseKeeps, Zenon DEF Close, Calls, DescriptorsInv
    <3>4. \A u \in Threads \ {t} : doomed'[u] = doomed[u]
      BY <2>7, Zenon DEF Close, close_descriptor, DescriptorsInv, TableInv, ObjectsTypeOK
    <3> QED BY <3>1, <3>3, <3>4, RestFollows, Zenon
  <2>8. ASSUME NEW fd \in Fds,
               \/ Transfer(t, fd) \/ Vectored(t, fd) \/ FStat(t, fd)
               \/ Resize(t, fd) \/ Advise(t, fd) \/ ChangeFile(t, fd)
        PROVE  DescriptorsInv'
    BY <2>2, <2>8, PinCall, Zenon DEF Transfer, Vectored, FStat, Resize, Advise, ChangeFile, Calls
  <2>9. ASSUME NEW fd \in Fds,
               \/ INotifyWatch(t, fd) \/ Accept(t, fd)
               \/ SocketBind(t, fd) \/ SocketName(t, fd)
               \/ SocketTransfer(t, fd) \/ SocketOption(t, fd)
        PROVE  DescriptorsInv'
    BY Zenon, <2>2, <2>9, PinCall
       DEF INotifyWatch, Accept, SocketBind, SocketName, SocketTransfer, SocketOption, Calls
  <2>10. ASSUME NEW fd \in Fds,
                \/ Multicast(t, fd) \/ SetBlocking(t, fd) \/ SendFile(t, fd)
                \/ CopyFile(t, fd) \/ WatchRead(t, fd)
         PROVE  DescriptorsInv'
    BY <2>2, <2>10, PinCall, Zenon DEF Multicast, SetBlocking, SendFile, CopyFile, WatchRead, Calls
  <2>11. ASSUME NEW fd \in Fds, SendNext(t, fd) PROVE DescriptorsInv'
    <3>1. op[t] = "next" /\ doomed[t] = NULL
      BY <2>11, Zenon DEF SendNext
    <3>2. CASE sn_pin(t, fd, Files \union Sockets) /\ Goto(t, "part")
      BY <2>2, <3>1, <3>2, PinCall, Zenon
    <3>3. CASE UNCHANGED objects /\ Goto(t, "none")
      BY <3>1, <3>3, PlainCall, Zenon
    <3> QED BY <2>11, <3>2, <3>3, Zenon DEF SendNext
  <2>12. ASSUME NEW fd \in Fds, CopyFileTo(t, fd) PROVE DescriptorsInv'
    <3>1. op[t] = "copy" /\ doomed[t] = NULL /\ Goto(t, "use")
      BY <2>3, <2>12, Zenon DEF CopyFileTo
    <3>2. CASE sn_pin(t, fd, Files)
      BY <2>2, <3>1, <3>2, PinCall, Zenon
    <3>3. CASE UNCHANGED objects
      BY <3>1, <3>3, PlainCall, Zenon
    <3> QED BY <2>12, <3>2, <3>3, Zenon DEF CopyFileTo
  <2>13. ASSUME NEW event \in BOOLEAN, watch_fill(t, event) PROVE DescriptorsInv'
    <3>1. op[t] = "watch" /\ doomed[t] = NULL /\ UNCHANGED objects
      BY <2>3, <2>13, Zenon DEF watch_fill
    <3>2. PICK call \in {"use", "watch"} : Goto(t, call)
      BY <2>13, Zenon DEF watch_fill
    <3> QED BY <3>1, <3>2, PlainCall, Zenon
  <2>14. CASE Accepted(t)
    <3>1. op[t] = "accept" /\ doomed[t] = NULL
      BY <2>3, <2>14, Zenon DEF Accepted
    <3>2. ASSUME NEW o \in Sockets, sn_new(t, o), Goto(t, "adopt") PROVE DescriptorsInv'
      BY <2>2, <3>1, <3>2, NewCall, Zenon
    <3>3. CASE UNCHANGED objects /\ Goto(t, "use")
      BY <3>1, <3>3, PlainCall, Zenon
    <3> QED BY <2>14, <3>2, <3>3, Zenon DEF Accepted
  <2>15. CASE SendPart(t)
    BY <2>15, UnpinCall, Zenon DEF SendPart
  <2>16. CASE Finish(t)
    <3>1. op[t] = "use"
      BY <2>16, Zenon DEF Finish
    <3>2. CASE held[t] = <<>>
      BY <2>16, <3>1, <3>2, PlainCall, Zenon DEF Finish
    <3>3. CASE held[t] # <<>>
      <4>1. sn_unpin(t) /\ UNCHANGED op
        BY <2>16, <3>3, Zenon DEF Finish
      <4>2. Goto(t, "use")
        BY <3>1, <4>1, StaysPut, Zenon
      <4> QED BY <3>1, <4>1, <4>2, UnpinCall, Zenon
    <3> QED BY <3>2, <3>3, Zenon
  <2>17. CASE Destroy(t)
    <3>1. op' = op /\ Makers' = Makers /\ destroy(t)
      BY <2>17, Zenon DEF Destroy, Makers
    <3>2. TableInv'
      BY <3>1, DestroyKeeps, Zenon DEF DescriptorsInv
    <3>3. doomed' = [doomed EXCEPT ![t] = NULL]
      BY <3>1, Zenon DEF destroy
    <3>4. doomed'[t] = NULL /\ \A u \in Threads \ {t} : doomed'[u] = doomed[u]
      BY <3>3, Zenon DEF DescriptorsInv, TableInv, ObjectsTypeOK
    <3>5. op' \in [Threads -> Ops]
      BY <3>1, Zenon DEF DescriptorsInv, DescriptorsTypeOK
    <3> QED BY <3>1, <3>2, <3>4, <3>5, RestFollows, Zenon
  <2> QED BY Zenon, <2>1, <2>4, <2>5, <2>6, <2>7, <2>8, <2>9, <2>10, <2>11, <2>12, <2>13,
             <2>14, <2>15, <2>16, <2>17
<1> QED BY <1>1, <1>2, Zenon

\* "An object lives until its last descriptor is closed and its last user has let
\* go" (system_native_io.c), for every number of threads, objects and descriptors:
\* whatever pins, duplicates, closes and destroys in whatever order, the counts are
\* exact, a handle that is used is open, and one thread closes it.
THEOREM LifetimesStayExact == DescriptorsSpec => []LifetimesAreExact
<1>1. DescriptorsInit => DescriptorsInv
  <2>1. DescriptorsInit => DescriptorsTypeOK /\ DoomedFirst
    <3> SUFFICES ASSUME DescriptorsInit PROVE DescriptorsTypeOK /\ DoomedFirst
      BY Zenon
    <3>1. ObjectsTypeOK
      BY InitialTable, Zenon DEF TableInv
    <3>2. op = [t \in Threads |-> "none"]
      BY Zenon DEF DescriptorsInit
    <3> QED BY <3>1, <3>2, Zenon DEF DescriptorsTypeOK, DoomedFirst
  <2> QED BY <2>1, InitialTable, Zenon DEF DescriptorsInv
<1>2. DescriptorsInv => LifetimesAreExact
  BY Zenon DEF DescriptorsInv, TableInv
<1> QED BY <1>1, <1>2, DescriptorsKeep, PTL DEF DescriptorsSpec
=============================================================================
