-------------------------- MODULE EventPortProofs ---------------------------
(* The event port keeps every lifetime exact, and gives a port one waiter at a  *)
(* time.  The snapshot of a waiter pins the sockets registered with its port,   *)
(* so the first rests on the second: the wait must have its port.               *)
EXTENDS EventPort, DescriptorsProofs

-----------------------------------------------------------------------------
(* The steps, one by one: each keeps the table exact, and what is registered,   *)
(* or about to be, has a descriptor.                                            *)

\* How many objects a call has at each of its steps, where it matters.
HoldsAsMany ==
    \A t \in Threads :
        /\ op[t] = "none" => held[t] = <<>>
        /\ op[t] \in {"channel", "open", "register", "closeport"} => Len(held[t]) = 1
        /\ op[t] \in {"watch", "change"} => Len(held[t]) = 2
        /\ op[t] # "adopt"

\* What a client is about to register, or has registered, has a descriptor: a
\* client's SafeHandle keeps it, and the last Close ends the registration.
Registrable(o) == o \notin Ports /\ Named(o) # {}
\* Every registration, and every call that makes one, is about such an object.
RegisteredIsNamed ==
    /\ \A o \in Objects : port[o] # NULL => Registrable(o)
    /\ \A t \in Threads :
          /\ op[t] \in {"register", "watch", "change"} => t \in Clients
          /\ op[t] \in {"watch", "change"} => Registrable(held[t][2])
          /\ op[t] = "closeport" => held[t][1] \in Ports

\* The inductive invariant of the port's calls, without the waits.
PortInv ==
    /\ TableInv
    /\ DOMAIN op = Threads
    /\ port \in [Objects -> Objects \union {NULL}]
    /\ HoldsAsMany
    /\ RegisteredIsNamed

-----------------------------------------------------------------------------
\* A port that gets no channel is dropped again by its maker.
LEMMA DropKeeps ==
    ASSUME TableInv, NEW t \in Makers, NEW x, x = Latest(t), Makers' = Makers \ {t}, LetGo(t),
           open' = open \ {x},
           references' = [references EXCEPT ![x] = 0], descriptors' = [descriptors EXCEPT ![x] = 0],
           table' = table, doomed' = doomed
    PROVE  TableInv'
<1>1. /\ x \in Objects /\ held[t] # <<>> /\ doomed[t] = NULL /\ references[x] = 1
      /\ descriptors[x] = 1 /\ x \in open
      /\ Named(x) = {} /\ Making(x) = {t} /\ Pins(x) = {} /\ Doomed(x) = {}
  BY MadeIsSole, Zenon
<1>2. t \in Threads /\ held \in [Threads -> Seq(Objects)]
  BY Zenon DEF Makers, TableInv, ObjectsTypeOK
<1>3. /\ held' \in [Threads -> Seq(Objects)]
      /\ Len(held'[t]) = Len(held[t]) - 1 /\ DOMAIN held'[t] = 1 .. Len(held[t]) - 1
      /\ \A i \in 1 .. Len(held[t]) - 1 : held'[t][i] = held[t][i]
      /\ \A u \in Threads \ {t} : held'[u] = held[u]
  BY <1>1, <1>2, OthersAreKept, Zenon
<1>4. \A o : \A u \in Threads \ {t} : Pinned(u, o)' = Pinned(u, o)
  BY <1>3, Zenon DEF Pinned
<1>5. \A o : Pinned(t, o)' = Pinned(t, o)
  <2>1. DOMAIN held[t] = 1 .. Len(held[t]) /\ Len(held[t]) \in Nat
    BY <1>2
  <2> QED BY <2>1, <1>3, SMTT(20) DEF Pinned
<1>6. \A o : \A u \in Threads : Pinned(u, o)' = Pinned(u, o)
  BY <1>4, <1>5, Zenon
<1>7. \A u \in Makers \ {t} : /\ u \in Threads /\ held'[u] = held[u] /\ Latest(u)' = Latest(u)
                             /\ Latest(u) # x /\ Latest(u) \in Objects /\ held[u] # <<>>
                             /\ doomed[u] = NULL /\ references[Latest(u)] = 1
  <2>1. \A u \in Makers : Making(Latest(u)) = {u}
    BY MadeIsSole, Zenon
  <2>2. \A u \in Makers \ {t} : Latest(u) # x
    BY <1>1, <2>1, Zenon
  <2> QED BY <2>2, <1>3, MadeIsSole, Zenon DEF Latest, Makers
<1>8. \A o : Making(o)' = Making(o) \ {t}
  BY <1>7, Zenon DEF Making
<1>9. \A o \in Objects \ {x} : Making(o)' = Making(o)
  BY <1>8, Zenon DEF Making
<1>10. \A o : Named(o)' = Named(o) /\ Doomed(o)' = Doomed(o)
  BY Zenon DEF Named, Doomed
<1>11. ObjectsTypeOK'
  BY <1>3, Zenon DEF TableInv, ObjectsTypeOK
<1>12. ASSUME NEW o \in Objects PROVE Exact(o)' /\ Finite(o)'
  <2>1. CASE o # x
    <3>1. references'[o] = references[o] /\ descriptors'[o] = descriptors[o]
      BY <2>1, Zenon DEF TableInv, ObjectsTypeOK
    <3> QED BY <3>1, <2>1, <1>6, <1>9, <1>10, Counted, ExactStays, Zenon
  <2>2. CASE o = x
    <3>1. Pins(o)' = {} /\ Finite(o)'
      BY <2>2, <1>1, <1>6, PinsSame, FS_EmptySet, Zenon DEF Finite
    <3>2. references'[o] = 0 /\ descriptors'[o] = 0 /\ o \notin open'
      BY <2>2, <1>1, Zenon DEF TableInv, ObjectsTypeOK
    <3>3. Named(o)' = {} /\ Making(o)' = {} /\ Doomed(o)' = {}
      BY <2>2, <1>1, <1>8, <1>10, Zenon
    <3>4. Cardinality({}) = 0
      BY FS_EmptySet, Zenon
    <3> QED BY <3>1, <3>2, <3>3, <3>4 DEF Exact
  <2> QED BY <2>1, <2>2, Zenon
<1>13. NewIsSole'
  BY <1>7, Zenon DEF NewIsSole, TableInv, ObjectsTypeOK
<1>14. StreamsStay'
  BY Zenon DEF TableInv, StreamsStay
<1> QED BY <1>11, <1>12, <1>13, <1>14, Zenon DEF TableInv, LifetimesAreExact

\* Where an object stands among the first n of a sequence.
Places(f, n, o) == {i \in 1 .. n : f[i] = o}

\* The first L + n of g are the first L of f and the first n of s.
Joins(g, f, L, s, n) ==
    /\ L \in Nat /\ n \in Nat
    /\ \A i \in 1 .. L : g[i] = f[i]
    /\ \A k \in 1 .. n : g[L + k] = s[k]

\* The places of the joined sequence.
LEMMA PlacesJoin ==
    ASSUME NEW L \in Nat, NEW n \in Nat
    PROVE  /\ \A i \in 1 .. L : i \in 1 .. L + n
           /\ \A k \in 1 .. n : L + k \in 1 .. L + n /\ L + k \notin 1 .. L
OBVIOUS

\* An object that is not in s stands where it stood in f.
LEMMA JoinedElsewhere ==
    ASSUME NEW g, NEW f, NEW L, NEW s, NEW n, Joins(g, f, L, s, n),
           NEW o, Places(s, n, o) = {}
    PROVE  Places(g, L + n, o) = Places(f, L, o)
<1>1. L \in Nat /\ n \in Nat
  BY Zenon DEF Joins
<1>2. ASSUME NEW i \in 1 .. L + n, g[i] = o PROVE i \in 1 .. L
  <2> SUFFICES ASSUME i \notin 1 .. L PROVE FALSE
    BY Zenon
  <2>1. PICK k \in 1 .. n : i = L + k
    <3>1. i - L \in 1 .. n /\ i = L + (i - L)
      BY <1>1
    <3> QED BY <3>1, Zenon
  <2>2. s[k] = o
    BY <2>1, <1>2, Zenon DEF Joins
  <2> QED BY <2>2, Zenon DEF Places
<1> QED BY <1>1, <1>2, PlacesJoin, Zenon DEF Places, Joins

\* An object that is in s once has one place more.
LEMMA JoinedOnce ==
    ASSUME NEW g, NEW f, NEW L, NEW s, NEW n, Joins(g, f, L, s, n),
           NEW o, NEW k, Places(s, n, o) = {k}
    PROVE  L + k \notin Places(f, L, o) /\ Places(g, L + n, o) = Places(f, L, o) \union {L + k}
<1>1. L \in Nat /\ n \in Nat
  BY Zenon DEF Joins
<1>2. k \in 1 .. n /\ s[k] = o /\ \A j \in 1 .. n : s[j] = o => j = k
  BY Zenon DEF Places
<1>3. ASSUME NEW i \in 1 .. L + n, g[i] = o, i \notin 1 .. L PROVE i = L + k
  <2>1. PICK j \in 1 .. n : i = L + j
    <3>1. i - L \in 1 .. n /\ i = L + (i - L)
      BY <1>1, <1>3
    <3> QED BY <3>1, Zenon
  <2>2. s[j] = o
    BY <2>1, <1>3, Zenon DEF Joins
  <2> QED BY <2>1, <2>2, <1>2, Zenon
<1>4. g[L + k] = o /\ L + k \in 1 .. L + n /\ L + k \notin 1 .. L
  BY <1>1, <1>2, PlacesJoin, Zenon DEF Joins
<1>5. \A i \in 1 .. L : i \in 1 .. L + n /\ g[i] = f[i]
  BY <1>1, PlacesJoin, Zenon DEF Joins
<1> QED BY <1>3, <1>4, <1>5, Zenon DEF Places

\* The snapshot of a waiter pins a set of objects that have descriptors, each once.
LEMMA SnapshotPins ==
    ASSUME TableInv, NEW t \in Threads \ Makers, NEW S \in SUBSET Objects, IsFiniteSet(S),
           \A o \in S : Named(o) # {}, NEW s \in Orders(S), Makers' = Makers,
           held' = [held EXCEPT ![t] = @ \o s],
           references' = [o \in Objects |-> references[o] + (IF o \in S THEN 1 ELSE 0)],
           table' = table, descriptors' = descriptors, open' = open, doomed' = doomed
    PROVE  TableInv'
<1>1. held[t] \in Seq(Objects) /\ Len(held[t]) \in Nat /\ DOMAIN held[t] = 1 .. Len(held[t])
  BY DEF TableInv, ObjectsTypeOK
<1>2. Cardinality(S) \in Nat
  BY FS_CardinalityType, Zenon
<1>3. /\ s \in [1 .. Cardinality(S) -> S]
      /\ \A i, j \in 1 .. Cardinality(S) : s[i] = s[j] => i = j
  BY Zenon DEF Orders
<1>4. \A o \in S : \E k \in 1 .. Cardinality(S) : s[k] = o
  <2>1. IsFiniteSet(1 .. Cardinality(S)) /\ Cardinality(1 .. Cardinality(S)) = Cardinality(S)
    BY <1>2, FS_Interval
  <2>2. s \in Injection(1 .. Cardinality(S), S)
    BY <1>3, Zenon DEF Injection, IsInjective
  <2>3. s \in Surjection(1 .. Cardinality(S), S)
    BY <2>1, <2>2, FS_Injection, Zenon
  <2> QED BY <2>3, Zenon DEF Surjection
<1>5. s \in Seq(Objects) /\ Len(s) = Cardinality(S)
  BY <1>2, <1>3
<1>6. /\ held'[t] = held[t] \o s /\ held'[t] \in Seq(Objects)
      /\ Len(held'[t]) = Len(held[t]) + Cardinality(S)
      /\ \A i \in 1 .. Len(held[t]) : held'[t][i] = held[t][i]
      /\ \A k \in 1 .. Cardinality(S) : held'[t][Len(held[t]) + k] = s[k]
      /\ \A u \in Threads \ {t} : held'[u] = held[u]
  <2>1. held'[t] = held[t] \o s /\ \A u \in Threads \ {t} : held'[u] = held[u]
    BY Zenon DEF TableInv, ObjectsTypeOK
  <2> QED BY <2>1, <1>1, <1>2, <1>5
<1>7. ObjectsTypeOK'
  <2>1. held' \in [Threads -> Seq(Objects)]
    BY <1>6, Zenon DEF TableInv, ObjectsTypeOK
  <2>2. references' \in [Objects -> Nat]
    BY DEF TableInv, ObjectsTypeOK
  <2> QED BY <2>1, <2>2, Zenon DEF TableInv, ObjectsTypeOK
<1>8. \A u \in Makers : u # t /\ u \in Threads
  BY Zenon DEF Makers
<1>9. \A o : Named(o)' = Named(o) /\ Doomed(o)' = Doomed(o) /\ Making(o)' = Making(o)
  BY <1>6, <1>8, Zenon DEF Named, Doomed, Making, Latest
<1>10. \A o : \A u \in Threads \ {t} : Pinned(u, o)' = Pinned(u, o)
  BY <1>6, Zenon DEF Pinned
<1>11. \A o : /\ Pinned(t, o) = {i \in 1 .. Len(held[t]) : held[t][i] = o}
              /\ Pinned(t, o)' = {i \in 1 .. Len(held[t]) + Cardinality(S) : held'[t][i] = o}
  BY <1>1, <1>6 DEF Pinned
<1>12. Joins(held'[t], held[t], Len(held[t]), s, Cardinality(S))
  BY <1>1, <1>2, <1>6, Zenon DEF Joins
<1>13. ASSUME NEW o, o \notin S PROVE Pinned(t, o)' = Pinned(t, o)
  <2>1. Places(s, Cardinality(S), o) = {}
    BY <1>3, <1>13, Zenon DEF Places
  <2>2. Places(held'[t], Len(held[t]) + Cardinality(S), o) = Places(held[t], Len(held[t]), o)
    BY ONLY <2>1, <1>12, JoinedElsewhere
  <2> QED BY <2>2, <1>11, Zenon DEF Places
<1>14. ASSUME NEW o \in S
       PROVE  \E m : m \notin Pinned(t, o) /\ Pinned(t, o)' = Pinned(t, o) \union {m}
  <2>1. PICK k \in 1 .. Cardinality(S) : s[k] = o
    BY <1>4, Zenon
  <2>2. Places(s, Cardinality(S), o) = {k}
    BY <2>1, <1>3, Zenon DEF Places
  <2>3. /\ Len(held[t]) + k \notin Places(held[t], Len(held[t]), o)
        /\ Places(held'[t], Len(held[t]) + Cardinality(S), o)
             = Places(held[t], Len(held[t]), o) \union {Len(held[t]) + k}
    <3>1. PICK g, f, L, n : g = held'[t] /\ f = held[t] /\ L = Len(held[t]) /\ n = Cardinality(S)
      BY Zenon
    <3>2. Joins(g, f, L, s, n) /\ Places(s, n, o) = {k}
      BY <3>1, <1>12, <2>2, Zenon
    <3>3. L + k \notin Places(f, L, o) /\ Places(g, L + n, o) = Places(f, L, o) \union {L + k}
      BY ONLY <3>2, JoinedOnce
    <3> QED BY <3>1, <3>3, Zenon
  <2> QED BY <2>3, <1>11, Zenon DEF Places
<1>15. ASSUME NEW o \in Objects PROVE Exact(o)' /\ Finite(o)'
  <2>1. CASE o \notin S
    <3>1. references'[o] = references[o]
      BY <2>1 DEF TableInv, ObjectsTypeOK
    <3>2. \A u \in Threads : Pinned(u, o)' = Pinned(u, o)
      BY <1>10, <1>13, <2>1, Zenon
    <3> QED BY <3>1, <3>2, <1>9, Counted, ExactStays, Zenon
  <2>2. CASE o \in S
    <3>1. Finite(o)' /\ Cardinality(Pins(o)') = Cardinality(Pins(o)) + 1
      <4>1. PICK n : n \notin Pinned(t, o) /\ Pinned(t, o)' = Pinned(t, o) \union {n}
        BY <2>2, <1>14, Zenon
      <4> QED BY <4>1, <1>10, Counted, PinsGain, Zenon
    <3>2. references'[o] = references[o] + 1
      BY <2>2, Zenon
    <3>3. references[o] > 0 /\ Doomed(o) = {} /\ o \in open
      BY <2>2, UsedIsOpen
    <3>4. references'[o] = descriptors'[o] + Cardinality(Pins(o)') /\ references'[o] > 0
      <4>1. /\ references[o] = descriptors[o] + Cardinality(Pins(o))
            /\ references[o] \in Nat /\ descriptors[o] \in Nat /\ Cardinality(Pins(o)) \in Nat
        BY Counted, Zenon DEF Exact
      <4> QED BY <4>1, <3>1, <3>2
    <3> QED BY <3>1, <3>3, <3>4, <1>9, Counted, Zenon DEF Exact
  <2> QED BY <2>1, <2>2, Zenon
<1>16. NewIsSole'
  <2>1. \A u \in Makers : Latest(u) \notin S /\ Latest(u) \in Objects
    BY UsedIsMade, MadeIsSole, Zenon
  <2> QED BY <2>1, <1>6, <1>8 DEF NewIsSole, Latest, TableInv, ObjectsTypeOK
<1>17. StreamsStay'
  BY Zenon DEF TableInv, StreamsStay
<1> QED BY <1>7, <1>15, <1>16, <1>17, Zenon DEF TableInv, LifetimesAreExact

-----------------------------------------------------------------------------
\* What a call has at a step it goes to.
Fits(t, call, has) ==
    /\ call = "none" => has = <<>>
    /\ call \in {"channel", "open", "register", "closeport"} => Len(has) = 1
    /\ call \in {"watch", "change"} => Len(has) = 2 /\ Registrable(has[2])
    /\ call # "adopt"
    /\ call \in {"register", "watch", "change"} => t \in Clients
    /\ call = "closeport" => has[1] \in Ports

\* The invariant says that of every thread.
LEMMA CallsFit ==
    ASSUME PortInv, NEW t \in Threads
    PROVE  Fits(t, op[t], held[t])
BY Zenon DEF PortInv, HoldsAsMany, RegisteredIsNamed, Fits

\* A step that keeps the table exact, where every call fits what it has and what is
\* registered, or about to be, still has a descriptor.
LEMMA PortFollows ==
    ASSUME PortInv, TableInv', DOMAIN op' = Threads,
           \A u \in Threads : Fits(u, op'[u], held'[u]),
           \A u \in Threads : op'[u] \in {"watch", "change"} =>
               \A x \in Objects : x = held'[u][2] => Registrable(x)',
           port' \in [Objects -> Objects \union {NULL}],
           \A o \in Objects : port'[o] # NULL => Registrable(o)'
    PROVE  PortInv'
<1>1. ASSUME NEW u \in Threads, Len(held'[u]) = 2 PROVE held'[u][2] \in Objects
  <2>1. held'[u] \in Seq(Objects)
    BY Zenon DEF TableInv, ObjectsTypeOK
  <2> QED BY ONLY <1>1, <2>1
<1>2. HoldsAsMany'
  BY Zenon DEF Fits, HoldsAsMany
<1>3. ASSUME NEW u \in Threads, op'[u] \in {"watch", "change"} PROVE Registrable(held[u][2])'
  <2>1. PICK x : x = held'[u][2]
    BY Zenon
  <2>2. x \in Objects /\ Registrable(x)'
    BY <2>1, <1>1, <1>3, Zenon DEF Fits
  <2> QED BY <2>1, <2>2, Zenon DEF Registrable, Named
<1>4. RegisteredIsNamed'
  BY <1>3, Zenon DEF Fits, RegisteredIsNamed
<1> QED BY <1>2, <1>4, Zenon DEF PortInv

\* Such a step of one thread, when every registrable object stays so.
LEMMA PortRest ==
    ASSUME PortInv, TableInv', NEW t \in Threads, NEW call,
           op' = [op EXCEPT ![t] = call], Fits(t, call, held'[t]),
           \A u \in Threads \ {t} : held'[u] = held[u],
           \A o \in Objects : Registrable(o) => Registrable(o)',
           port' \in [Objects -> Objects \union {NULL}],
           \A o \in Objects : port'[o] # NULL => port[o] # NULL \/ Registrable(o)
    PROVE  PortInv'
<1>1. /\ DOMAIN op' = Threads /\ op'[t] = call
      /\ \A u \in Threads \ {t} : op'[u] = op[u]
  BY Zenon DEF PortInv
<1>2. \A u \in Threads : Fits(u, op'[u], held'[u])
  BY <1>1, CallsFit, Zenon
<1>3. \A o \in Objects : port'[o] # NULL => Registrable(o)'
  BY Zenon DEF PortInv, RegisteredIsNamed
<1>4. ASSUME NEW u \in Threads, op'[u] \in {"watch", "change"},
             NEW x \in Objects, x = held'[u][2]
      PROVE  Registrable(x)'
  BY <1>2, <1>4, Zenon DEF Fits
<1> QED BY <1>1, <1>2, <1>3, <1>4, PortFollows, Zenon

\* Who is making an object after a step.
LEMMA MakersGo ==
    ASSUME PortInv, NEW t \in Threads, NEW call, op' = [op EXCEPT ![t] = call]
    PROVE  /\ call \notin {"open", "adopt", "channel"} => Makers' = Makers \ {t}
           /\ call \in {"open", "adopt", "channel"} => Makers' = Makers \union {t}
           /\ op[t] \notin {"open", "adopt", "channel"} => t \notin Makers
           /\ op[t] \in {"open", "adopt", "channel"} => t \in Makers
           /\ TableInv
BY Zenon DEF PortInv, Makers

-----------------------------------------------------------------------------
\* A step that changes no object and no registration.
LEMMA PortSkip ==
    ASSUME PortInv, NEW t \in Threads, NEW call, Goto(t, call),
           UNCHANGED objects, port' = port, Fits(t, call, held[t]),
           call \in {"open", "adopt", "channel"} <=> op[t] \in {"open", "adopt", "channel"}
    PROVE  PortInv'
<1>1. op' = [op EXCEPT ![t] = call] /\ held' = held /\ table' = table
  BY Zenon DEF Goto, objects
<1>2. Makers' = Makers /\ TableInv
  BY <1>1, MakersGo, Zenon
<1>3. TableInv'
  BY <1>2, SkipKeeps, Zenon
<1>4. \A o \in Objects : Registrable(o) => Registrable(o)'
  BY <1>1, Zenon DEF Registrable, Named
<1>5. port \in [Objects -> Objects \union {NULL}]
  BY Zenon DEF PortInv
<1> QED BY <1>1, <1>3, <1>4, <1>5, PortRest, Zenon

\* What is appended comes last.
LEMMA AppendIsLast ==
    ASSUME NEW q \in Seq(Objects), NEW x \in Objects
    PROVE  Len(Append(q, x)) = Len(q) + 1 /\ Append(q, x)[Len(q) + 1] = x
OBVIOUS

\* A step that pins an object.
LEMMA PortPin ==
    ASSUME PortInv, NEW t \in Threads, NEW call, Goto(t, call),
           NEW fd \in Fds, NEW kinds \in SUBSET Objects, sn_pin(t, fd, kinds), port' = port,
           Fits(t, call, Append(held[t], table[fd])),
           op[t] \notin {"open", "adopt", "channel"}, call \notin {"open", "adopt", "channel"}
    PROVE  PortInv'
<1>1. op' = [op EXCEPT ![t] = call] /\ table' = table
  BY Zenon DEF Goto, sn_pin
<1>2. Makers' = Makers /\ t \notin Makers /\ TableInv
  BY <1>1, MakersGo, Zenon
<1>3. TableInv'
  BY <1>2, PinKeeps, Zenon
<1>4. \A o \in Objects : Registrable(o) => Registrable(o)'
  BY <1>1, Zenon DEF Registrable, Named
<1>5. port \in [Objects -> Objects \union {NULL}]
  BY Zenon DEF PortInv
<1>6. held'[t] = Append(held[t], table[fd]) /\ \A u \in Threads \ {t} : held'[u] = held[u]
  BY <1>2, Zenon DEF sn_pin, TableInv, ObjectsTypeOK
<1> QED BY <1>1, <1>3, <1>4, <1>5, <1>6, PortRest, Zenon

\* A step that lets an object go.
LEMMA PortUnpin ==
    ASSUME PortInv, NEW t \in Threads, NEW call \in {"leave", "deliver"}, Goto(t, call),
           sn_unpin(t), port' = port, op[t] \notin {"open", "adopt", "channel"}
    PROVE  PortInv'
<1>1. op' = [op EXCEPT ![t] = call] /\ table' = table
  BY Zenon DEF Goto, sn_unpin
<1>2. Makers' = Makers /\ t \notin Makers /\ TableInv
  BY <1>1, MakersGo, Zenon
<1>3. TableInv'
  BY <1>2, UnpinKeeps, Zenon
<1>4. \A o \in Objects : Registrable(o) => Registrable(o)'
  BY <1>1, Zenon DEF Registrable, Named
<1>5. port \in [Objects -> Objects \union {NULL}]
  BY Zenon DEF PortInv
<1>6. \A u \in Threads \ {t} : held'[u] = held[u]
  BY <1>2, Zenon DEF sn_unpin, LetGo, TableInv, ObjectsTypeOK
<1>7. Fits(t, call, held'[t])
  BY Zenon DEF Fits
<1> QED BY <1>1, <1>3, <1>4, <1>5, <1>6, <1>7, PortRest, Zenon

\* A call that makes an object.
LEMMA PortNew ==
    ASSUME PortInv, NEW t \in Threads, NEW call \in {"channel", "open"}, Goto(t, call),
           NEW x \in Objects, sn_new(t, x), port' = port, At(t, "none")
    PROVE  PortInv'
<1>1. op' = [op EXCEPT ![t] = call] /\ table' = table
  BY Zenon DEF Goto, sn_new
<1>2. Makers' = Makers \union {t} /\ t \notin Makers /\ TableInv /\ doomed[t] = NULL
  BY <1>1, MakersGo, Zenon DEF At
<1>3. TableInv'
  BY <1>2, NewKeeps, Zenon
<1>4. \A o \in Objects : Registrable(o) => Registrable(o)'
  BY <1>1, Zenon DEF Registrable, Named
<1>5. port \in [Objects -> Objects \union {NULL}] /\ held[t] = <<>>
  BY Zenon DEF PortInv, HoldsAsMany, At
<1>6. held'[t] = Append(held[t], x) /\ \A u \in Threads \ {t} : held'[u] = held[u]
  BY <1>2, Zenon DEF sn_new, TableInv, ObjectsTypeOK
<1>7. Fits(t, call, held'[t])
  <2>1. Len(held'[t]) = 1
    BY <1>5, <1>6
  <2> QED BY <2>1, Zenon DEF Fits
<1> QED BY <1>1, <1>3, <1>4, <1>5, <1>6, <1>7, PortRest, Zenon

\* sn_install.
LEMMA PortInstall ==
    ASSUME PortInv, NEW t \in Threads, At(t, "open"), sn_install(t), Goto(t, "none"), port' = port
    PROVE  PortInv'
<1>1. op' = [op EXCEPT ![t] = "none"] /\ op[t] = "open"
  BY Zenon DEF Goto, At
<1>2. Makers' = Makers \ {t} /\ t \in Makers /\ TableInv
  BY <1>1, Zenon DEF PortInv, Makers
<1>3. TableInv'
  BY <1>2, InstallKeeps, Zenon
<1>4. \A o \in Objects : Registrable(o) => Registrable(o)'
  <2>1. \A o \in Objects : Named(o) \subseteq Named(o)'
    <3>1. \A fd \in Fds : table[fd] # NULL => table'[fd] = table[fd]
      BY <1>2, Zenon DEF sn_install, LowestFree, FreeFds, TableInv, ObjectsTypeOK
    <3> QED BY <3>1, DescriptorsAssumption, Zenon DEF Named
  <2> QED BY <2>1, Zenon DEF Registrable
<1>5. port \in [Objects -> Objects \union {NULL}] /\ Len(held[t]) = 1
  BY <1>1, Zenon DEF PortInv, HoldsAsMany
<1>6. held[t] \in Seq(Objects) /\ held[t] # <<>> /\ held \in [Threads -> Seq(Objects)]
  BY <1>2, MadeIsSole, Zenon DEF TableInv, ObjectsTypeOK
<1>7. held'[t] = <<>> /\ \A u \in Threads \ {t} : held'[u] = held[u]
  <2>1. LetGo(t)
    BY Zenon DEF sn_install
  <2>2. Len(held'[t]) = 0 /\ held'[t] \in Seq(Objects)
    BY <2>1, <1>5, <1>6, OthersAreKept
  <2> QED BY <2>1, <2>2, <1>6, OthersAreKept
<1>8. Fits(t, "none", held'[t])
  BY <1>7, Zenon DEF Fits
<1> QED BY <1>1, <1>3, <1>4, <1>5, <1>7, <1>8, PortRest, Zenon

\* A port without a channel goes.
LEMMA PortDrop ==
    ASSUME PortInv, NEW t \in Threads, At(t, "channel"), LetGo(t), Goto(t, "none"),
           open' = open \ {Latest(t)},
           references' = [references EXCEPT ![Latest(t)] = 0],
           descriptors' = [descriptors EXCEPT ![Latest(t)] = 0],
           table' = table, doomed' = doomed, port' = port
    PROVE  PortInv'
<1>1. op' = [op EXCEPT ![t] = "none"] /\ op[t] = "channel"
  BY Zenon DEF Goto, At
<1>2. Makers' = Makers \ {t} /\ t \in Makers /\ TableInv
  BY <1>1, MakersGo, Zenon
<1>3. TableInv'
  <2>1. PICK x : x = Latest(t)
    BY Zenon
  <2> QED BY <2>1, <1>2, DropKeeps, Zenon
<1>4. \A o \in Objects : Registrable(o) => Registrable(o)'
  BY Zenon DEF Registrable, Named
<1>5. port \in [Objects -> Objects \union {NULL}] /\ Len(held[t]) = 1
  BY <1>1, Zenon DEF PortInv, HoldsAsMany
<1>6. held[t] \in Seq(Objects) /\ held[t] # <<>> /\ held \in [Threads -> Seq(Objects)]
  BY <1>2, MadeIsSole, Zenon DEF TableInv, ObjectsTypeOK
<1>7. held'[t] = <<>> /\ \A u \in Threads \ {t} : held'[u] = held[u]
  <2>1. Len(held'[t]) = 0 /\ held'[t] \in Seq(Objects)
    BY <1>5, <1>6, OthersAreKept
  <2> QED BY <2>1, <1>6, OthersAreKept
<1>8. Fits(t, "none", held'[t])
  BY <1>7, Zenon DEF Fits
<1> QED BY <1>1, <1>3, <1>4, <1>5, <1>7, <1>8, PortRest, Zenon

\* destroy, with the registrations of a port that goes.
LEMMA PortDestroy ==
    ASSUME PortInv, NEW t \in Threads, destroy(t), op' = op,
           NEW S, Unlink(S)
    PROVE  PortInv'
<1>1. table' = table /\ held' = held
  BY Zenon DEF destroy
<1>2. Makers' = Makers /\ TableInv /\ DOMAIN op' = Threads
  BY Zenon DEF Makers, PortInv
<1>3. TableInv'
  BY <1>2, DestroyKeeps, Zenon
<1>4. \A o \in Objects : Registrable(o) => Registrable(o)'
  BY <1>1, Zenon DEF Registrable, Named
<1>5. /\ port' \in [Objects -> Objects \union {NULL}]
      /\ \A o \in Objects : port'[o] # NULL => port[o] # NULL
  BY Zenon DEF PortInv, Unlink
<1>6. \A u \in Threads : Fits(u, op'[u], held'[u])
  BY <1>1, CallsFit, Zenon
<1>7. \A o \in Objects : port'[o] # NULL => Registrable(o)'
  BY <1>4, <1>5, Zenon DEF PortInv, RegisteredIsNamed
<1>8. ASSUME NEW u \in Threads, op'[u] \in {"watch", "change"},
             NEW x \in Objects, x = held'[u][2]
      PROVE  Registrable(x)'
  BY <1>4, <1>6, <1>8, Zenon DEF Fits
<1> QED BY <1>2, <1>3, <1>5, <1>6, <1>7, <1>8, PortFollows, Zenon

\* What a Close leaves the other objects, and the object whose descriptor it closes.
LEMMA NamesAfterClose ==
    ASSUME TableInv, NEW t \in Threads, NEW fd \in Fds, close_descriptor(t, fd),
           NEW x, x = table[fd]
    PROVE  /\ x \in Objects
           /\ \A o \in Objects : o # x => Named(o)' = Named(o)
           /\ descriptors[x] # 1 => Named(x)' # {}
<1>1. x \in Objects /\ x # NULL /\ table' = [table EXCEPT ![fd] = NULL] /\ fd \in Named(x)
  BY Zenon DEF close_descriptor, TableInv, ObjectsTypeOK, Named
<1>2. table'[fd] = NULL /\ \A g \in Fds \ {fd} : table'[g] = table[g]
  BY <1>1, Zenon DEF TableInv, ObjectsTypeOK
<1>3. \A o \in Objects : o # x => Named(o)' = Named(o)
  BY <1>2, DescriptorsAssumption, Zenon DEF Named
<1>4. Named(x)' = Named(x) \ {fd}
  BY <1>1, <1>2, Zenon DEF Named
<1>5. ASSUME descriptors[x] # 1 PROVE Named(x)' # {}
  <2>1. Making(x) = {}
    BY <1>1, UsedIsMade, Zenon DEF Making
  <2>2. descriptors[x] = Cardinality(Named(x)) /\ Cardinality(Named(x)) \in Nat
    BY <1>1, <2>1, Counted, FS_EmptySet DEF Exact
  <2>3. Named(x) # {fd}
    BY <2>2, <1>5, FS_Singleton, Zenon
  <2> QED BY <2>3, <1>1, <1>4, Zenon
<1> QED BY <1>1, <1>3, <1>5, Zenon

\* Close of an object: the last one ends its registration.
LEMMA PortClose ==
    ASSUME PortInv, NEW t \in Threads, At(t, "none"), NEW fd \in Fds, close_descriptor(t, fd),
           NEW x, x = table[fd], Unused(x), NEW call \in {"wake", "leave"}, Goto(t, call),
           port' \in [Objects -> Objects \union {NULL}],
           \A o \in Objects : port'[o] # NULL =>
               port[o] # NULL /\ (o = x => descriptors[x] # 1)
    PROVE  PortInv'
<1>1. op' = [op EXCEPT ![t] = call] /\ op[t] = "none" /\ held' = held /\ doomed[t] = NULL
  BY Zenon DEF Goto, At, close_descriptor
<1>2. Makers' = Makers /\ t \notin Makers /\ TableInv
  BY <1>1, MakersGo, Zenon
<1>3. TableInv'
  BY <1>1, <1>2, CloseKeeps, Zenon
<1>4. /\ x \in Objects /\ \A o \in Objects : o # x => Named(o)' = Named(o)
      /\ descriptors[x] # 1 => Named(x)' # {}
  BY <1>2, NamesAfterClose, Zenon
<1>5. /\ DOMAIN op' = Threads /\ op'[t] = call
      /\ \A u \in Threads \ {t} : op'[u] = op[u]
  BY <1>1, Zenon DEF PortInv
<1>6. \A u \in Threads : Fits(u, op'[u], held'[u])
  <2>1. Fits(t, call, held'[t])
    BY Zenon DEF Fits
  <2> QED BY <2>1, <1>1, <1>5, CallsFit, Zenon
<1>7. \A o \in Objects : port'[o] # NULL => Registrable(o)'
  BY <1>4, Zenon DEF PortInv, RegisteredIsNamed, Registrable
<1>8. ASSUME NEW u \in Threads, op'[u] \in {"watch", "change"},
             NEW y \in Objects, y = held'[u][2]
      PROVE  Registrable(y)'
  <2>1. Registrable(y) /\ u \in Clients /\ Len(held[u]) = 2
    BY <1>1, <1>6, <1>8, Zenon DEF Fits
  <2>2. 2 \in DOMAIN held[u]
    <3>1. held[u] \in Seq(Objects)
      BY <1>2, Zenon DEF TableInv, ObjectsTypeOK
    <3> QED BY ONLY <2>1, <3>1
  <2>3. y # x
    BY <2>1, <2>2, <1>1, <1>8, Zenon DEF Unused
  <2> QED BY <2>1, <2>3, <1>4, Zenon DEF Registrable
<1> QED BY <1>3, <1>5, <1>6, <1>7, <1>8, PortFollows, Zenon

\* Close of a port, which is registered with nothing.
LEMMA PortClosePort ==
    ASSUME PortInv, NEW t \in Threads, ClosePort(t)
    PROVE  PortInv'
<1>1. op[t] = "closeport" /\ Goto(t, "wake") /\ port' = port /\ doomed[t] = NULL
  BY Zenon DEF ClosePort, At, registration
<1>2. op' = [op EXCEPT ![t] = "wake"] /\ TableInv
  BY <1>1, Zenon DEF Goto, PortInv
<1>3. Makers' = Makers /\ t \notin Makers
  BY <1>1, <1>2, Zenon DEF Makers, PortInv
<1>4. CASE UNCHANGED objects
  <2>1. Fits(t, "wake", held[t])
    BY Zenon DEF Fits
  <2> QED BY <1>1, <1>4, <2>1, PortSkip, Zenon
<1>5. CASE \E fd \in Fds : table[fd] = Latest(t) /\ close_descriptor(t, fd)
  <2>1. PICK fd \in Fds : table[fd] = Latest(t) /\ close_descriptor(t, fd)
    BY <1>5, Zenon
  <2>2. PICK x : x = Latest(t)
    BY Zenon
  <2>3. Len(held[t]) = 1 /\ held[t][1] \in Ports
    BY <1>1, CallsFit, Zenon DEF Fits
  <2>4. x \in Ports
    BY <2>2, <2>3, Zenon DEF Latest
  <2>5. TableInv'
    BY <2>1, <1>1, <1>2, <1>3, CloseKeeps, Zenon
  <2>6. x \in Objects /\ \A o \in Objects : o # x => Named(o)' = Named(o)
    BY <2>1, <2>2, <1>2, NamesAfterClose, Zenon
  <2>7. \A o \in Objects : Registrable(o) => Registrable(o)'
    BY <2>4, <2>6, Zenon DEF Registrable
  <2>8. held' = held /\ port \in [Objects -> Objects \union {NULL}]
    BY <2>1, Zenon DEF close_descriptor, PortInv
  <2>9. Fits(t, "wake", held'[t])
    BY Zenon DEF Fits
  <2> QED BY <2>5, <2>7, <2>8, <2>9, <1>1, <1>2, PortRest, Zenon
<1> QED BY <1>4, <1>5, Zenon DEF ClosePort

\* sn_pipe_watch: the reader's pin is the second one of an object.
LEMMA PortWatch ==
    ASSUME PortInv, NEW t \in Threads, PipeWatch(t)
    PROVE  PortInv'
<1>1. op[t] = "watch" /\ port' = port /\ Fits(t, "watch", held[t]) /\ TableInv
  <2>1. op[t] = "watch" /\ port' = port
    BY Zenon DEF PipeWatch, At, registration
  <2> QED BY <2>1, CallsFit, Zenon DEF PortInv
<1>2. Fits(t, "change", held[t])
  BY <1>1, Zenon DEF Fits
<1>3. CASE UNCHANGED objects /\ Goto(t, "change")
  BY <1>1, <1>2, <1>3, PortSkip, Zenon
<1>4. CASE \E r \in Readers :
             /\ At(r, "none")
             /\ held' = [held EXCEPT ![r] = Append(@, Latest(t))]
             /\ op' = [op EXCEPT ![t] = "change", ![r] = "read"]
             /\ references' = [references EXCEPT ![Latest(t)] = @ + 1]
             /\ UNCHANGED <<table, descriptors, open, doomed>>
  <2>1. PICK r \in Readers :
             /\ At(r, "none")
             /\ held' = [held EXCEPT ![r] = Append(@, Latest(t))]
             /\ op' = [op EXCEPT ![t] = "change", ![r] = "read"]
             /\ references' = [references EXCEPT ![Latest(t)] = @ + 1]
             /\ UNCHANGED <<table, descriptors, open, doomed>>
    BY <1>4, Zenon
  <2>2. PICK x : x = Latest(t)
    BY Zenon
  <2>3. r \in Threads /\ op[r] = "none" /\ r # t
    BY <2>1, <1>1, EventPortAssumption, Zenon DEF At
  <2>4. /\ DOMAIN op' = Threads /\ op'[t] = "change" /\ op'[r] = "read"
        /\ \A u \in Threads \ {t, r} : op'[u] = op[u]
    BY <2>1, <2>3, Zenon DEF PortInv
  <2>5. Makers' = Makers /\ r \notin Makers
    BY <2>3, <2>4, <1>1, Zenon DEF Makers
  <2>6. x \in Objects /\ Named(x) # {}
    <3>1. Len(held[t]) = 2 /\ Registrable(held[t][2])
      BY <1>1, Zenon DEF Fits
    <3>2. held[t] \in Seq(Objects)
      BY <1>1, Zenon DEF TableInv, ObjectsTypeOK
    <3>3. x = held[t][2]
      BY <2>2, <3>1, Zenon DEF Latest
    <3>4. held[t][2] \in Objects
      BY ONLY <3>1, <3>2
    <3> QED BY <3>1, <3>3, <3>4, Zenon DEF Registrable
  <2>7. TableInv'
    <3>1. held' = [held EXCEPT ![r] = Append(@, x)] /\ references' = [references EXCEPT ![x] = @ + 1]
      BY <2>1, <2>2, Zenon
    <3> QED BY <3>1, <2>1, <2>3, <2>5, <2>6, <1>1, OnePinMore, Zenon
  <2>8. \A u \in Threads \ {r} : held'[u] = held[u]
    BY <2>1, <1>1, Zenon DEF TableInv, ObjectsTypeOK
  <2>9. \A u \in Threads : Fits(u, op'[u], held'[u])
    <3>1. Fits(r, "read", held'[r])
      BY Zenon DEF Fits
    <3>2. \A u \in Threads \ {t, r} : Fits(u, op'[u], held'[u])
      BY <2>4, <2>8, CallsFit, Zenon
    <3> QED BY <3>1, <3>2, <2>3, <2>4, <2>8, <1>2, Zenon
  <2>10. \A o \in Objects : Registrable(o) => Registrable(o)'
    BY <2>1, Zenon DEF Registrable, Named
  <2>11. \A o \in Objects : port'[o] # NULL => Registrable(o)'
    BY <2>10, <1>1, Zenon DEF PortInv, RegisteredIsNamed
  <2>12. ASSUME NEW u \in Threads, op'[u] \in {"watch", "change"},
                NEW y \in Objects, y = held'[u][2]
         PROVE  Registrable(y)'
    BY <2>9, <2>10, <2>12, Zenon DEF Fits
  <2>13. port' \in [Objects -> Objects \union {NULL}]
    BY <1>1, Zenon DEF PortInv
  <2> QED BY <2>4, <2>7, <2>9, <2>11, <2>12, <2>13, PortFollows, Zenon
<1> QED BY <1>3, <1>4, Zenon DEF PipeWatch

\* A change of a registration, made of an object that the caller's SafeHandle keeps.
LEMMA PortChange ==
    ASSUME PortInv, NEW t \in Threads, NEW newEvents, ChangeRegistration(t, newEvents)
    PROVE  PortInv'
<1>1. op[t] = "change" /\ UNCHANGED objects
  BY Zenon DEF ChangeRegistration, At
<1>2. Fits(t, "change", held[t]) /\ TableInv
  BY <1>1, CallsFit, Zenon DEF PortInv
<1>3. held' = held /\ table' = table
  BY <1>1, Zenon DEF objects
<1>4. PICK call \in {"leave", "wake"} : op' = [op EXCEPT ![t] = call]
  BY Zenon DEF ChangeRegistration, Goto
<1>5. Makers' = Makers
  BY <1>1, <1>4, MakersGo, Zenon
<1>6. TableInv'
  BY <1>1, <1>2, <1>5, SkipKeeps, Zenon
<1>7. PICK p, o : p = held[t][1] /\ o = held[t][2]
  BY Zenon
<1>8. p \in Objects /\ o \in Objects /\ Registrable(o)
  <2>1. held[t] \in Seq(Objects) /\ Len(held[t]) = 2 /\ Registrable(held[t][2])
    BY <1>2, Zenon DEF TableInv, ObjectsTypeOK, Fits
  <2>2. held[t][1] \in Objects /\ held[t][2] \in Objects
    BY ONLY <2>1
  <2> QED BY <2>1, <2>2, <1>7, Zenon
<1>9. port' = port \/ Unlink({o}) \/ port' = [port EXCEPT ![o] = p]
  BY <1>7, Zenon DEF ChangeRegistration, registration
<1>10. /\ port' \in [Objects -> Objects \union {NULL}]
       /\ \A x \in Objects : port'[x] # NULL => port[x] # NULL \/ Registrable(x)
  <2>1. port \in [Objects -> Objects \union {NULL}]
    BY Zenon DEF PortInv
  <2>2. CASE port' = port
    BY <2>1, <2>2, Zenon
  <2>3. CASE Unlink({o})
    BY <2>1, <2>3, Zenon DEF Unlink
  <2>4. CASE port' = [port EXCEPT ![o] = p]
    BY <2>1, <2>4, <1>8, Zenon
  <2> QED BY <2>2, <2>3, <2>4, <1>9, Zenon
<1>11. \A x \in Objects : Registrable(x) => Registrable(x)'
  BY <1>3, Zenon DEF Registrable, Named
<1>12. Fits(t, call, held'[t])
  BY Zenon DEF Fits
<1> QED BY <1>3, <1>4, <1>6, <1>10, <1>11, <1>12, PortRest, Zenon

-----------------------------------------------------------------------------
\* A wait has its port to itself from Begin to EndWait, and has pinned it first.
InWait == {"round", "snapshot", "poll", "deliver", "release", "end"}
\* What a wait holds at each of its steps: its port, then the snapshot's pins.
WaitFits(call, has, ports, snapshots) ==
    /\ call = "begin" => Len(has) = 1 /\ has[1] \in Ports
    /\ call \in InWait => has[1] \in ports
    /\ call \in {"round", "snapshot", "end"} => Len(has) = 1
    /\ call \in {"poll", "deliver", "release"} => Len(has) = 1 + Len(snapshots[has[1]])
    /\ call = "release" => snapshots[has[1]] # <<>>
\* The entries of a poll.
Entries == [wanted : SUBSET Directions, triggered : SUBSET (Directions \union Failures)]

\* The inductive invariant of the waits.
WaitInv ==
    /\ waiting \subseteq Ports
    /\ entries \in [Ports -> Seq(Entries)]
    /\ events \in [Objects -> SUBSET Directions]
    /\ \A t \in Threads : WaitFits(op[t], held[t], waiting, entries)
    /\ \A t, u \in Threads :
          op[t] \in InWait /\ op[u] \in InWait /\ t # u => held[t][1] # held[u][1]

\* The first object of a wait is a port.
LEMMA WaitsAtPort ==
    ASSUME WaitInv, NEW t \in Threads, op[t] \in InWait \union {"begin"}
    PROVE  held[t][1] \in Ports /\ held[t][1] \in Objects /\ held[t][1] # NULL
<1>1. held[t][1] \in Ports
  BY Zenon DEF WaitInv, WaitFits
<1> QED BY <1>1, EventPortAssumption, DescriptorsAssumption, Zenon DEF Objects

\* A step of one thread that leaves the other waits alone.
LEMMA WaitStep ==
    ASSUME WaitInv, DOMAIN op = Threads, NEW t \in Threads, NEW call,
           op' = [op EXCEPT ![t] = call], \A u \in Threads \ {t} : held'[u] = held[u],
           waiting' \subseteq Ports, entries' \in [Ports -> Seq(Entries)],
           events' \in [Objects -> SUBSET Directions],
           WaitFits(call, held'[t], waiting', entries'),
           \A u \in Threads \ {t} : op[u] \in InWait =>
               /\ held[u][1] \in waiting' /\ entries'[held[u][1]] = entries[held[u][1]]
               /\ call \in InWait => held'[t][1] # held[u][1]
    PROVE  WaitInv'
<1>1. op'[t] = call /\ \A u \in Threads \ {t} : op'[u] = op[u]
  BY Zenon
<1>2. ASSUME NEW u \in Threads PROVE WaitFits(op'[u], held'[u], waiting', entries')
  <2>1. CASE u = t
    BY <2>1, <1>1, Zenon
  <2>2. CASE u # t
    <3>1. WaitFits(op[u], held[u], waiting, entries) /\ op'[u] = op[u] /\ held'[u] = held[u]
      BY <2>2, <1>1, Zenon DEF WaitInv
    <3>2. op[u] \in InWait => held[u][1] \in waiting' /\ entries'[held[u][1]] = entries[held[u][1]]
      BY <2>2, Zenon
    <3> QED BY <3>1, <3>2, Zenon DEF WaitFits, InWait
  <2> QED BY <2>1, <2>2, Zenon
<1>3. ASSUME NEW u \in Threads, NEW v \in Threads,
             op'[u] \in InWait, op'[v] \in InWait, u # v
      PROVE  held'[u][1] # held'[v][1]
  <2>1. CASE u = t
    BY <2>1, <1>1, <1>3, Zenon
  <2>2. CASE v = t
    BY <2>2, <1>1, <1>3, Zenon
  <2>3. CASE u # t /\ v # t
    <3>1. op[u] \in InWait /\ op[v] \in InWait /\ held'[u] = held[u] /\ held'[v] = held[v]
      BY <2>3, <1>1, <1>3, Zenon
    <3>2. held[u][1] # held[v][1]
      BY <3>1, <1>3, Zenon DEF WaitInv
    <3> QED BY <3>1, <3>2, Zenon
  <2> QED BY <2>1, <2>2, <2>3, Zenon
<1> QED BY <1>2, <1>3, Zenon DEF WaitInv

\* The snapshot.
LEMMA PortSnapshot ==
    ASSUME PortInv, WaitInv, NEW t \in Threads, Snapshot(t)
    PROVE  PortInv'
<1>1. PICK S : S = {o \in Registered(held[t][1]) \intersect Sockets : ~Exhausted(o)}
  BY Zenon
<1>2. PICK s \in Orders(S) : held' = [held EXCEPT ![t] = @ \o s]
  BY <1>1, Zenon DEF Snapshot
<1>3. /\ op[t] = "snapshot" /\ op' = [op EXCEPT ![t] = "poll"] /\ TableInv
      /\ references' = [o \in Objects |-> references[o] + (IF o \in S THEN 1 ELSE 0)]
      /\ table' = table /\ descriptors' = descriptors /\ open' = open /\ doomed' = doomed
      /\ port' = port
  BY <1>1, Zenon DEF Snapshot, At, Goto, PortInv
<1>4. Makers' = Makers /\ t \notin Makers
  BY <1>3, Zenon DEF Makers, PortInv
<1>5. S \in SUBSET Objects /\ S \subseteq Sockets
  BY <1>1, Zenon DEF Registered
<1>6. IsFiniteSet(S)
  BY <1>5, FS_Subset, EventPortAssumption, Zenon
<1>7. \A o \in S : Named(o) # {}
  <2>1. held[t][1] # NULL => \A o \in S : port[o] # NULL
    BY <1>1, Zenon DEF Registered
  <2>2. held[t][1] # NULL
    BY <1>3, WaitsAtPort, Zenon DEF InWait
  <2> QED BY <2>1, <2>2, <1>5, Zenon DEF PortInv, RegisteredIsNamed, Registrable
<1>8. TableInv'
  BY <1>2, <1>3, <1>4, <1>5, <1>6, <1>7, SnapshotPins, Zenon
<1>9. \A o \in Objects : Registrable(o) => Registrable(o)'
  BY <1>3, Zenon DEF Registrable, Named
<1>10. port \in [Objects -> Objects \union {NULL}]
  BY Zenon DEF PortInv
<1>11. Fits(t, "poll", held'[t])
  BY Zenon DEF Fits
<1>12. \A u \in Threads \ {t} : held'[u] = held[u]
  BY <1>2, <1>3, Zenon DEF TableInv, ObjectsTypeOK
<1> QED BY <1>3, <1>8, <1>9, <1>10, <1>11, <1>12, PortRest, Zenon

-----------------------------------------------------------------------------
\* A step outside a wait leaves the waits alone.
LEMMA WaitSame ==
    ASSUME PortInv, WaitInv, NEW t \in Threads, NEW call, op' = [op EXCEPT ![t] = call],
           call \notin InWait \union {"begin"}, \A u \in Threads \ {t} : held'[u] = held[u],
           waiting' = waiting, entries' = entries, events' \in [Objects -> SUBSET Directions]
    PROVE  WaitInv'
<1>1. /\ waiting \subseteq Ports /\ entries \in [Ports -> Seq(Entries)] /\ DOMAIN op = Threads
      /\ \A u \in Threads : op[u] \in InWait => held[u][1] \in waiting
  BY Zenon DEF PortInv, WaitInv, WaitFits
<1>2. WaitFits(call, held'[t], waiting', entries')
  BY Zenon DEF WaitFits, InWait
<1> QED BY <1>1, <1>2, WaitStep, Zenon

\* A step that changes no object, registration or wait.
LEMMA QuietStep ==
    ASSUME PortInv, WaitInv, NEW t \in Threads, NEW call, Goto(t, call),
           call \notin InWait \union {"begin", "none", "channel", "register", "closeport",
                                      "watch", "change", "open", "adopt"},
           op[t] \notin {"open", "adopt", "channel"}, UNCHANGED objects,
           port' = port, events' = events, waiting' = waiting, entries' = entries
    PROVE  PortInv' /\ WaitInv'
<1>1. Fits(t, call, held[t])
  BY Zenon DEF Fits
<1>2. PortInv'
  BY <1>1, PortSkip, Zenon
<1>3. op' = [op EXCEPT ![t] = call] /\ held' = held /\ events \in [Objects -> SUBSET Directions]
  BY Zenon DEF Goto, objects, WaitInv
<1> QED BY <1>2, <1>3, WaitSame, Zenon

\* A call that begins with a pin.
LEMMA PinStep ==
    ASSUME PortInv, WaitInv, NEW t \in Threads, At(t, "none"), NEW call, Goto(t, call),
           NEW fd \in Fds, NEW kinds \in SUBSET Objects, sn_pin(t, fd, kinds),
           call \in {"register", "closeport", "begin"} => kinds = Ports,
           call \in {"register", "closeport", "begin", "io"}, call = "register" => t \in Clients,
           port' = port, events' = events, waiting' = waiting, entries' = entries
    PROVE  PortInv' /\ WaitInv'
<1>1. held[t] = <<>> /\ op[t] = "none" /\ table[fd] \in kinds /\ TableInv
  BY Zenon DEF PortInv, HoldsAsMany, At, sn_pin
<1>2. PICK has : has = Append(held[t], table[fd])
  BY Zenon
<1>3. Len(has) = 1 /\ has[1] = table[fd]
  BY <1>1, <1>2
<1>4. Fits(t, call, has)
  BY <1>1, <1>3, Zenon DEF Fits
<1>5. PortInv'
  BY <1>1, <1>2, <1>4, PortPin, Zenon
<1>6. held'[t] = has /\ \A u \in Threads \ {t} : held'[u] = held[u]
  BY <1>1, <1>2, Zenon DEF sn_pin, TableInv, ObjectsTypeOK
<1>7. WaitFits(call, held'[t], waiting', entries')
  BY <1>1, <1>3, <1>6, Zenon DEF WaitFits, InWait
<1>8. /\ waiting \subseteq Ports /\ entries \in [Ports -> Seq(Entries)] /\ DOMAIN op = Threads
      /\ events \in [Objects -> SUBSET Directions]
      /\ \A u \in Threads : op[u] \in InWait => held[u][1] \in waiting
  BY Zenon DEF PortInv, WaitInv, WaitFits
<1>9. op' = [op EXCEPT ![t] = call] /\ call \notin InWait
  BY Zenon DEF Goto, InWait
<1> QED BY <1>5, <1>6, <1>7, <1>8, <1>9, WaitStep, Zenon

\* A call that makes an object.
LEMMA NewStep ==
    ASSUME PortInv, WaitInv, NEW t \in Threads, At(t, "none"), NEW call \in {"channel", "open"},
           Goto(t, call), NEW x \in Objects, sn_new(t, x),
           port' = port, events' = events, waiting' = waiting, entries' = entries
    PROVE  PortInv' /\ WaitInv'
<1>1. PortInv'
  BY PortNew, Zenon
<1>2. \A u \in Threads \ {t} : held'[u] = held[u]
  BY Zenon DEF sn_new, PortInv, TableInv, ObjectsTypeOK
<1>3. /\ op' = [op EXCEPT ![t] = call] /\ call \notin InWait \union {"begin"}
      /\ events' \in [Objects -> SUBSET Directions]
  BY Zenon DEF Goto, InWait, WaitInv
<1> QED BY <1>1, <1>2, <1>3, WaitSame, Zenon

-----------------------------------------------------------------------------
\* A step within a wait.
LEMMA OwnWait ==
    ASSUME PortInv, WaitInv, NEW t \in Threads, op[t] \in InWait,
           NEW call, op' = [op EXCEPT ![t] = call], \A u \in Threads \ {t} : held'[u] = held[u],
           held'[t][1] = held[t][1], waiting' = waiting, events' = events,
           entries' \in [Ports -> Seq(Entries)],
           \A p \in Ports \ {held[t][1]} : entries'[p] = entries[p],
           WaitFits(call, held'[t], waiting', entries')
    PROVE  WaitInv'
<1>1. waiting' \subseteq Ports /\ events' \in [Objects -> SUBSET Directions] /\ DOMAIN op = Threads
  BY Zenon DEF WaitInv, PortInv
<1>2. ASSUME NEW u \in Threads \ {t}, op[u] \in InWait
      PROVE  /\ held[u][1] \in waiting' /\ entries'[held[u][1]] = entries[held[u][1]]
             /\ held'[t][1] # held[u][1]
  <2>1. held[u][1] # held[t][1]
    BY <1>2, Zenon DEF WaitInv
  <2>2. held[u][1] \in waiting /\ waiting \subseteq Ports
    BY <1>2, Zenon DEF WaitInv, WaitFits
  <2> QED BY <2>1, <2>2, Zenon
<1>3. \A u \in Threads \ {t} : op[u] \in InWait =>
         /\ held[u][1] \in waiting' /\ entries'[held[u][1]] = entries[held[u][1]]
         /\ call \in InWait => held'[t][1] # held[u][1]
  BY <1>2, Zenon
<1> QED BY <1>1, <1>3, WaitStep, Zenon

\* Begin takes a port that nobody waits on.
LEMMA BeginKeeps ==
    ASSUME PortInv, WaitInv, NEW t \in Threads, Begin(t)
    PROVE  PortInv' /\ WaitInv'
<1>1. PICK p : p = held[t][1]
  BY Zenon
<1>2. PICK call : call = IF p \in waiting THEN "leave" ELSE "round"
  BY Zenon
<1>3. /\ op[t] = "begin" /\ Goto(t, call) /\ waiting' = waiting \union {p}
      /\ UNCHANGED objects /\ port' = port /\ events' = events /\ entries' = entries
  BY <1>1, <1>2, Zenon DEF Begin, At, registration
<1>4. op' = [op EXCEPT ![t] = call] /\ held' = held
  BY <1>3, Zenon DEF Goto, objects
<1>5. PortInv'
  <2>1. Fits(t, call, held[t])
    BY <1>2, Zenon DEF Fits
  <2> QED BY <1>2, <1>3, <2>1, PortSkip, Zenon
<1>6. Len(held[t]) = 1 /\ p \in Ports
  BY <1>1, <1>3, Zenon DEF WaitInv, WaitFits
<1>7. WaitFits(call, held'[t], waiting', entries')
  BY <1>1, <1>2, <1>3, <1>4, <1>6, Zenon DEF WaitFits, InWait
<1>8. /\ waiting' \subseteq Ports /\ entries' \in [Ports -> Seq(Entries)]
      /\ events' \in [Objects -> SUBSET Directions] /\ DOMAIN op = Threads
  BY <1>3, <1>6, Zenon DEF WaitInv, PortInv
<1>9. ASSUME NEW u \in Threads \ {t}, op[u] \in InWait
      PROVE  /\ held[u][1] \in waiting' /\ entries'[held[u][1]] = entries[held[u][1]]
             /\ call \in InWait => held'[t][1] # held[u][1]
  <2>1. held[u][1] \in waiting
    BY <1>9, Zenon DEF WaitInv, WaitFits
  <2> QED BY <2>1, <1>1, <1>2, <1>3, <1>4, Zenon DEF InWait
<1>10. WaitInv'
  BY <1>4, <1>7, <1>8, <1>9, WaitStep, Zenon
<1> QED BY <1>5, <1>10, Zenon

\* The head of the loop, and a delivery that is through.
LEMMA LoopKeeps ==
    ASSUME PortInv, WaitInv, NEW t \in Threads, Round(t) \/ Delivered(t) \/ Deliver(t)
    PROVE  PortInv' /\ WaitInv'
<1>1. PICK call \in {"end", "snapshot", "round", "release"} :
         /\ Goto(t, call)
         /\ call \in {"end", "snapshot"} => op[t] = "round"
         /\ call \in {"round", "release"} => op[t] = "deliver"
         /\ call = "round" => entries[held[t][1]] = <<>>
         /\ call = "release" => entries[held[t][1]] # <<>>
  BY Zenon DEF Round, Delivered, Deliver, At
<1>2. /\ UNCHANGED objects /\ port' = port /\ events' = events
      /\ waiting' = waiting /\ entries' = entries
  BY Zenon DEF Round, Delivered, Deliver, registration, waiter
<1>3. op' = [op EXCEPT ![t] = call] /\ held' = held /\ op[t] \in {"round", "deliver"}
  BY <1>1, <1>2, Zenon DEF Goto, objects
<1>4. PortInv'
  <2>1. Fits(t, call, held[t])
    BY Zenon DEF Fits
  <2> QED BY <1>1, <1>2, <1>3, <2>1, PortSkip, Zenon
<1>5. WaitFits(op[t], held[t], waiting, entries)
  BY Zenon DEF WaitInv
<1>6. WaitFits(call, held[t], waiting, entries)
  <2>1. entries[held[t][1]] = <<>> => Len(entries[held[t][1]]) = 0
    OBVIOUS
  <2>2. CASE call \in {"end", "snapshot"}
    BY <2>2, <1>1, <1>5, Zenon DEF WaitFits, InWait
  <2>3. CASE call = "round"
    <3>1. op[t] = "deliver" /\ entries[held[t][1]] = <<>>
      BY <2>3, <1>1, Zenon
    <3>2. held[t][1] \in waiting /\ Len(held[t]) = 1 + Len(entries[held[t][1]])
      BY <3>1, <1>5, Zenon DEF WaitFits, InWait
    <3>3. Len(held[t]) = 1
      BY <3>1, <3>2, <2>1
    <3> QED BY <3>2, <3>3, <2>3, Zenon DEF WaitFits
  <2>4. CASE call = "release"
    BY <2>4, <1>1, <1>5, Zenon DEF WaitFits, InWait
  <2> QED BY <2>2, <2>3, <2>4, Zenon
<1>7. entries \in [Ports -> Seq(Entries)] /\ op[t] \in InWait
  BY <1>3, Zenon DEF WaitInv, InWait
<1>8. WaitInv'
  BY <1>2, <1>3, <1>6, <1>7, OwnWait, Zenon
<1> QED BY <1>4, <1>8, Zenon

\* The end of a wait leaves the port to the next one.
LEMMA EndKeeps ==
    ASSUME PortInv, WaitInv, NEW t \in Threads, EndWait(t)
    PROVE  PortInv' /\ WaitInv'
<1>1. /\ op[t] = "end" /\ Goto(t, "leave") /\ waiting' = waiting \ {held[t][1]}
      /\ UNCHANGED objects /\ port' = port /\ events' = events /\ entries' = entries
  BY Zenon DEF EndWait, At, registration
<1>2. op' = [op EXCEPT ![t] = "leave"] /\ held' = held /\ op[t] \in InWait
  BY <1>1, Zenon DEF Goto, objects, InWait
<1>3. PortInv'
  <2>1. Fits(t, "leave", held[t])
    BY Zenon DEF Fits
  <2> QED BY <1>1, <2>1, PortSkip, Zenon
<1>4. WaitFits("leave", held'[t], waiting', entries') /\ "leave" \notin InWait
  BY Zenon DEF WaitFits, InWait
<1>5. /\ waiting' \subseteq Ports /\ entries' \in [Ports -> Seq(Entries)]
      /\ events' \in [Objects -> SUBSET Directions] /\ DOMAIN op = Threads
  BY <1>1, Zenon DEF WaitInv, PortInv
<1>6. ASSUME NEW u \in Threads \ {t}, op[u] \in InWait
      PROVE  held[u][1] \in waiting' /\ entries'[held[u][1]] = entries[held[u][1]]
  <2>1. held[u][1] \in waiting
    BY <1>6, Zenon DEF WaitInv, WaitFits
  <2>2. held[u][1] # held[t][1]
    BY <1>2, <1>6, Zenon DEF WaitInv
  <2> QED BY <2>1, <2>2, <1>1, Zenon
<1>7. \A u \in Threads \ {t} : op[u] \in InWait =>
         /\ held[u][1] \in waiting' /\ entries'[held[u][1]] = entries[held[u][1]]
         /\ "leave" \in InWait => held'[t][1] # held[u][1]
  BY <1>4, <1>6, Zenon
<1>8. \A u \in Threads \ {t} : held'[u] = held[u]
  BY <1>2, Zenon
<1>9. WaitInv'
  BY <1>2, <1>4, <1>5, <1>7, <1>8, WaitStep, Zenon
<1> QED BY <1>3, <1>9, Zenon

\* The snapshot has one entry for each socket that it pins.
LEMMA SnapshotKeeps ==
    ASSUME PortInv, WaitInv, NEW t \in Threads, Snapshot(t)
    PROVE  PortInv' /\ WaitInv'
<1>1. PortInv'
  BY PortSnapshot, Zenon
<1>2. PICK p : p = held[t][1]
  BY Zenon
<1>3. PICK S : S = {o \in Registered(held[t][1]) \intersect Sockets : ~Exhausted(o)}
  BY Zenon
<1>4. PICK s \in Orders(S) :
         /\ held' = [held EXCEPT ![t] = @ \o s]
         /\ entries' = [entries EXCEPT ![p] =
                [i \in DOMAIN s |-> [wanted |-> wanted(s[i]), triggered |-> {}]]]
  BY <1>2, <1>3, Zenon DEF Snapshot
<1>5. /\ op[t] = "snapshot" /\ op' = [op EXCEPT ![t] = "poll"] /\ TableInv
      /\ waiting' = waiting /\ events' = events
  BY Zenon DEF Snapshot, At, Goto, PortInv
<1>6. p \in waiting /\ p \in Ports /\ Len(held[t]) = 1 /\ op[t] \in InWait
  BY <1>2, <1>5, Zenon DEF WaitInv, WaitFits, InWait
<1>7. S \subseteq Objects /\ Cardinality(S) \in Nat
  <2>1. S \subseteq Objects /\ S \subseteq Sockets
    BY <1>3, Zenon DEF Registered
  <2> QED BY <2>1, FS_Subset, FS_CardinalityType, EventPortAssumption, Zenon
<1>8. s \in [1 .. Cardinality(S) -> S] /\ DOMAIN s = 1 .. Cardinality(S)
  BY Zenon DEF Orders
<1>9. PICK e : e = [i \in DOMAIN s |-> [wanted |-> wanted(s[i]), triggered |-> {}]]
  BY Zenon
<1>10. \A i \in 1 .. Cardinality(S) :
          [wanted |-> wanted(s[i]), triggered |-> {}] \in Entries
  BY <1>7, <1>8, Zenon DEF Entries, wanted, WaitInv
<1>11. e \in Seq(Entries) /\ Len(e) = Cardinality(S)
  BY <1>7, <1>8, <1>9, <1>10
<1>12. /\ entries' \in [Ports -> Seq(Entries)] /\ entries'[p] = e
       /\ \A q \in Ports \ {p} : entries'[q] = entries[q]
  <2>1. entries' = [entries EXCEPT ![p] = e] /\ entries \in [Ports -> Seq(Entries)]
    BY <1>4, <1>9, Zenon DEF WaitInv
  <2> QED BY <2>1, <1>6, <1>11, Zenon
<1>13. /\ \A u \in Threads \ {t} : held'[u] = held[u]
       /\ held'[t][1] = p /\ Len(held'[t]) = 1 + Cardinality(S)
  <2>1. held[t] \in Seq(Objects) /\ s \in Seq(Objects) /\ Len(s) = Cardinality(S)
    <3>1. held[t] \in Seq(Objects)
      BY <1>5, Zenon DEF TableInv, ObjectsTypeOK
    <3>2. s \in Seq(Objects) /\ Len(s) = Cardinality(S)
      BY ONLY <1>7, <1>8
    <3> QED BY <3>1, <3>2, Zenon
  <2>2. (held[t] \o s)[1] = held[t][1] /\ Len(held[t] \o s) = 1 + Cardinality(S)
    <3>1. /\ Len(held[t] \o s) = Len(held[t]) + Len(s)
          /\ \A i \in 1 .. Len(held[t]) : (held[t] \o s)[i] = held[t][i]
      BY ONLY <2>1
    <3>2. 1 \in 1 .. Len(held[t])
      BY <1>6
    <3> QED BY <3>1, <3>2, <2>1, <1>6, Zenon
  <2>3. held'[t] = held[t] \o s /\ \A u \in Threads \ {t} : held'[u] = held[u]
    BY <1>4, <1>5, Zenon DEF TableInv, ObjectsTypeOK
  <2> QED BY <2>2, <2>3, <1>2, Zenon
<1>14. WaitFits("poll", held'[t], waiting', entries')
  BY <1>5, <1>6, <1>11, <1>12, <1>13, Zenon DEF WaitFits, InWait
<1>15. WaitInv'
  BY <1>2, <1>5, <1>6, <1>12, <1>13, <1>14, OwnWait, Zenon
<1> QED BY <1>1, <1>15, Zenon

\* The poll fills the snapshot in.
LEMMA PollKeeps ==
    ASSUME PortInv, WaitInv, NEW t \in Threads, Poll(t)
    PROVE  PortInv' /\ WaitInv'
<1>1. PICK p : p = held[t][1]
  BY Zenon
<1>2. PICK e : e = [i \in DOMAIN entries[p] |->
                      [entries[p][i] EXCEPT !.triggered = Triggered(t, i)]]
  BY Zenon
<1>3. /\ op[t] = "poll" /\ Goto(t, "deliver") /\ UNCHANGED objects
      /\ port' = port /\ events' = events /\ waiting' = waiting
      /\ entries' = [entries EXCEPT ![p] = e]
  BY <1>1, <1>2, Zenon DEF Poll, At, registration
<1>4. op' = [op EXCEPT ![t] = "deliver"] /\ held' = held /\ op[t] \in InWait
  BY <1>3, Zenon DEF Goto, objects, InWait
<1>5. PortInv'
  <2>1. Fits(t, "deliver", held[t])
    BY Zenon DEF Fits
  <2> QED BY <1>3, <2>1, PortSkip, Zenon
<1>6. p \in waiting /\ p \in Ports /\ Len(held[t]) = 1 + Len(entries[p])
  BY <1>1, <1>3, Zenon DEF WaitInv, WaitFits, InWait
<1>7. entries[p] \in Seq(Entries) /\ DOMAIN entries[p] = 1 .. Len(entries[p])
      /\ Len(entries[p]) \in Nat /\ \A i \in DOMAIN entries[p] : entries[p][i] \in Entries
  BY <1>6 DEF WaitInv
<1>8. \A i \in DOMAIN entries[p] :
         [entries[p][i] EXCEPT !.triggered = Triggered(t, i)] \in Entries
  BY <1>1, <1>7, Zenon DEF Entries, Triggered
<1>9. e \in Seq(Entries) /\ Len(e) = Len(entries[p])
  BY <1>2, <1>7, <1>8
<1>10. /\ entries' \in [Ports -> Seq(Entries)] /\ entries'[p] = e
       /\ \A q \in Ports \ {p} : entries'[q] = entries[q]
  <2>1. entries \in [Ports -> Seq(Entries)]
    BY Zenon DEF WaitInv
  <2> QED BY <2>1, <1>3, <1>6, <1>9, Zenon
<1>11. WaitFits("deliver", held'[t], waiting', entries')
  BY <1>1, <1>3, <1>4, <1>6, <1>9, <1>10, Zenon DEF WaitFits, InWait
<1>12. WaitInv'
  BY <1>1, <1>3, <1>4, <1>10, <1>11, OwnWait, Zenon
<1> QED BY <1>5, <1>12, Zenon

\* The entry of a socket goes with its pin.
LEMMA ReleaseKeeps ==
    ASSUME PortInv, WaitInv, NEW t \in Threads, Release(t)
    PROVE  PortInv' /\ WaitInv'
<1>1. PICK p : p = held[t][1]
  BY Zenon
<1>2. PICK e : e = SubSeq(entries[p], 1, Len(entries[p]) - 1)
  BY Zenon
<1>3. /\ op[t] = "release" /\ Goto(t, "deliver") /\ sn_unpin(t)
      /\ port' = port /\ events' = events /\ waiting' = waiting
      /\ entries' = [entries EXCEPT ![p] = e]
  BY <1>1, <1>2, Zenon DEF Release, At, registration
<1>4. op' = [op EXCEPT ![t] = "deliver"] /\ op[t] \in InWait
  BY <1>3, Zenon DEF Goto, InWait
<1>5. PortInv'
  BY <1>3, PortUnpin, Zenon
<1>6. p \in waiting /\ p \in Ports /\ Len(held[t]) = 1 + Len(entries[p]) /\ entries[p] # <<>>
  BY <1>1, <1>3, Zenon DEF WaitInv, WaitFits, InWait
<1>7. entries[p] \in Seq(Entries) /\ Len(entries[p]) \in Nat \ {0}
  BY <1>6 DEF WaitInv
<1>8. e \in Seq(Entries) /\ Len(e) = Len(entries[p]) - 1
  <2>1. e = [i \in 1 .. Len(entries[p]) - 1 |-> entries[p][i]]
    BY <1>2, <1>7
  <2>2. \A i \in 1 .. Len(entries[p]) - 1 : entries[p][i] \in Entries
    BY <1>7
  <2> QED BY <2>1, <2>2, <1>7
<1>9. /\ entries' \in [Ports -> Seq(Entries)] /\ entries'[p] = e
      /\ \A q \in Ports \ {p} : entries'[q] = entries[q]
  <2>1. entries \in [Ports -> Seq(Entries)]
    BY Zenon DEF WaitInv
  <2> QED BY <2>1, <1>3, <1>6, <1>8, Zenon
<1>10. /\ \A u \in Threads \ {t} : held'[u] = held[u]
       /\ held'[t][1] = p /\ Len(held'[t]) = Len(held[t]) - 1
  <2>1. held \in [Threads -> Seq(Objects)] /\ held[t] # <<>> /\ LetGo(t)
    BY <1>3, Zenon DEF PortInv, TableInv, ObjectsTypeOK, sn_unpin
  <2>2. 1 \in 1 .. Len(held[t]) - 1
    BY <1>6, <1>7
  <2> QED BY <2>1, <2>2, <1>1, OthersAreKept, Zenon
<1>11. WaitFits("deliver", held'[t], waiting', entries')
  <2>1. Len(held'[t]) = 1 + Len(e)
    BY <1>6, <1>7, <1>8, <1>10
  <2> QED BY <2>1, <1>3, <1>6, <1>9, <1>10, Zenon DEF WaitFits, InWait
<1>12. WaitInv'
  BY <1>1, <1>3, <1>4, <1>9, <1>10, <1>11, OwnWait, Zenon
<1> QED BY <1>5, <1>12, Zenon

\* A call that is over lets go of one object after the other.
LEMMA LeaveKeeps ==
    ASSUME PortInv, WaitInv, NEW t \in Threads, op[t] = "leave", sn_unpin(t), op' = op,
           port' = port, events' = events, waiting' = waiting, entries' = entries
    PROVE  PortInv' /\ WaitInv'
<1>1. Makers' = Makers /\ t \notin Makers /\ TableInv /\ table' = table /\ DOMAIN op' = Threads
  BY Zenon DEF Makers, PortInv, sn_unpin
<1>2. TableInv'
  BY <1>1, UnpinKeeps, Zenon
<1>3. \A u \in Threads \ {t} : held'[u] = held[u]
  BY <1>1, Zenon DEF sn_unpin, LetGo, TableInv, ObjectsTypeOK
<1>4. \A o \in Objects : Registrable(o) => Registrable(o)'
  BY <1>1, Zenon DEF Registrable, Named
<1>5. \A u \in Threads : Fits(u, op'[u], held'[u])
  <2>1. Fits(t, "leave", held'[t])
    BY Zenon DEF Fits
  <2> QED BY <2>1, <1>3, CallsFit, Zenon
<1>6. \A o \in Objects : port'[o] # NULL => Registrable(o)'
  BY <1>4, Zenon DEF PortInv, RegisteredIsNamed
<1>7. ASSUME NEW u \in Threads, op'[u] \in {"watch", "change"},
             NEW x \in Objects, x = held'[u][2]
      PROVE  Registrable(x)'
  BY <1>4, <1>5, <1>7, Zenon DEF Fits
<1>8. port' \in [Objects -> Objects \union {NULL}]
  BY Zenon DEF PortInv
<1>9. PortInv'
  BY <1>1, <1>2, <1>5, <1>6, <1>7, <1>8, PortFollows, Zenon
<1>10. \A u \in Threads : WaitFits(op'[u], held'[u], waiting', entries')
  <2>1. WaitFits("leave", held'[t], waiting', entries')
    BY Zenon DEF WaitFits, InWait
  <2>2. \A u \in Threads : WaitFits(op[u], held[u], waiting, entries)
    BY Zenon DEF WaitInv
  <2> QED BY <2>1, <2>2, <1>3, Zenon
<1>11. \A u, v \in Threads :
          op'[u] \in InWait /\ op'[v] \in InWait /\ u # v => held'[u][1] # held'[v][1]
  <2>1. "leave" \notin InWait
    BY Zenon DEF InWait
  <2> QED BY <2>1, <1>3, ZenonT(30) DEF WaitInv
<1>12. WaitInv'
  BY <1>10, <1>11, Zenon DEF WaitInv
<1> QED BY <1>9, <1>12, Zenon

-----------------------------------------------------------------------------
\* Only pipes have readers.
WatchedArePipes == watched \subseteq Pipes

\* A step gives a reader to a pipe, takes it with the pipe, or leaves it.
LEMMA WatchedStayPipes ==
    WatchedArePipes /\ [PortNext]_port_vars => WatchedArePipes'
<1> SUFFICES ASSUME WatchedArePipes, [PortNext]_port_vars PROVE watched' \subseteq Pipes
  BY Zenon DEF WatchedArePipes
<1> USE DEF WatchedArePipes
<1>1. CASE UNCHANGED port_vars
  BY <1>1, Zenon DEF port_vars
<1>2. ASSUME NEW t, Continue(t) PROVE watched' \subseteq Pipes
  <2>1. CASE PipeWatch(t)
    BY <2>1, Zenon DEF PipeWatch
  <2>2. CASE DestroyObject(t)
    BY <2>2, Zenon DEF DestroyObject
  <2>3. CASE \/ TakeChannel(t) \/ InstallObject(t) \/ SameRegistration(t) \/ sn_port_wake(t)
             \/ Leave(t) \/ Io(t) \/ sn_socket_would_block(t) \/ ClosePort(t) \/ sn_port_notify(t)
    BY <2>3, Zenon DEF TakeChannel, InstallObject, SameRegistration, sn_port_wake,
             Leave, Io, sn_socket_would_block, ClosePort, sn_port_notify
  <2>4. CASE \/ Begin(t) \/ Round(t) \/ Snapshot(t) \/ Poll(t)
             \/ Deliver(t) \/ Release(t) \/ Delivered(t) \/ EndWait(t)
    BY <2>4, Zenon DEF Begin, Round, Snapshot, Poll, Deliver, Release, Delivered, EndWait
  <2>5. CASE \E fd \in Fds : RegisterObject(t, fd)
    BY <2>5, Zenon DEF RegisterObject
  <2>6. CASE \E newEvents \in SUBSET Directions : ChangeRegistration(t, newEvents)
    BY <2>6, Zenon DEF ChangeRegistration
  <2> QED BY <1>2, <2>1, <2>2, <2>3, <2>4, <2>5, <2>6, Zenon DEF Continue
<1>3. ASSUME NEW t, NEW fd,
             \/ PipeReader(t) \/ WaitForSocketEvents(t, fd)
             \/ CreateSocketEventPort(t) \/ Create(t) \/ Register(t, fd) \/ Receive(t, fd)
             \/ CloseObject(t, fd) \/ CloseSocketEventPort(t, fd)
      PROVE  watched' \subseteq Pipes
  BY <1>3, Zenon DEF PipeReader, WaitForSocketEvents, CreateSocketEventPort, Create, Register,
             Receive, CloseObject, CloseSocketEventPort
<1>4. ASSUME NEW o, NEW c, Raise(o, c) PROVE watched' \subseteq Pipes
  BY <1>4, Zenon DEF Raise
<1> QED BY <1>1, <1>2, <1>3, <1>4, Zenon DEF PortNext, Waits

\* Every step keeps the invariant.
LEMMA PortKeeps ==
    PortInv /\ WaitInv /\ WatchedArePipes /\ [PortNext]_port_vars => PortInv' /\ WaitInv'
<1> SUFFICES ASSUME PortInv, WaitInv, WatchedArePipes, [PortNext]_port_vars
             PROVE  PortInv' /\ WaitInv'
  BY Zenon
<1>0. /\ Threads = Waiters \union Clients \union Readers /\ Ports \subseteq Objects
      /\ Sockets \union Pipes \subseteq Objects /\ Sockets \union watched \subseteq Objects
  BY EventPortAssumption, Zenon DEF Objects, WatchedArePipes
<1>1. ASSUME UNCHANGED <<objects, op, port, events, waiting, entries>> PROVE PortInv' /\ WaitInv'
  <2>1. /\ table' = table /\ references' = references /\ descriptors' = descriptors /\ open' = open
        /\ held' = held /\ doomed' = doomed /\ op' = op /\ port' = port /\ events' = events
        /\ waiting' = waiting /\ entries' = entries
    BY <1>1, Zenon DEF objects
  <2>2. Makers' = Makers /\ TableInv
    BY <2>1, Zenon DEF Makers, PortInv
  <2>3. TableInv'
    BY <2>2, <1>1, SkipKeeps, Zenon
  <2>4. WaitInv'
    BY <2>1, Zenon DEF WaitInv
  <2>5. HoldsAsMany' /\ RegisteredIsNamed'
    BY <2>1 DEF PortInv, HoldsAsMany, RegisteredIsNamed, Registrable, Named
  <2> QED BY <2>1, <2>3, <2>4, <2>5, Zenon DEF PortInv
<1>2. CASE UNCHANGED port_vars
  BY <1>1, <1>2, Zenon DEF port_vars, registration, waiter
<1>3. ASSUME NEW t \in Threads, Continue(t) PROVE PortInv' /\ WaitInv'
  <2> USE DEF At, registration, waiter, InWait
  <2>1. CASE TakeChannel(t)
    <3>1. op[t] = "channel" /\ port' = port /\ events' = events /\ waiting' = waiting /\ entries' = entries
      BY <2>1, Zenon DEF TakeChannel
    <3>2. CASE UNCHANGED objects /\ Goto(t, "open")
      <4>1. Fits(t, "open", held[t]) /\ events \in [Objects -> SUBSET Directions]
        BY <3>1, CallsFit, Zenon DEF Fits, WaitInv
      <4>2. PortInv'
        BY <3>1, <3>2, <4>1, PortSkip, Zenon
      <4>3. op' = [op EXCEPT ![t] = "open"] /\ held' = held
        BY <3>2, Zenon DEF Goto, objects
      <4> QED BY <3>1, <4>1, <4>2, <4>3, WaitSame, Zenon
    <3>3. CASE /\ open' = open \ {Latest(t)}
               /\ references' = [references EXCEPT ![Latest(t)] = 0]
               /\ descriptors' = [descriptors EXCEPT ![Latest(t)] = 0]
               /\ LetGo(t) /\ Goto(t, "none") /\ UNCHANGED <<table, doomed>>
      <4>1. PortInv'
        BY <2>1, <3>1, <3>3, PortDrop, Zenon DEF TakeChannel
      <4>2. op' = [op EXCEPT ![t] = "none"] /\ \A u \in Threads \ {t} : held'[u] = held[u]
        BY <3>3, Zenon DEF Goto, LetGo, PortInv, TableInv, ObjectsTypeOK
      <4>3. events' \in [Objects -> SUBSET Directions]
        BY <3>1, Zenon DEF WaitInv
      <4> QED BY <3>1, <4>1, <4>2, <4>3, WaitSame, Zenon
    <3> QED BY <2>1, <3>2, <3>3, Zenon DEF TakeChannel
  <2>2. CASE InstallObject(t)
    <3>1. PortInv'
      BY <2>2, PortInstall, Zenon DEF InstallObject
    <3>2. /\ op' = [op EXCEPT ![t] = "none"] /\ \A u \in Threads \ {t} : held'[u] = held[u]
          /\ waiting' = waiting /\ entries' = entries /\ events' = events
      BY <2>2, Zenon DEF InstallObject, sn_install, Goto, LetGo, PortInv, TableInv, ObjectsTypeOK
    <3>3. events' \in [Objects -> SUBSET Directions]
      BY <3>2, Zenon DEF WaitInv
    <3> QED BY <3>1, <3>2, <3>3, WaitSame, Zenon
  <2>3. ASSUME NEW fd \in Fds, RegisterObject(t, fd) PROVE PortInv' /\ WaitInv'
    <3>1. /\ op[t] = "register" /\ port' = port /\ events' = events
          /\ waiting' = waiting /\ entries' = entries
      BY <2>3, Zenon DEF RegisterObject
    <3>2. CASE UNCHANGED objects /\ Goto(t, "leave")
      BY <3>1, <3>2, QuietStep, Zenon
    <3>3. CASE sn_pin(t, fd, Objects) /\ Goto(t, IF table[fd] \in Ports THEN "leave" ELSE "watch")
      <4>1. PICK call : call = IF table[fd] \in Ports THEN "leave" ELSE "watch"
        BY Zenon
      <4>2. /\ Len(held[t]) = 1 /\ t \in Clients /\ held[t] \in Seq(Objects)
            /\ table[fd] \in Objects
        BY <3>1, <3>3, CallsFit, Zenon DEF Fits, PortInv, TableInv, ObjectsTypeOK, sn_pin
      <4>3. Len(Append(held[t], table[fd])) = 2 /\ Append(held[t], table[fd])[2] = table[fd]
        <5>1. /\ Len(Append(held[t], table[fd])) = Len(held[t]) + 1
              /\ Append(held[t], table[fd])[Len(held[t]) + 1] = table[fd]
          BY <4>2, AppendIsLast, Zenon
        <5>2. Len(held[t]) + 1 = 2
          BY <4>2
        <5> QED BY <5>1, <5>2, Zenon
      <4>4. Fits(t, call, Append(held[t], table[fd]))
        BY <4>1, <4>2, <4>3, Zenon DEF Fits, Registrable, Named
      <4>5. PortInv'
        BY <3>1, <3>3, <4>1, <4>4, PortPin
      <4>6. op' = [op EXCEPT ![t] = call] /\ \A u \in Threads \ {t} : held'[u] = held[u]
        BY <3>3, <4>1, Zenon DEF Goto, sn_pin, PortInv, TableInv, ObjectsTypeOK
      <4>7. events' \in [Objects -> SUBSET Directions]
        BY <3>1, Zenon DEF WaitInv
      <4> QED BY <3>1, <4>1, <4>5, <4>6, <4>7, WaitSame, Zenon
    <3> QED BY <2>3, <3>2, <3>3, Zenon DEF RegisterObject
  <2>4. CASE PipeWatch(t)
    <3>1. PortInv'
      BY <2>4, PortWatch, Zenon
    <3>2. events' = events /\ waiting' = waiting /\ entries' = entries /\ op[t] = "watch"
      BY <2>4, Zenon DEF PipeWatch
    <3>3. \A u \in Threads : op'[u] \notin InWait \union {"begin"} \/ (op'[u] = op[u] /\ held'[u] = held[u])
      <4>1. CASE UNCHANGED objects /\ Goto(t, "change")
        BY <4>1, Zenon DEF Goto, objects, PortInv
      <4>2. CASE \E r \in Readers :
                    /\ held' = [held EXCEPT ![r] = Append(@, Latest(t))]
                    /\ op' = [op EXCEPT ![t] = "change", ![r] = "read"]
        BY <4>2, <1>0, Zenon DEF PortInv, TableInv, ObjectsTypeOK
      <4> QED BY <2>4, <4>1, <4>2, Zenon DEF PipeWatch
    <3>4. \A u \in Threads : WaitFits(op'[u], held'[u], waiting', entries')
      BY <3>2, <3>3, Zenon DEF WaitInv, WaitFits
    <3>5. \A u, v \in Threads :
             op'[u] \in InWait /\ op'[v] \in InWait /\ u # v => held'[u][1] # held'[v][1]
      BY <3>3, ZenonT(30) DEF WaitInv
    <3> QED BY <3>1, <3>2, <3>4, <3>5, Zenon DEF WaitInv
  <2>5. CASE SameRegistration(t) \/ Io(t)
    <3>1. PICK call \in {"leave", "blocked"} : Goto(t, call)
      BY <2>5, Zenon DEF SameRegistration, Io
    <3>2. /\ op[t] \in {"change", "io"} /\ UNCHANGED objects /\ port' = port /\ events' = events
          /\ waiting' = waiting /\ entries' = entries
      BY <2>5, Zenon DEF SameRegistration, Io
    <3> QED BY <3>1, <3>2, QuietStep, Zenon
  <2>6. ASSUME NEW newEvents \in SUBSET Directions, ChangeRegistration(t, newEvents)
        PROVE  PortInv' /\ WaitInv'
    <3>1. PortInv'
      BY <2>6, PortChange, Zenon
    <3>2. UNCHANGED objects /\ waiting' = waiting /\ entries' = entries
      BY <2>6, Zenon DEF ChangeRegistration
    <3>3. PICK call \in {"leave", "wake"} : op' = [op EXCEPT ![t] = call]
      BY <2>6, Zenon DEF ChangeRegistration, Goto
    <3>4. events' \in [Objects -> SUBSET Directions]
      BY <2>6, Zenon DEF ChangeRegistration, Unlink, WaitInv
    <3>5. held' = held
      BY <3>2, Zenon DEF objects
    <3> QED BY <3>1, <3>2, <3>3, <3>4, <3>5, WaitSame, Zenon
  <2>7. CASE sn_port_wake(t) \/ sn_socket_would_block(t) \/ sn_port_notify(t)
    <3>1. PICK call \in {"read", "leave", "wake"} : Goto(t, call)
      BY <2>7, Zenon DEF sn_port_wake, sn_socket_would_block, sn_port_notify
    <3>2. /\ op[t] \in {"wake", "blocked", "notify"} /\ UNCHANGED objects
          /\ port' = port /\ events' = events /\ waiting' = waiting /\ entries' = entries
      BY <2>7, Zenon DEF sn_port_wake, sn_socket_would_block, sn_port_notify
    <3> QED BY <3>1, <3>2, QuietStep, Zenon
  <2>8. CASE Leave(t)
    <3>1. /\ op[t] = "leave" /\ port' = port /\ events' = events
          /\ waiting' = waiting /\ entries' = entries
      BY <2>8, Zenon DEF Leave
    <3>2. events' \in [Objects -> SUBSET Directions]
      BY <3>1, Zenon DEF WaitInv
    <3>3. CASE held[t] = <<>>
      <4>1. Goto(t, "none") /\ UNCHANGED objects
        BY <2>8, <3>3, Zenon DEF Leave
      <4>2. Fits(t, "none", held[t])
        BY <3>3, Zenon DEF Fits
      <4>3. PortInv'
        BY <3>1, <4>1, <4>2, PortSkip, Zenon
      <4>4. op' = [op EXCEPT ![t] = "none"] /\ held' = held
        BY <4>1, Zenon DEF Goto, objects
      <4> QED BY <3>1, <3>2, <4>3, <4>4, WaitSame, Zenon
    <3>4. CASE held[t] # <<>>
      BY <2>8, <3>1, <3>4, LeaveKeeps, Zenon DEF Leave
    <3> QED BY <3>3, <3>4, Zenon
  <2>9. CASE DestroyObject(t)
    <3>1. /\ destroy(t) /\ op' = op /\ waiting' = waiting /\ entries' = entries
          /\ Unlink({o \in Objects : port[o] = doomed[t]})
      BY <2>9, Zenon DEF DestroyObject
    <3>2. PortInv'
      BY <3>1, PortDestroy, Zenon
    <3>3. events' \in [Objects -> SUBSET Directions] /\ held' = held
      BY <3>1, Zenon DEF Unlink, WaitInv, destroy
    <3> QED BY <3>1, <3>2, <3>3, Zenon DEF WaitInv
  <2>10. CASE ClosePort(t)
    <3>1. PortInv'
      BY <2>10, PortClosePort, Zenon
    <3>2. /\ op' = [op EXCEPT ![t] = "wake"] /\ held' = held
          /\ events' = events /\ waiting' = waiting /\ entries' = entries
      BY <2>10, Zenon DEF ClosePort, Goto, close_descriptor, objects
    <3>3. events' \in [Objects -> SUBSET Directions]
      BY <3>2, Zenon DEF WaitInv
    <3> QED BY <3>1, <3>2, <3>3, WaitSame, Zenon
  <2>11. CASE Begin(t) \/ Round(t) \/ Snapshot(t) \/ Poll(t)
              \/ Deliver(t) \/ Release(t) \/ Delivered(t) \/ EndWait(t)
    BY <2>11, BeginKeeps, LoopKeeps, SnapshotKeeps, PollKeeps, ReleaseKeeps, EndKeeps, Zenon
  <2> QED BY <1>3, <2>1, <2>2, <2>3, <2>4, <2>5, <2>6, <2>7, <2>8, <2>9, <2>10, <2>11, Zenon
          DEF Continue
<1>4. ASSUME NEW t \in Readers, PipeReader(t) PROVE PortInv' /\ WaitInv'
  <2>1. PICK call \in {"leave", "notify"} : Goto(t, call)
    BY <1>4, Zenon DEF PipeReader
  <2>2. /\ t \in Threads /\ op[t] = "read" /\ UNCHANGED objects /\ port' = port /\ events' = events
        /\ waiting' = waiting /\ entries' = entries
    BY <1>0, <1>4, Zenon DEF PipeReader, At, registration, waiter
  <2> QED BY <2>1, <2>2, QuietStep, Zenon DEF InWait
<1>5. ASSUME NEW t \in Threads, NEW fd \in Fds, WaitForSocketEvents(t, fd)
      PROVE  PortInv' /\ WaitInv'
  <2>1. /\ At(t, "none") /\ sn_pin(t, fd, Ports) /\ Goto(t, "begin")
        /\ port' = port /\ events' = events /\ waiting' = waiting /\ entries' = entries
    BY <1>5, Zenon DEF WaitForSocketEvents, registration, waiter
  <2> QED BY <2>1, <1>0, PinStep
<1>6. ASSUME NEW t \in Clients, NEW fd \in Fds,
             Register(t, fd) \/ Receive(t, fd) \/ CloseSocketEventPort(t, fd)
      PROVE  PortInv' /\ WaitInv'
  <2>1. t \in Threads /\ At(t, "none")
    BY <1>0, <1>6, Zenon DEF Register, Receive, CloseSocketEventPort
  <2>2. port' = port /\ events' = events /\ waiting' = waiting /\ entries' = entries
    BY <1>6, Zenon DEF Register, Receive, CloseSocketEventPort, registration, waiter
  <2>3. CASE Register(t, fd)
    BY <2>1, <2>2, <2>3, <1>0, PinStep, Zenon DEF Register
  <2>4. CASE CloseSocketEventPort(t, fd)
    BY <2>1, <2>2, <2>4, <1>0, PinStep, Zenon DEF CloseSocketEventPort
  <2>5. CASE Receive(t, fd)
    <3>1. sn_pin(t, fd, Objects) /\ Goto(t, "io")
      <4>1. table[fd] \in Objects
        BY <2>5, <1>0, Zenon DEF Receive, sn_pin
      <4> QED BY <2>5, <4>1, Zenon DEF Receive, sn_pin
    <3> QED BY <2>1, <2>2, <3>1, PinStep, Zenon
  <2> QED BY <1>6, <2>3, <2>4, <2>5, Zenon
<1>7. ASSUME NEW t \in Clients, CreateSocketEventPort(t) \/ Create(t) PROVE PortInv' /\ WaitInv'
  <2>1. t \in Threads /\ At(t, "none")
    BY <1>0, <1>7, Zenon DEF CreateSocketEventPort, Create
  <2>2. port' = port /\ events' = events /\ waiting' = waiting /\ entries' = entries
    BY <1>7, Zenon DEF CreateSocketEventPort, Create, registration, waiter
  <2>3. PICK call \in {"channel", "open"}, x \in Objects : Goto(t, call) /\ sn_new(t, x)
    BY <1>0, <1>7, Zenon DEF CreateSocketEventPort, Create
  <2> QED BY <2>1, <2>2, <2>3, NewStep, Zenon
<1>8. ASSUME NEW t \in Clients, NEW fd \in Fds, CloseObject(t, fd) PROVE PortInv' /\ WaitInv'
  <2>1. PICK x : x = table[fd]
    BY Zenon
  <2>2. /\ At(t, "none") /\ close_descriptor(t, fd) /\ Unused(x) /\ x \in Sockets \union Pipes
        /\ waiting' = waiting /\ entries' = entries /\ t \in Threads
    BY <1>0, <1>8, <2>1, Zenon DEF CloseObject, waiter
  <2>3. PICK call \in {"wake", "leave"} : Goto(t, call)
    BY <1>8, Zenon DEF CloseObject
  <2>4. /\ Closing(x) => Unlink({x})
        /\ ~Closing(x) => port' = port /\ events' = events
    BY <1>8, <2>1, Zenon DEF CloseObject, registration
  <2>5. /\ port \in [Objects -> Objects \union {NULL}]
        /\ events \in [Objects -> SUBSET Directions]
    BY Zenon DEF PortInv, WaitInv
  <2>6. /\ port' \in [Objects -> Objects \union {NULL}]
        /\ events' \in [Objects -> SUBSET Directions]
        /\ \A o \in Objects : port'[o] # NULL =>
              port[o] # NULL /\ (o = x => descriptors[x] # 1)
    BY <2>4, <2>5, Zenon DEF Closing, Unlink
  <2>7. PortInv'
    BY <2>1, <2>2, <2>3, <2>6, PortClose, Zenon
  <2>8. op' = [op EXCEPT ![t] = call] /\ held' = held /\ call \notin InWait \union {"begin"}
    BY <2>2, <2>3, Zenon DEF Goto, close_descriptor, InWait
  <2> QED BY <2>2, <2>6, <2>7, <2>8, WaitSame, Zenon
<1>9. ASSUME NEW o, NEW c, Raise(o, c) PROVE PortInv' /\ WaitInv'
  BY <1>1, <1>9, Zenon DEF Raise, registration, waiter
<1> QED BY <1>2, <1>3, <1>4, <1>5, <1>6, <1>7, <1>8, <1>9, <1>0, Zenon DEF PortNext, Waits

\* PortInit is a state in which nothing is registered and nobody waits.
LEMMA PortStarts == PortInit => PortInv /\ WaitInv /\ WatchedArePipes
<1> SUFFICES ASSUME PortInit PROVE PortInv /\ WaitInv /\ WatchedArePipes
  BY Zenon
<1>1. TableInv
  BY InitialTable, Zenon DEF PortInit
<1>2. /\ op = [t \in Threads |-> "none"] /\ held = [t \in Threads |-> <<>>]
      /\ port = [o \in Objects |-> NULL] /\ waiting = {}
      /\ entries = [p \in Ports |-> <<>>] /\ events = [o \in Objects |-> {}]
  BY Zenon DEF PortInit, DescriptorsInit
<1>3. HoldsAsMany /\ RegisteredIsNamed
  BY <1>2, Zenon DEF HoldsAsMany, RegisteredIsNamed
<1>4. PortInv
  BY <1>1, <1>2, <1>3, Zenon DEF PortInv
<1>5. entries \in [Ports -> Seq(Entries)] /\ events \in [Objects -> SUBSET Directions]
  BY <1>2
<1>6. \A t \in Threads : op[t] = "none" /\ op[t] \notin InWait
  BY <1>2, Zenon DEF InWait
<1>7. \A t \in Threads : WaitFits(op[t], held[t], waiting, entries)
  BY <1>6, Zenon DEF WaitFits
<1>8. WatchedArePipes
  BY Zenon DEF PortInit, WatchedArePipes
<1> QED BY <1>2, <1>4, <1>5, <1>6, <1>7, <1>8, Zenon DEF WaitInv

\* The lifetimes are exact while a port is used too: what a waiter has in its
\* snapshot, a reader thread has for its pipe and a call has for its registration is
\* pinned exactly once each, and the last one closes the handle, for any number of
\* threads, objects, channels and descriptors.
THEOREM PortLifetimesStayExact == PortSpec => []LifetimesAreExact
<1>1. PortInv /\ WaitInv => LifetimesAreExact
  BY Zenon DEF PortInv, TableInv
<1> QED BY <1>1, PortStarts, PortKeeps, WatchedStayPipes, PTL DEF PortSpec

\* A port has one waiter at a time: two threads that are between Begin and EndWait wait
\* on different ports, so the snapshot and the events of a wait are its own.
OneWaiter ==
    \A t, u \in Threads :
        op[t] \in InWait /\ op[u] \in InWait /\ t # u => held[t][1] # held[u][1]

\* No thread ever joins another's wait (`SystemNative_WaitForSocketEvents` answers
\* EBUSY), whatever registers, closes and wakes meanwhile.
THEOREM PortHasOneWaiter == PortSpec => []OneWaiter
<1>1. PortInv /\ WaitInv => OneWaiter
  BY Zenon DEF WaitInv, OneWaiter
<1> QED BY <1>1, PortStarts, PortKeeps, WatchedStayPipes, PTL DEF PortSpec
=============================================================================
