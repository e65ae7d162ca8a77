---------------------------- MODULE SecDcpProofs -----------------------------
(***************************************************************************)
(* SecDcpMemory is well formed, its partition keeps the two classes apart, *)
(* and it loses a byte only where the border moves over a line of High's,  *)
(* for every geometry, every policy and every set of lines and values.     *)
(*                                                                         *)
(* An access first changes one slot and then, at the end of an epoch, may  *)
(* move the border, so the invariant is stated for any array c, memory m   *)
(* and border p.                                                           *)
(***************************************************************************)
EXTENDS SecDcpMemory, CacheArrayLemmas

OwnedArray == [Sets -> [Ways -> OwnedLine \cup {None}]]

WaysAt(k, p) == IF k = "Low" THEN 0..(p - 1) ELSE p..(Assoc - 1)

\* The copies of line l are where its class looks for them, there is one at
\* most, and it may be clean only if the memory has it.
Settled(l, c, m, p) ==
    /\ \A w \in Ways :
        Holds(c, l, w) =>
            /\ w \in WaysAt(HomeOf(l), p)
            /\ c[SetIndex(l)][w].dirty \/ c[SetIndex(l)][w].data = m[l]
    /\ \A v, w \in Ways : Holds(c, l, v) /\ Holds(c, l, w) => v = w

OwnersAreHome(c) ==
    \A s \in Sets, w \in Ways :
        c[s][w] # None => c[s][w].owner = HomeOf(c[s][w].line)

\* Low's lines are settled wherever the border is; High's need not be.
Sound(c, m, p) ==
    /\ c \in OwnedArray /\ m \in [Line -> Data] /\ p \in MinPublic..MaxPublic
    /\ Placed(c) /\ OwnersAreHome(c)
    /\ \A l \in Line \ highLine : Settled(l, c, m, p)

\* An epoch has no more misses than accesses.
StatsAddUp == stats.misses <= stats.accesses

Inv == TypeOK /\ StatsAddUp /\ Sound(cache, mem, publicWays)

CopiesAt(l, c, p) == {w \in WaysAt(HomeOf(l), p) : Holds(c, l, w)}

\* What the class of line l reads there.
ViewAt(l, c, m, p) ==
    LET copies == CopiesAt(l, c, p)
    IN  IF copies = {} THEN m[l]
        ELSE c[SetIndex(l)][CHOOSE w \in copies : \A v \in copies : w <= v].data

-----------------------------------------------------------------------------
(* One state.                                                              *)

\* The ways of the classes are ways, and every way is one class's.
LEMMA WaysType ==
    ASSUME NEW p \in MinPublic..MaxPublic
    PROVE  /\ \A k \in Classes : WaysAt(k, p) \subseteq Ways
           /\ Ways = WaysAt("Low", p) \cup WaysAt("High", p)
           /\ p \in Nat /\ p >= 1 /\ p < Assoc /\ p \in Ways /\ p - 1 \in Ways
BY GeometryAssumption, SecDcpAssumption
   DEF MinPublic, MaxPublic, WaysAt, Ways, Classes

\* What is in a slot.
LEMMA SlotType ==
    ASSUME NEW c \in OwnedArray, NEW s \in Sets, NEW w \in Ways, c[s][w] # None
    PROVE  /\ c[s][w] \in OwnedLine
           /\ c[s][w].line \in Line /\ c[s][w].data \in Data
           /\ c[s][w].dirty \in BOOLEAN /\ c[s][w].owner \in Classes
BY DEF OwnedArray, OwnedLine

\* A line is of one class.
LEMMA HomeType == \A l : HomeOf(l) \in Classes
BY DEF HomeOf, Classes

\* A class reads the first of its copies of a line.
LEMMA ViewOfFirst ==
    ASSUME NEW l, NEW c, NEW m, NEW p \in MinPublic..MaxPublic,
           NEW w \in WaysAt(HomeOf(l), p), Holds(c, l, w),
           \A v \in WaysAt(HomeOf(l), p) : v < w => ~Holds(c, l, v)
    PROVE  ViewAt(l, c, m, p) = c[SetIndex(l)][w].data
<1> DEFINE copies == CopiesAt(l, c, p)
<1>1. w \in copies /\ copies \subseteq Ways /\ \A v \in copies : ~(v < w)
  BY WaysType, HomeType DEF CopiesAt
<1>2. \A v \in copies : w <= v
  BY <1>1, GeometryAssumption DEF Ways
<1>3. \A u \in copies : (\A v \in copies : u <= v) => u = w
  BY <1>1, <1>2, GeometryAssumption DEF Ways
<1>4. (CHOOSE u \in copies : \A v \in copies : u <= v) = w
  BY <1>1, <1>2, <1>3
<1>5. QED
  BY <1>1, <1>4 DEF ViewAt

\* Without a copy it reads the memory.
LEMMA ViewOfNone ==
    ASSUME NEW l, NEW c, NEW m, NEW p,
           \A w \in WaysAt(HomeOf(l), p) : ~Holds(c, l, w)
    PROVE  ViewAt(l, c, m, p) = m[l]
BY DEF ViewAt, CopiesAt

\* Of a settled line it reads the one copy there is.
LEMMA ViewOfSettled ==
    ASSUME NEW l, NEW c, NEW m, NEW p \in MinPublic..MaxPublic,
           Settled(l, c, m, p), NEW w \in Ways, Holds(c, l, w)
    PROVE  ViewAt(l, c, m, p) = c[SetIndex(l)][w].data
<1>1. w \in WaysAt(HomeOf(l), p)
  BY DEF Settled
<1>2. \A v \in WaysAt(HomeOf(l), p) : v < w => ~Holds(c, l, v)
  <2> SUFFICES ASSUME NEW v \in WaysAt(HomeOf(l), p), v < w, Holds(c, l, v)
               PROVE  FALSE
    OBVIOUS
  <2>1. v \in Ways
    BY WaysType, HomeType
  <2>2. v = w
    BY <2>1 DEF Settled
  <2>3. QED
    BY <2>2, GeometryAssumption DEF Ways
<1>3. QED
  BY <1>1, <1>2, ViewOfFirst

\* View is what the classes read in the state itself, and in the next one.
LEMMA ViewIsViewAt ==
    ASSUME NEW l \in Line
    PROVE  /\ View[l] = ViewAt(l, cache, mem, publicWays)
           /\ highLine' = highLine => View'[l] = ViewAt(l, cache', mem', publicWays')
<1>1. View[l] = ViewAt(l, cache, mem, publicWays)
  BY DEF View, ViewAt, CopiesAt, WaysAt, WaysOf
<1>2. ASSUME highLine' = highLine
      PROVE  View'[l] = ViewAt(l, cache', mem', publicWays')
  <2>1. HomeOf(l)' = HomeOf(l)
    BY <1>2 DEF HomeOf
  <2>2. WaysOf(HomeOf(l))' = WaysAt(HomeOf(l), publicWays')
    BY <2>1 DEF WaysOf, WaysAt
  <2>3. View'[l] =
          LET copies == {w \in WaysOf(HomeOf(l))' : Holds(cache', l, w)}
          IN  IF copies = {} THEN mem'[l]
              ELSE cache'[SetIndex(l)][CHOOSE w \in copies : \A v \in copies : w <= v].data
    BY DEF View
  <2>4. QED
    BY <2>2, <2>3 DEF ViewAt, CopiesAt
<1>3. QED
  BY <1>1, <1>2

\* A slot of Low's in a sound array is in the ways of Low.
LEMMA LowIsInLowWays ==
    ASSUME NEW c, NEW m, NEW p, Sound(c, m, p),
           NEW s \in Sets, NEW w \in Ways, LowOwned(c[s][w])
    PROVE  /\ w \in WaysAt("Low", p)
           /\ c[s][w].line \in Line \ highLine
           /\ s = SetIndex(c[s][w].line) /\ Holds(c, c[s][w].line, w)
<1>1. c[s][w] # None /\ c[s][w].owner = "Low"
  BY DEF LowOwned
<1>2. c[s][w].line \in Line /\ HomeOf(c[s][w].line) = "Low"
  BY <1>1, SlotType DEF Sound, OwnersAreHome
<1>3. c[s][w].line \in Line \ highLine
  BY <1>2 DEF HomeOf
<1>4. s = SetIndex(c[s][w].line) /\ Holds(c, c[s][w].line, w)
  BY <1>1 DEF Sound, Placed, Holds
<1>5. QED
  BY <1>2, <1>3, <1>4 DEF Sound, Settled

-----------------------------------------------------------------------------
(* The first part of an access: one slot changes.                          *)

\* Line n is put in a slot of its set, and nothing else changes.
LEMMA PutSlot ==
    ASSUME NEW c \in OwnedArray, NEW l \in Line, NEW w \in Ways, NEW n \in OwnedLine,
           n.line = l
    PROVE  LET d == Put(c, l, w, n) IN
           /\ d \in OwnedArray
           /\ d[SetIndex(l)][w] = n /\ Holds(d, l, w)
           /\ \A s \in Sets, v \in Ways :
                <<s, v>> # <<SetIndex(l), w>> => d[s][v] = c[s][v]
           /\ \A k \in Line, v \in Ways :
                <<SetIndex(k), v>> # <<SetIndex(l), w>> =>
                    (Holds(d, k, v) <=> Holds(c, k, v))
           /\ \A k \in Line : k # l /\ SetIndex(k) = SetIndex(l) => ~Holds(d, k, w)
<1> DEFINE d == Put(c, l, w, n)
<1> USE SetIndexInSets
<1>1. d \in OwnedArray
  BY DEF OwnedArray, Put
<1>2. d[SetIndex(l)][w] = n
  BY DEF OwnedArray, Put
<1>3. \A s \in Sets, v \in Ways :
        <<s, v>> # <<SetIndex(l), w>> => d[s][v] = c[s][v]
  BY DEF OwnedArray, Put
<1> HIDE DEF d
<1>4. Holds(d, l, w)
  BY <1>2, SecDcpAssumption DEF Holds
<1>5. \A k \in Line, v \in Ways :
        <<SetIndex(k), v>> # <<SetIndex(l), w>> => (Holds(d, k, v) <=> Holds(c, k, v))
  BY <1>3 DEF Holds
<1>6. \A k \in Line : k # l /\ SetIndex(k) = SetIndex(l) => ~Holds(d, k, w)
  BY <1>2 DEF Holds
<1>7. QED
  BY <1>1, <1>2, <1>3, <1>4, <1>5, <1>6 DEF d

\* What the slot that changes held: the line itself, or a line that is evicted.
Accessed(l, w, n, c, m) ==
    /\ l \in LinesOf(class) /\ w \in WaysOf(class)
    /\ n \in OwnedLine /\ n.line = l /\ n.owner = class
    /\ c = Put(cache, l, w, n)
    /\ \/ Hit(l, w) /\ m = mem
       \/ Miss(l) /\ m = Evicted(l, w)

\* The memory after it.
LEMMA EvictedEffect ==
    ASSUME Inv, NEW l \in Line, NEW w \in Ways
    PROVE  LET old == cache[SetIndex(l)][w] IN
           /\ Evicted(l, w) \in [Line -> Data]
           /\ \A k \in Line :
                Evicted(l, w)[k] = IF old # None /\ old.line = k /\ old.dirty
                                   THEN old.data ELSE mem[k]
<1> DEFINE old == cache[SetIndex(l)][w]
<1>1. cache \in OwnedArray /\ mem \in [Line -> Data]
  BY DEF Inv, Sound
<1>2. old # None => old.line \in Line /\ old.data \in Data /\ old.dirty \in BOOLEAN
  BY <1>1, SlotType, SetIndexInSets
<1> HIDE DEF old
<1>3. Evicted(l, w) = IF old # None /\ old.dirty THEN [mem EXCEPT ![old.line] = old.data]
                      ELSE mem
  BY DEF Evicted, WriteBack, old
<1>4. CASE old # None /\ old.dirty
  BY <1>1, <1>2, <1>3, <1>4 DEF old
<1>5. CASE ~(old # None /\ old.dirty)
  BY <1>1, <1>3, <1>5 DEF old
<1>6. QED
  BY <1>4, <1>5

\* Of the line accessed: its class is the one that accesses.
LEMMA HomeOfAccessed ==
    ASSUME Inv, NEW l \in LinesOf(class)
    PROVE  /\ l \in Line /\ HomeOf(l) = class /\ class \in Classes
           /\ WaysOf(class) = WaysAt(class, publicWays)
           /\ WaysOf(class) \subseteq Ways
           /\ publicWays \in MinPublic..MaxPublic
<1>1. class \in Classes /\ highLine \subseteq Line
      /\ publicWays \in MinPublic..MaxPublic
  BY SecDcpAssumption DEF Inv, TypeOK
<1>2. l \in Line /\ HomeOf(l) = class
  BY <1>1 DEF LinesOf, HomeOf, Classes
<1>3. WaysOf(class) = WaysAt(class, publicWays)
  BY DEF WaysOf, WaysAt
<1>4. QED
  BY <1>1, <1>2, <1>3, WaysType

\* A settled line other than the one accessed stays settled and reads the same.
LEMMA OthersAreKept ==
    ASSUME Inv, NEW l, NEW w, NEW n, NEW c, NEW m, Accessed(l, w, n, c, m),
           NEW k \in Line, k # l, Settled(k, cache, mem, publicWays)
    PROVE  /\ Settled(k, c, m, publicWays)
           /\ ViewAt(k, c, m, publicWays) = ViewAt(k, cache, mem, publicWays)
<1> DEFINE s == SetIndex(l)
           old == cache[s][w]
           p == publicWays
<1>1. /\ l \in LinesOf(class) /\ l \in Line /\ w \in Ways /\ n \in OwnedLine
      /\ n.line = l /\ c = Put(cache, l, w, n) /\ p \in MinPublic..MaxPublic
      /\ s \in Sets /\ SetIndex(k) \in Sets
  BY HomeOfAccessed, SetIndexInSets DEF Accessed
<1>2. cache \in OwnedArray /\ mem \in [Line -> Data] /\ Placed(cache)
  BY DEF Inv, Sound
<1>3. \A v \in Ways : Holds(c, k, v) <=>
          Holds(cache, k, v) /\ <<SetIndex(k), v>> # <<s, w>>
  BY <1>1, <1>2, PutSlot
<1>4. \A v \in Ways : Holds(c, k, v) => c[SetIndex(k)][v] = cache[SetIndex(k)][v]
  BY <1>1, <1>2, <1>3, PutSlot
<1>5. m[k] = mem[k] \/ (old # None /\ old.line = k /\ old.dirty /\ m[k] = old.data)
  BY <1>1, EvictedEffect DEF Accessed
<1>6. CASE old # None /\ old.line = k
  <2>1. SetIndex(k) = s /\ Holds(cache, k, w)
    BY <1>1, <1>2, <1>6 DEF Placed, Holds
  <2>2. \A v \in Ways : ~Holds(c, k, v)
    BY <1>1, <1>3, <2>1 DEF Settled
  <2>3. ViewAt(k, cache, mem, p) = old.data
    BY <1>1, <2>1, ViewOfSettled
  <2>4. ViewAt(k, c, m, p) = m[k]
    BY <1>1, <2>2, ViewOfNone, WaysType, HomeType
  <2>5. ~Hit(l, w)
    BY <1>1, <1>6 DEF Hit, Holds
  <2>6. m = Evicted(l, w)
    BY <2>5 DEF Accessed
  <2>7. m[k] = old.data
    <3>1. old.dirty \/ old.data = mem[k]
      BY <1>1, <2>1 DEF Settled
    <3>2. m[k] = IF old.dirty THEN old.data ELSE mem[k]
      BY <1>1, <1>6, <2>5, <2>6, EvictedEffect DEF Accessed
    <3>3. QED
      BY <3>1, <3>2
  <2>8. QED
    BY <2>2, <2>3, <2>4, <2>7 DEF Settled
<1>7. CASE ~(old # None /\ old.line = k)
  <2>1. m[k] = mem[k]
    BY <1>5, <1>7
  <2>2. \A v \in Ways : Holds(c, k, v) <=> Holds(cache, k, v)
    BY <1>1, <1>3, <1>7 DEF Holds
  <2>3. Settled(k, c, m, p)
    BY <1>4, <2>1, <2>2 DEF Settled
  <2>4. CASE \E v \in Ways : Holds(cache, k, v)
    <3>1. PICK v \in Ways : Holds(cache, k, v)
      BY <2>4
    <3>2. ViewAt(k, cache, mem, p) = cache[SetIndex(k)][v].data
      BY <1>1, <3>1, ViewOfSettled
    <3>3. ViewAt(k, c, m, p) = c[SetIndex(k)][v].data
      BY <1>1, <2>2, <2>3, <3>1, ViewOfSettled
    <3>4. QED
      BY <1>4, <2>2, <2>3, <3>1, <3>2, <3>3
  <2>5. CASE \A v \in Ways : ~Holds(cache, k, v)
    BY <1>1, <2>1, <2>2, <2>3, <2>5, ViewOfNone, WaysType, HomeType
  <2>6. QED
    BY <2>4, <2>5
<1>8. QED
  BY <1>6, <1>7

\* The line accessed reads as it was left; before, it read the slot that was
\* hit or, in a miss, what the memory has after the eviction.
LEMMA AccessedReads ==
    ASSUME Inv, NEW l, NEW w, NEW n, NEW c, NEW m, Accessed(l, w, n, c, m)
    PROVE  /\ ViewAt(l, c, m, publicWays) = n.data
           /\ ViewAt(l, cache, mem, publicWays) =
                IF Hit(l, w) THEN cache[SetIndex(l)][w].data ELSE m[l]
           /\ Hit(l, w) => ~Miss(l)
<1> DEFINE s == SetIndex(l)
           old == cache[s][w]
           p == publicWays
<1>1. /\ l \in LinesOf(class) /\ l \in Line /\ w \in Ways /\ n \in OwnedLine
      /\ n.line = l /\ c = Put(cache, l, w, n) /\ p \in MinPublic..MaxPublic
      /\ s \in Sets /\ HomeOf(l) = class /\ w \in WaysAt(class, p)
      /\ WaysAt(class, p) \subseteq Ways /\ WaysOf(class) = WaysAt(class, p)
  BY HomeOfAccessed, SetIndexInSets DEF Accessed
<1>2. cache \in OwnedArray /\ mem \in [Line -> Data] /\ Placed(cache)
  BY DEF Inv, Sound
<1>3. /\ Holds(c, l, w) /\ c[s][w] = n
      /\ \A v \in Ways : v # w => (Holds(c, l, v) <=> Holds(cache, l, v))
  <2>1. Holds(c, l, w) /\ c[s][w] = n
    BY <1>1, <1>2, PutSlot
  <2>2. \A v \in Ways : v # w => <<s, v>> # <<s, w>>
    OBVIOUS
  <2>3. QED
    BY <1>1, <1>2, <2>1, <2>2, PutSlot
<1>4. \A v \in WaysAt(class, p) : v < w => ~Holds(cache, l, v)
  BY <1>1 DEF Accessed, Hit, Miss
<1>5. \A v \in WaysAt(class, p) : v < w => v # w
  BY <1>1, GeometryAssumption DEF Ways
<1>6. ViewAt(l, c, m, p) = n.data
  BY <1>1, <1>3, <1>4, <1>5, ViewOfFirst
<1>7. Hit(l, w) => ~Miss(l)
  BY <1>1 DEF Hit, Miss
<1>8. CASE Hit(l, w)
  <2>1. Holds(cache, l, w)
    BY <1>8 DEF Hit
  <2>2. ViewAt(l, cache, mem, p) = cache[s][w].data
    BY <1>1, <1>4, <2>1, ViewOfFirst
  <2>3. QED
    BY <1>6, <1>7, <1>8, <2>2
<1>9. CASE ~Hit(l, w)
  <2>1. Miss(l) /\ m = Evicted(l, w)
    BY <1>9 DEF Accessed
  <2>2. ViewAt(l, cache, mem, p) = mem[l]
    BY <1>1, <2>1, ViewOfNone DEF Miss
  <2>3. ~(old # None /\ old.line = l)
    BY <1>1, <2>1 DEF Miss, Holds
  <2>4. m[l] = mem[l]
    BY <1>1, <2>1, <2>3, EvictedEffect
  <2>5. QED
    BY <1>6, <1>7, <1>9, <2>2, <2>4
<1>10. QED
  BY <1>8, <1>9

\* It is settled when it was, and what is in the slot is dirty or backed.
LEMMA AccessedIsSettled ==
    ASSUME Inv, NEW l, NEW w, NEW n, NEW c, NEW m, Accessed(l, w, n, c, m),
           Settled(l, cache, mem, publicWays), n.dirty \/ n.data = m[l]
    PROVE  Settled(l, c, m, publicWays)
<1> DEFINE s == SetIndex(l)
           p == publicWays
<1>1. /\ l \in Line /\ w \in Ways /\ n \in OwnedLine
      /\ n.line = l /\ c = Put(cache, l, w, n)
      /\ s \in Sets /\ HomeOf(l) = class /\ w \in WaysAt(class, p)
      /\ WaysOf(class) = WaysAt(class, p)
  BY HomeOfAccessed, SetIndexInSets DEF Accessed
<1>2. cache \in OwnedArray
  BY DEF Inv, Sound
<1>3. c[s][w] = n
  BY <1>1, <1>2, PutSlot
<1>4. \A v \in Ways : v # w => <<s, v>> # <<s, w>>
  OBVIOUS
<1>5. \A v \in Ways : v # w => (Holds(c, l, v) <=> Holds(cache, l, v))
  BY <1>1, <1>2, <1>4, PutSlot
<1>6. \A v \in Ways : v # w => ~Holds(cache, l, v)
  <2> SUFFICES ASSUME NEW v \in Ways, v # w, Holds(cache, l, v) PROVE FALSE
    OBVIOUS
  <2>1. CASE Hit(l, w)
    BY <1>1, <2>1 DEF Hit, Settled
  <2>2. CASE Miss(l)
    BY <1>1, <2>2 DEF Miss, Settled
  <2>3. QED
    BY <2>1, <2>2 DEF Accessed
<1>7. QED
  BY <1>1, <1>3, <1>5, <1>6 DEF Settled

\* The array, too, is sound again.
LEMMA AccessedIsSound ==
    ASSUME Inv, NEW l, NEW w, NEW n, NEW c, NEW m, Accessed(l, w, n, c, m),
           Settled(l, cache, mem, publicWays) => n.dirty \/ n.data = m[l]
    PROVE  Sound(c, m, publicWays)
<1> DEFINE s == SetIndex(l)
<1>1. /\ l \in Line /\ w \in Ways /\ n \in OwnedLine
      /\ n.line = l /\ c = Put(cache, l, w, n)
      /\ n.owner = HomeOf(l) /\ publicWays \in MinPublic..MaxPublic
  BY HomeOfAccessed DEF Accessed
<1>2. cache \in OwnedArray /\ mem \in [Line -> Data] /\ Placed(cache) /\ OwnersAreHome(cache)
  BY DEF Inv, Sound
<1>3. /\ c \in OwnedArray
      /\ \A t \in Sets, v \in Ways :
            IF t = s /\ v = w THEN c[t][v] = n ELSE c[t][v] = cache[t][v]
  BY <1>1, <1>2, PutSlot
<1>4. m \in [Line -> Data]
  BY <1>1, <1>2, EvictedEffect DEF Accessed
<1>5. Placed(c) /\ OwnersAreHome(c)
  BY <1>1, <1>2, <1>3 DEF Placed, OwnersAreHome
<1>6. ASSUME NEW k \in Line \ highLine
      PROVE  Settled(k, c, m, publicWays)
  <2>1. Settled(k, cache, mem, publicWays)
    BY DEF Inv, Sound
  <2>2. QED
    BY <2>1, AccessedIsSettled, OthersAreKept
<1>7. QED
  BY <1>1, <1>3, <1>4, <1>5, <1>6 DEF Sound

-----------------------------------------------------------------------------
(* The second part of an access: the border may move.                      *)

\* A line settled in two arrays that have the same copies of it reads the same
\* in both, wherever their borders are.
LEMMA SameCopies ==
    ASSUME NEW k \in Line, NEW c, NEW m, NEW p \in MinPublic..MaxPublic,
           NEW d, NEW n, NEW q \in MinPublic..MaxPublic,
           Settled(k, c, m, p), Settled(k, d, n, q), n[k] = m[k],
           \A v \in Ways : Holds(d, k, v) <=> Holds(c, k, v),
           \A v \in Ways : Holds(c, k, v) => d[SetIndex(k)][v] = c[SetIndex(k)][v]
    PROVE  ViewAt(k, d, n, q) = ViewAt(k, c, m, p)
<1>1. CASE \E v \in Ways : Holds(c, k, v)
  <2>1. PICK v \in Ways : Holds(c, k, v)
    BY <1>1
  <2>2. ViewAt(k, c, m, p) = c[SetIndex(k)][v].data
    BY <2>1, ViewOfSettled
  <2>3. ViewAt(k, d, n, q) = d[SetIndex(k)][v].data
    BY <2>1, ViewOfSettled
  <2>4. QED
    BY <2>1, <2>2, <2>3
<1>2. CASE \A v \in Ways : ~Holds(c, k, v)
  <2>1. ViewAt(k, c, m, p) = m[k]
    BY <1>2, ViewOfNone, WaysType, HomeType
  <2>2. ViewAt(k, d, n, q) = n[k]
    BY <1>2, ViewOfNone, WaysType, HomeType
  <2>3. QED
    BY <2>1, <2>2
<1>3. QED
  BY <1>1, <1>2

\* Low's partition may grow over any array.
LEMMA GrowthIsSound ==
    ASSUME NEW c, NEW m, NEW p, Sound(c, m, p), p + 1 <= MaxPublic
    PROVE  /\ Sound(c, m, p + 1)
           /\ \A k \in Line \ highLine : ViewAt(k, c, m, p + 1) = ViewAt(k, c, m, p)
<1>1. p \in MinPublic..MaxPublic
  BY DEF Sound
<1>2. p + 1 \in MinPublic..MaxPublic
  BY <1>1, GeometryAssumption, SecDcpAssumption DEF MinPublic, MaxPublic
<1>3. WaysAt("Low", p) \subseteq WaysAt("Low", p + 1)
  BY <1>1, GeometryAssumption, SecDcpAssumption DEF WaysAt, MinPublic, MaxPublic
<1>4. ASSUME NEW k \in Line \ highLine
      PROVE  Settled(k, c, m, p + 1) /\ ViewAt(k, c, m, p + 1) = ViewAt(k, c, m, p)
  <2>1. Settled(k, c, m, p) /\ HomeOf(k) = "Low"
    BY DEF Sound, HomeOf
  <2>2. Settled(k, c, m, p + 1)
    BY <1>3, <2>1 DEF Settled
  <2>3. QED
    BY <1>1, <1>2, <2>1, <2>2, SameCopies
<1>5. QED
  BY <1>2, <1>4 DEF Sound

\* The memory after a flush of way w.
LEMMA FlushedToEffect ==
    ASSUME NEW c, NEW m, NEW p, Sound(c, m, p), NEW w \in Ways
    PROVE  /\ FlushedTo(m, c, w) \in [Line -> Data]
           /\ \A k \in Line :
                LET slot == c[SetIndex(k)][w] IN
                FlushedTo(m, c, w)[k] =
                    IF LowOwned(slot) /\ slot.line = k /\ slot.dirty THEN slot.data
                    ELSE m[k]
<1>1. c \in OwnedArray /\ m \in [Line -> Data]
  BY DEF Sound
<1>2. ASSUME NEW k \in Line
      PROVE  LET slot == c[SetIndex(k)][w] IN
             /\ FlushedTo(m, c, w)[k] =
                    IF LowOwned(slot) /\ slot.line = k /\ slot.dirty THEN slot.data
                    ELSE m[k]
             /\ FlushedTo(m, c, w)[k] \in Data
  <2> DEFINE slot == c[SetIndex(k)][w]
             dirty == {s \in Sets : LowOwned(c[s][w]) /\ c[s][w].line = k /\ c[s][w].dirty}
  <2>1. FlushedTo(m, c, w)[k] = IF dirty = {} THEN m[k] ELSE c[CHOOSE s \in dirty : TRUE][w].data
    BY DEF FlushedTo
  <2>2. \A s \in dirty : s = SetIndex(k)
    BY LowIsInLowWays
  <2>3. SetIndex(k) \in Sets
    BY SetIndexInSets
  <2>4. CASE LowOwned(slot) /\ slot.line = k /\ slot.dirty
    <3>1. dirty = {SetIndex(k)}
      BY <2>2, <2>3, <2>4
    <3>2. (CHOOSE s \in dirty : TRUE) = SetIndex(k)
      BY <3>1
    <3>3. slot.data \in Data
      BY <1>1, <2>3, <2>4, SlotType DEF LowOwned
    <3>4. QED
      BY <2>1, <2>4, <3>1, <3>2, <3>3
  <2>5. CASE ~(LowOwned(slot) /\ slot.line = k /\ slot.dirty)
    <3>1. dirty = {}
      BY <2>2, <2>5
    <3>2. QED
      BY <1>1, <2>1, <2>5, <3>1
  <2>6. QED
    BY <2>4, <2>5
<1>3. FlushedTo(m, c, w) = [k \in Line |-> FlushedTo(m, c, w)[k]]
  BY DEF FlushedTo
<1>4. QED
  BY <1>2, <1>3

\* The way that Low gives up is flushed: no line of Low's stays in it, none is
\* lost, and nothing else is touched.
LEMMA FlushIsSound ==
    ASSUME NEW c, NEW m, NEW p, Sound(c, m, p), p - 1 >= MinPublic
    PROVE  LET d == Flushed(c, p - 1)
               n == FlushedTo(m, c, p - 1)
           IN  /\ Sound(d, n, p - 1)
               /\ \A k \in Line \ highLine : ViewAt(k, d, n, p - 1) = ViewAt(k, c, m, p)
               /\ \A s \in Sets, v \in Ways : d[s][v] # c[s][v] => v = p - 1
<1> DEFINE w == p - 1
           d == Flushed(c, w)
           n == FlushedTo(m, c, w)
<1>1. /\ p \in MinPublic..MaxPublic /\ c \in OwnedArray /\ m \in [Line -> Data]
      /\ Placed(c) /\ OwnersAreHome(c)
  BY DEF Sound
<1>2. w \in MinPublic..MaxPublic /\ w \in Ways
  BY <1>1, WaysType, GeometryAssumption, SecDcpAssumption DEF MinPublic, MaxPublic
<1>3. \A s \in Sets, v \in Ways :
        d[s][v] = IF v = w /\ LowOwned(c[s][v]) THEN None ELSE c[s][v]
  <2> HIDE DEF w
  <2>1. QED
    BY <1>1, <1>2 DEF Flushed, OwnedArray
<1>4. d \in OwnedArray
  <2> HIDE DEF w
  <2>1. QED
    BY <1>1, <1>2 DEF Flushed, OwnedArray
<1>5. n \in [Line -> Data]
  BY <1>2, FlushedToEffect
<1> HIDE DEF d
<1>6. Placed(d) /\ OwnersAreHome(d)
  BY <1>1, <1>3 DEF Placed, OwnersAreHome
<1>7. ASSUME NEW k \in Line \ highLine
      PROVE  Settled(k, d, n, w) /\ ViewAt(k, d, n, w) = ViewAt(k, c, m, p)
  <2> DEFINE slot == c[SetIndex(k)][w]
  <2>1. Settled(k, c, m, p) /\ HomeOf(k) = "Low" /\ SetIndex(k) \in Sets
    BY SetIndexInSets DEF Sound, HomeOf
  <2>2. Holds(c, k, w) => LowOwned(slot)
    BY <1>1, <1>2, <2>1 DEF OwnersAreHome, Holds, LowOwned
  <2>3. \A v \in Ways : /\ Holds(d, k, v) <=> Holds(c, k, v) /\ v # w
                        /\ v # w => d[SetIndex(k)][v] = c[SetIndex(k)][v]
    BY <1>3, <2>1, <2>2 DEF Holds
  <2>4. n[k] = IF Holds(c, k, w) /\ slot.dirty THEN slot.data ELSE m[k]
    BY <1>2, <2>2, FlushedToEffect DEF Holds, LowOwned
  <2> HIDE DEF n
  <2>5. CASE Holds(c, k, w)
    <3>1. \A v \in Ways : ~Holds(d, k, v)
      BY <1>2, <2>1, <2>3, <2>5 DEF Settled
    <3>2. ViewAt(k, d, n, w) = n[k]
      BY <1>2, <3>1, ViewOfNone, WaysType, HomeType
    <3>3. ViewAt(k, c, m, p) = slot.data
      BY <1>1, <1>2, <2>1, <2>5, ViewOfSettled
    <3>4. slot.dirty \/ slot.data = m[k]
      BY <1>2, <2>1, <2>5 DEF Settled
    <3>5. QED
      BY <2>4, <2>5, <3>1, <3>2, <3>3, <3>4 DEF Settled
  <2>6. CASE ~Holds(c, k, w)
    <3>1. \A v \in WaysAt("Low", p) : v # w => v \in WaysAt("Low", w)
      BY <1>1, GeometryAssumption, SecDcpAssumption DEF WaysAt, MinPublic, MaxPublic
    <3>2. n[k] = m[k]
      BY <2>4, <2>6
    <3>3. \A v \in Ways : Holds(d, k, v) <=> Holds(c, k, v)
      BY <2>3, <2>6
    <3> HIDE DEF w
    <3>4. \A v \in Ways : Holds(c, k, v) => d[SetIndex(k)][v] = c[SetIndex(k)][v]
      BY <2>3, <2>6
    <3>5. Settled(k, d, n, w)
      BY <2>1, <2>6, <3>1, <3>2, <3>3, <3>4 DEF Settled
    <3>6. QED
      BY <1>1, <1>2, <2>1, <3>2, <3>3, <3>4, <3>5, SameCopies
  <2>7. QED
    BY <2>5, <2>6
<1>8. Sound(d, n, w)
  BY <1>2, <1>4, <1>5, <1>6, <1>7 DEF Sound
<1>9. \A s \in Sets, v \in Ways : d[s][v] # c[s][v] => v = w
  BY <1>3
<1>10. QED
  BY <1>7, <1>8, <1>9 DEF d

\* What the end of an access does to an array c and a memory m that are sound:
\* they stay so, the epoch's figures add up, only Low moves the border, and only
\* a move changes how a line reads, and that a line of High's.
LEMMA RepartitionIsSound ==
    ASSUME Inv, ~panicked, NEW c, NEW m, NEW miss \in BOOLEAN,
           Sound(c, m, publicWays), Repartition(c, m, miss)
    PROVE  /\ Sound(cache', mem', publicWays')
           /\ stats' \in [accesses : 0..EpochAccesses, misses : 0..EpochAccesses]
           /\ stats'.misses <= stats'.accesses
           /\ ~panicked' => stats'.accesses < EpochAccesses
           /\ panicked' \in BOOLEAN
           /\ publicWays' # publicWays => class = "Low"
           /\ \A k \in Line :
                k \notin highLine \/ publicWays' = publicWays =>
                    ViewAt(k, cache', mem', publicWays') = ViewAt(k, c, m, publicWays)
           /\ \A s \in Sets, w \in Ways :
                cache'[s][w] # c[s][w] => class = "Low" /\ w = publicWays - 1
<1> DEFINE st == Counted(miss)
           ways == NewPublicWays(st)
<1>1. /\ stats \in [accesses : 0..EpochAccesses, misses : 0..EpochAccesses]
      /\ stats.accesses < EpochAccesses /\ stats.misses <= stats.accesses
      /\ EpochAccesses \in Nat \ {0} /\ class \in Classes /\ panicked \in BOOLEAN
  BY SecDcpAssumption DEF Inv, TypeOK, StatsAddUp
<1>2. /\ st \in [accesses : 0..EpochAccesses, misses : 0..EpochAccesses]
      /\ st.misses <= st.accesses
      /\ class # "Low" => st.accesses < EpochAccesses
  <2>1. CASE class = "Low"
    <3>1. /\ stats.accesses + 1 \in 0..EpochAccesses
          /\ stats.misses + 1 \in 0..EpochAccesses /\ stats.misses \in 0..EpochAccesses
          /\ stats.misses + 1 <= stats.accesses + 1 /\ stats.misses <= stats.accesses + 1
      BY <1>1
    <3>2. QED
      BY <2>1, <3>1 DEF Counted
  <2>2. CASE class # "Low"
    BY <1>1, <2>2 DEF Counted
  <2>3. QED
    BY <2>1, <2>2
<1>3. publicWays \in MinPublic..MaxPublic /\ publicWays \in Nat
  BY WaysType DEF Sound
<1>4. \/ ways = publicWays
      \/ ways = publicWays + 1 /\ ways <= MaxPublic
      \/ ways = publicWays - 1 /\ ways >= MinPublic
  <2>1. MinPublic \in Nat /\ MaxPublic \in Nat
    BY GeometryAssumption, SecDcpAssumption DEF MinPublic, MaxPublic
  <2>2. QED
    BY <1>3, <2>1 DEF NewPublicWays
<1>5. /\ NoStats \in [accesses : 0..EpochAccesses, misses : 0..EpochAccesses]
      /\ NoStats.misses <= NoStats.accesses /\ NoStats.accesses < EpochAccesses
  BY <1>1 DEF NoStats
<1> HIDE DEF st, ways
<1>6. CASE /\ st.accesses < EpochAccesses
           /\ cache' = c /\ mem' = m /\ stats' = st
           /\ UNCHANGED <<publicWays, panicked>>
  BY <1>1, <1>2, <1>6
<1>7. CASE /\ st.accesses >= EpochAccesses /\ ways >= publicWays
           /\ cache' = c /\ mem' = m /\ stats' = NoStats
           /\ publicWays' = ways
           /\ UNCHANGED panicked
  <2>1. class = "Low"
    BY <1>1, <1>2, <1>7
  <2>2. ways = publicWays \/ (ways = publicWays + 1 /\ ways <= MaxPublic)
    BY <1>3, <1>4, <1>7
  <2>3. /\ Sound(c, m, ways)
        /\ \A k \in Line \ highLine : ViewAt(k, c, m, ways) = ViewAt(k, c, m, publicWays)
    BY <2>2, GrowthIsSound
  <2>4. QED
    BY <1>1, <1>5, <1>7, <2>1, <2>3
<1>8. CASE /\ st.accesses >= EpochAccesses /\ ways < publicWays /\ miss
           /\ cache' = Flushed(c, ways) /\ mem' = FlushedTo(m, c, ways)
           /\ stats' = NoStats
           /\ publicWays' = ways
           /\ UNCHANGED panicked
  <2>1. class = "Low"
    BY <1>1, <1>2, <1>8
  <2>2. ways = publicWays - 1 /\ publicWays - 1 >= MinPublic
    BY <1>3, <1>4, <1>8
  <2>3. /\ Sound(Flushed(c, ways), FlushedTo(m, c, ways), ways)
        /\ \A k \in Line \ highLine :
              ViewAt(k, Flushed(c, ways), FlushedTo(m, c, ways), ways)
                = ViewAt(k, c, m, publicWays)
        /\ \A s \in Sets, v \in Ways : Flushed(c, ways)[s][v] # c[s][v] => v = publicWays - 1
    BY <2>2, FlushIsSound
  <2>4. publicWays' # publicWays
    BY <1>3, <1>8, <2>2
  <2>5. QED
    BY <1>1, <1>5, <1>8, <2>1, <2>3, <2>4
<1>9. CASE /\ st.accesses >= EpochAccesses /\ ways < publicWays /\ ~miss
           /\ cache' = c /\ mem' = m /\ stats' = st
           /\ UNCHANGED publicWays
           /\ panicked' = TRUE
  BY <1>1, <1>2, <1>9
<1>10. QED
  BY <1>6, <1>7, <1>8, <1>9 DEF Repartition, st, ways

-----------------------------------------------------------------------------
(* The calls.                                                              *)

\* An access is the two parts one after the other.  What it leaves in the slot
\* reads as the line did, or as the line did but for the byte stored.
LEMMA AccessInTwoParts ==
    ASSUME Inv, NEW l \in LinesOf(class), Access(l)
    PROVE  \E w, n, c, m, miss :
             /\ Accessed(l, w, n, c, m)
             /\ miss \in BOOLEAN /\ Repartition(c, m, miss)
             /\ rank' = Touch(rank, SetIndex(l), w)
             /\ Settled(l, cache, mem, publicWays) => n.dirty \/ n.data = m[l]
             /\ \/ n.data = ViewAt(l, cache, mem, publicWays)
                \/ \E o \in Offset, v \in Value :
                     /\ StoreHit(l, o, v) \/ StoreMiss(l, o, v)
                     /\ n.data = [ViewAt(l, cache, mem, publicWays) EXCEPT ![o] = v]
<1> DEFINE s == SetIndex(l)
           p == publicWays
<1>1. /\ l \in Line /\ HomeOf(l) = class /\ class \in Classes /\ s \in Sets
      /\ WaysOf(class) \subseteq Ways
      /\ cache \in OwnedArray /\ mem \in [Line -> Data] /\ OwnersAreHome(cache)
  BY HomeOfAccessed, SetIndexInSets DEF Inv, Sound
<1>2. ASSUME NEW w \in Ways, Hit(l, w)
      PROVE  /\ cache[s][w] \in OwnedLine /\ cache[s][w].line = l
             /\ cache[s][w].owner = class /\ cache[s][w].data \in Data
             /\ Put(cache, l, w, cache[s][w]) = cache
             /\ w \in WaysOf(class)
             /\ Settled(l, cache, mem, p) => cache[s][w].dirty \/ cache[s][w].data = mem[l]
  <2>1. cache[s][w] # None /\ cache[s][w].line = l /\ w \in WaysOf(class) /\ Holds(cache, l, w)
    BY <1>2 DEF Hit, Holds
  <2>2. cache[s][w] \in OwnedLine /\ cache[s][w].owner = class /\ cache[s][w].data \in Data
    BY <1>1, <2>1, SlotType DEF OwnersAreHome
  <2>3. Put(cache, l, w, cache[s][w]) = cache
    BY <1>1 DEF Put, OwnedArray
  <2>4. QED
    BY <2>1, <2>2, <2>3 DEF Settled
<1>3. ASSUME NEW w \in Ways, Miss(l), VictimOf(s, w)
      PROVE  /\ Refill(l, w) \in OwnedLine /\ Refill(l, w).line = l
             /\ Refill(l, w).owner = class /\ w \in WaysOf(class)
             /\ Refill(l, w).data = Evicted(l, w)[l] /\ Evicted(l, w)[l] \in Data
  <2>1. Evicted(l, w)[l] \in Data
    BY <1>1, EvictedEffect
  <2>2. QED
    BY <1>1, <1>3, <2>1 DEF Refill, OwnedLine, VictimOf
<1>4. ASSUME NEW n \in OwnedLine, NEW o \in Offset, NEW v \in Value
      PROVE  /\ Stored(n, o, v) \in OwnedLine
             /\ Stored(n, o, v).line = n.line /\ Stored(n, o, v).owner = n.owner
             /\ Stored(n, o, v).dirty /\ Stored(n, o, v).data = [n.data EXCEPT ![o] = v]
  BY DEF Stored, OwnedLine, Data
<1>5. ASSUME NEW o \in Offset, LoadHit(l, o)
      PROVE  \E w, miss, n :
               /\ Accessed(l, w, n, cache, mem)
               /\ miss \in BOOLEAN /\ Repartition(cache, mem, miss)
               /\ rank' = Touch(rank, SetIndex(l), w)
               /\ Settled(l, cache, mem, publicWays) => n.dirty \/ n.data = mem[l]
               /\ n.data = ViewAt(l, cache, mem, publicWays)
  <2>1. PICK w \in Ways : /\ Hit(l, w)
                          /\ rank' = Touch(rank, SetIndex(l), w)
                          /\ Repartition(cache, mem, FALSE)
    BY <1>5 DEF LoadHit
  <2>2. Accessed(l, w, cache[s][w], cache, mem)
    BY <1>2, <2>1 DEF Accessed
  <2>3. cache[s][w].data = ViewAt(l, cache, mem, p)
    BY <1>1, <2>1, <2>2, AccessedReads
  <2>4. QED
    BY <1>2, <2>1, <2>2, <2>3
<1>6. ASSUME NEW o \in Offset, LoadMiss(l, o)
      PROVE  \E w, n, c, m, miss :
               /\ Accessed(l, w, n, c, m)
               /\ miss \in BOOLEAN /\ Repartition(c, m, miss)
               /\ rank' = Touch(rank, SetIndex(l), w)
               /\ n.data = m[l]
               /\ n.data = ViewAt(l, cache, mem, publicWays)
  <2>1. PICK w \in Ways :
          /\ Miss(l) /\ VictimOf(s, w)
          /\ rank' = Touch(rank, SetIndex(l), w)
          /\ Repartition(Put(cache, l, w, Refill(l, w)), Evicted(l, w), TRUE)
    BY <1>6 DEF LoadMiss
  <2> DEFINE n == Refill(l, w)
  <2>2. Accessed(l, w, n, Put(cache, l, w, n), Evicted(l, w))
    BY <1>3, <2>1 DEF Accessed
  <2>3. n.data = ViewAt(l, cache, mem, p)
    BY <1>1, <1>3, <2>1, <2>2, AccessedReads
  <2>4. QED
    BY <1>3, <2>1, <2>2, <2>3
<1>7. ASSUME NEW o \in Offset, NEW v \in Value, StoreHit(l, o, v)
      PROVE  \E w, n, c, m, miss :
               /\ Accessed(l, w, n, c, m)
               /\ miss \in BOOLEAN /\ Repartition(c, m, miss)
               /\ rank' = Touch(rank, SetIndex(l), w)
               /\ n.dirty
               /\ n.data = [ViewAt(l, cache, mem, publicWays) EXCEPT ![o] = v]
  <2>1. PICK w \in Ways :
          /\ Hit(l, w)
          /\ rank' = Touch(rank, SetIndex(l), w)
          /\ Repartition(Put(cache, l, w, Stored(cache[SetIndex(l)][w], o, v)), mem, FALSE)
    BY <1>7 DEF StoreHit
  <2> DEFINE n == Stored(cache[s][w], o, v)
  <2>2. /\ n \in OwnedLine /\ n.line = l /\ n.owner = class
        /\ n.dirty /\ n.data = [cache[s][w].data EXCEPT ![o] = v]
    BY <1>2, <1>4, <2>1
  <2>3. Repartition(Put(cache, l, w, n), mem, FALSE)
    BY <2>1
  <2> HIDE DEF n
  <2>4. Accessed(l, w, n, Put(cache, l, w, n), mem)
    BY <1>2, <2>1, <2>2 DEF Accessed
  <2>5. cache[s][w].data = ViewAt(l, cache, mem, p)
    BY <1>1, <2>1, <2>4, AccessedReads
  <2>6. QED
    BY <2>1, <2>2, <2>3, <2>4, <2>5
<1>8. ASSUME NEW o \in Offset, NEW v \in Value, StoreMiss(l, o, v)
      PROVE  \E w, n, c, m, miss :
               /\ Accessed(l, w, n, c, m)
               /\ miss \in BOOLEAN /\ Repartition(c, m, miss)
               /\ rank' = Touch(rank, SetIndex(l), w)
               /\ n.dirty
               /\ n.data = [ViewAt(l, cache, mem, publicWays) EXCEPT ![o] = v]
  <2>1. PICK w \in Ways :
          /\ Miss(l) /\ VictimOf(s, w)
          /\ rank' = Touch(rank, SetIndex(l), w)
          /\ Repartition(Put(cache, l, w, Stored(Refill(l, w), o, v)), Evicted(l, w), TRUE)
    BY <1>8 DEF StoreMiss
  <2> DEFINE n == Stored(Refill(l, w), o, v)
  <2>2. /\ n \in OwnedLine /\ n.line = l /\ n.owner = class
        /\ n.dirty /\ n.data = [Evicted(l, w)[l] EXCEPT ![o] = v]
    BY <1>3, <1>4, <2>1
  <2>3. Repartition(Put(cache, l, w, n), Evicted(l, w), TRUE)
    BY <2>1
  <2> HIDE DEF n
  <2>4. Accessed(l, w, n, Put(cache, l, w, n), Evicted(l, w))
    BY <1>3, <2>1, <2>2 DEF Accessed
  <2>5. Evicted(l, w)[l] = ViewAt(l, cache, mem, p)
    BY <1>1, <2>1, <2>4, AccessedReads
  <2>6. QED
    BY <2>1, <2>2, <2>3, <2>4, <2>5
<1>9. PICK o \in Offset :
        \/ LoadHit(l, o) \/ LoadMiss(l, o)
        \/ \E v \in Value : StoreHit(l, o, v) \/ StoreMiss(l, o, v)
  BY DEF Access
<1>10. CASE LoadHit(l, o)
  BY <1>5, <1>10
<1>11. CASE LoadMiss(l, o)
  BY <1>6, <1>11
<1>12. CASE \E v \in Value : StoreHit(l, o, v) \/ StoreMiss(l, o, v)
  <2>1. PICK v \in Value : StoreHit(l, o, v) \/ StoreMiss(l, o, v)
    BY <1>12
  <2>2. PICK w, n, c, m, miss :
          /\ Accessed(l, w, n, c, m)
          /\ miss \in BOOLEAN /\ Repartition(c, m, miss)
          /\ rank' = Touch(rank, SetIndex(l), w)
          /\ n.dirty
          /\ n.data = [ViewAt(l, cache, mem, publicWays) EXCEPT ![o] = v]
    BY <1>7, <1>8, <2>1
  <2>3. \E i \in Offset, u \in Value :
          /\ StoreHit(l, i, u) \/ StoreMiss(l, i, u)
          /\ n.data = [ViewAt(l, cache, mem, publicWays) EXCEPT ![i] = u]
    BY <2>1, <2>2
  <2>4. QED
    BY <2>2, <2>3
<1>13. QED
  BY <1>9, <1>10, <1>11, <1>12

\* Soundness of the next state does not depend on which state names the lines.
LEMMA SoundNext ==
    ASSUME highLine' = highLine, Sound(cache', mem', publicWays')
    PROVE  Sound(cache, mem, publicWays)'
<1>1. \A l : HomeOf(l)' = HomeOf(l)
  BY DEF HomeOf
<1>2. OwnersAreHome(cache)' <=> OwnersAreHome(cache')
  BY <1>1 DEF OwnersAreHome
<1>3. \A l : Settled(l, cache, mem, publicWays)' <=> Settled(l, cache', mem', publicWays')
  BY <1>1 DEF Settled
<1>4. QED
  BY <1>2, <1>3 DEF Sound

\* An access keeps the invariant.
LEMMA AccessKeepsInv ==
    ASSUME Inv, NEW l \in LinesOf(class), Access(l)
    PROVE  Inv'
<1>1. ~panicked /\ highLine' = highLine /\ class' = class
  BY DEF Access
<1>2. PICK w, n, c, m, miss :
        /\ Accessed(l, w, n, c, m)
        /\ miss \in BOOLEAN /\ Repartition(c, m, miss)
        /\ rank' = Touch(rank, SetIndex(l), w)
        /\ Settled(l, cache, mem, publicWays) => n.dirty \/ n.data = m[l]
  BY AccessInTwoParts
<1>3. Sound(c, m, publicWays)
  BY <1>2, AccessedIsSound
<1>4. /\ Sound(cache', mem', publicWays')
      /\ stats' \in [accesses : 0..EpochAccesses, misses : 0..EpochAccesses]
      /\ stats'.misses <= stats'.accesses
      /\ ~panicked' => stats'.accesses < EpochAccesses
      /\ panicked' \in BOOLEAN
  BY <1>1, <1>2, <1>3, RepartitionIsSound
<1>5. rank' \in Ranks
  BY <1>2, HomeOfAccessed, SetIndexInSets, TouchInRanks DEF Inv, TypeOK, Accessed
<1>6. Sound(cache, mem, publicWays)'
  BY <1>1, <1>4, SoundNext
<1>7. TypeOK'
  BY <1>1, <1>4, <1>5 DEF TypeOK, Inv, Sound, OwnedArray
<1>8. QED
  BY <1>4, <1>6, <1>7 DEF Inv, StatsAddUp

\* So does every step.
LEMMA NextKeepsInv == Inv /\ [Next]_vars => Inv'
<1> SUFFICES ASSUME Inv, [Next]_vars PROVE Inv'
  OBVIOUS
<1>1. ASSUME NEW l \in LinesOf(class), Access(l) PROVE Inv'
  BY <1>1, AccessKeepsInv
<1>2. ASSUME NEW k \in Classes, SetRequesterClass(k) PROVE Inv'
  <2>1. Sound(cache, mem, publicWays)'
    BY <1>2, SoundNext DEF Inv, SetRequesterClass
  <2>2. QED
    BY <1>2, <2>1 DEF SetRequesterClass, Inv, TypeOK, StatsAddUp
<1>3. CASE UNCHANGED vars
  <2>1. Sound(cache, mem, publicWays)'
    BY <1>3, SoundNext DEF Inv, vars
  <2>2. QED
    BY <1>3, <2>1 DEF vars, Inv, TypeOK, StatsAddUp
<1>4. QED
  BY <1>1, <1>2, <1>3 DEF Next

\* In the first state the array is empty and the border where the policy puts
\* it.
LEMMA InitIsSound == Init => Inv
<1> SUFFICES ASSUME Init PROVE Inv
  OBVIOUS
<1>1. \A s \in Sets, w \in Ways : cache[s][w] = None
  BY DEF Init, NoLines
<1>2. cache \in OwnedArray /\ Placed(cache) /\ OwnersAreHome(cache)
  BY <1>1 DEF Init, NoLines, OwnedArray, Placed, OwnersAreHome
<1>3. rank \in Ranks
  BY DEF Init, NoUses, Ranks
<1>4. mem \in [Line -> Data]
  BY SecDcpAssumption DEF Init, Data
<1>5. publicWays \in MinPublic..MaxPublic
  BY GeometryAssumption, SecDcpAssumption DEF Init, MinPublic, MaxPublic
<1>6. /\ stats \in [accesses : 0..EpochAccesses, misses : 0..EpochAccesses]
      /\ stats.accesses < EpochAccesses /\ stats.misses <= stats.accesses
  BY SecDcpAssumption DEF Init, NoStats
<1>7. \A l \in Line : Settled(l, cache, mem, publicWays)
  BY <1>1, SetIndexInSets DEF Settled, Holds
<1>8. QED
  BY <1>2, <1>3, <1>4, <1>5, <1>6, <1>7
     DEF Inv, TypeOK, StatsAddUp, Sound, Init, Classes, OwnedArray

-----------------------------------------------------------------------------
(* The theorems.                                                           *)

\* Between two calls the array is sound, no epoch is over and none has more
\* misses than accesses.
THEOREM SecDcpInvariant == Spec => []Inv
<1>1. Init => Inv
  BY InitIsSound
<1>2. Inv /\ [Next]_vars => Inv'
  BY NextKeepsInv
<1>3. QED
  BY <1>1, <1>2, PTL DEF Spec

\* The state is well formed, the border within what the policy grants each
\* class; the ways of High hold nothing of Low's, wherever the border has been.
THEOREM SecDcpSafety == Spec => [](TypeOK /\ HighWaysAreHighs)
<1>1. Inv => HighWaysAreHighs
  <2> SUFFICES ASSUME Inv, NEW s \in Sets, NEW w \in publicWays..(Assoc - 1),
                      LowOwned(cache[s][w])
               PROVE  FALSE
    BY DEF HighWaysAreHighs
  <2>1. publicWays \in MinPublic..MaxPublic /\ Sound(cache, mem, publicWays)
    BY DEF Inv, Sound
  <2>2. w \in Ways /\ w \notin WaysAt("Low", publicWays)
    BY <2>1, WaysType, GeometryAssumption DEF WaysAt, Ways
  <2>3. QED
    BY <2>1, <2>2, LowIsInLowWays
<1>2. Inv => TypeOK
  BY DEF Inv
<1>3. QED
  BY <1>1, <1>2, SecDcpInvariant, PTL

\* In particular the border stays where the policy lets it be, whatever rates
\* the epochs have.
THEOREM SecDcpTypes == Spec => []TypeOK
BY SecDcpSafety, PTL

\* No access changes a slot outside the ways of its class, the flush of the way
\* that Low gives up included, and High does not move the border.
THEOREM SecDcpSeparation == Spec => ClassesAreSeparate
<1> DEFINE Separate ==
             /\ \A s \in Sets, w \in Ways :
                  cache'[s][w] # cache[s][w] => w \in WaysOf(class)
             /\ publicWays' # publicWays => class = "Low"
<1>1. Inv /\ [Next]_vars => [Separate]_vars
  <2> SUFFICES ASSUME Inv, Next PROVE Separate
    OBVIOUS
  <2>1. ASSUME NEW l \in LinesOf(class), Access(l) PROVE Separate
    <3>1. PICK w, n, c, m, miss :
            /\ Accessed(l, w, n, c, m)
            /\ miss \in BOOLEAN /\ Repartition(c, m, miss)
            /\ Settled(l, cache, mem, publicWays) => n.dirty \/ n.data = m[l]
      BY <2>1, AccessInTwoParts
    <3>2. Sound(c, m, publicWays) /\ ~panicked
      BY <2>1, <3>1, AccessedIsSound DEF Access
    <3>3. /\ publicWays' # publicWays => class = "Low"
          /\ \A s \in Sets, v \in Ways :
               cache'[s][v] # c[s][v] => class = "Low" /\ v = publicWays - 1
      BY <3>1, <3>2, RepartitionIsSound
    <3>4. /\ l \in Line /\ w \in Ways /\ w \in WaysOf(class)
          /\ cache \in OwnedArray /\ n \in OwnedLine /\ n.line = l
          /\ c = Put(cache, l, w, n)
      BY <3>1, HomeOfAccessed DEF Accessed, Inv, Sound
    <3>5. \A s \in Sets, v \in Ways : c[s][v] # cache[s][v] => v = w
      BY <3>4, PutSlot
    <3>6. class = "Low" => publicWays - 1 \in WaysOf(class)
      BY <3>2, WaysType DEF WaysOf, Sound
    <3>7. ASSUME NEW s \in Sets, NEW v \in Ways, cache'[s][v] # cache[s][v]
          PROVE  v \in WaysOf(class)
      <4>1. CASE cache'[s][v] # c[s][v]
        BY <3>3, <3>6, <4>1
      <4>2. CASE c[s][v] # cache[s][v]
        BY <3>4, <3>5, <4>2
      <4>3. QED
        BY <3>7, <4>1, <4>2
    <3>8. QED
      BY <3>3, <3>7
  <2>2. ASSUME NEW k \in Classes, SetRequesterClass(k) PROVE Separate
    BY <2>2 DEF SetRequesterClass
  <2>3. QED
    BY <2>1, <2>2 DEF Next
<1>2. QED
  BY <1>1, SecDcpInvariant, PTL DEF Spec, ClassesAreSeparate

\* A line that the access does not store to keeps its bytes, unless it is one of
\* High's and the border moves over it or has left a copy of it behind.
THEOREM SecDcpLoses == Spec => OnlyTheBorderLoses
<1> DEFINE Excused(l) ==
             \/ \E o \in Offset, v \in Value :
                  /\ StoreHit(l, o, v) \/ StoreMiss(l, o, v)
                  /\ View'[l] = [View[l] EXCEPT ![o] = v]
             \/ l \in highLine /\ publicWays' # publicWays
             \/ Stranded(l)
           Kept == \A l \in Line : View'[l] # View[l] => Excused(l)
<1>1. ASSUME Inv, NEW l \in Line, ~Stranded(l)
      PROVE  Settled(l, cache, mem, publicWays)
  <2>1. CASE l \notin highLine
    BY <1>1, <2>1 DEF Inv, Sound
  <2>2. CASE l \in highLine
    <3>1. /\ \A w \in WaysOf("Low") : ~Holds(cache, l, w)
          /\ \A v, w \in Ways : Holds(cache, l, v) /\ Holds(cache, l, w) => v = w
          /\ \A w \in Ways : Holds(cache, l, w) =>
                cache[SetIndex(l)][w].dirty \/ cache[SetIndex(l)][w].data = mem[l]
      BY <1>1, <2>2 DEF Stranded
    <3>2. HomeOf(l) = "High" /\ publicWays \in MinPublic..MaxPublic
      BY <1>1, <2>2 DEF HomeOf, Inv, TypeOK
    <3>3. \A w \in Ways : w \in WaysOf("Low") \/ w \in WaysAt("High", publicWays)
      BY <3>2, WaysType DEF WaysOf, WaysAt
    <3>4. QED
      BY <3>1, <3>2, <3>3 DEF Settled
  <2>3. QED
    BY <2>1, <2>2
<1>2. ASSUME Inv, NEW l \in LinesOf(class), Access(l), NEW k \in Line,
             View'[k] # View[k]
      PROVE  Excused(k)
  <2>1. SUFFICES ASSUME ~Stranded(k), k \notin highLine \/ publicWays' = publicWays
                 PROVE  \E o \in Offset, v \in Value :
                          /\ StoreHit(k, o, v) \/ StoreMiss(k, o, v)
                          /\ View'[k] = [View[k] EXCEPT ![o] = v]
    OBVIOUS
  <2>2. PICK w, n, c, m, miss :
          /\ Accessed(l, w, n, c, m)
          /\ miss \in BOOLEAN /\ Repartition(c, m, miss)
          /\ Settled(l, cache, mem, publicWays) => n.dirty \/ n.data = m[l]
          /\ \/ n.data = ViewAt(l, cache, mem, publicWays)
             \/ \E o \in Offset, v \in Value :
                  /\ StoreHit(l, o, v) \/ StoreMiss(l, o, v)
                  /\ n.data = [ViewAt(l, cache, mem, publicWays) EXCEPT ![o] = v]
    BY <1>2, AccessInTwoParts
  <2>3. Sound(c, m, publicWays) /\ ~panicked /\ highLine' = highLine
    BY <1>2, <2>2, AccessedIsSound DEF Access
  <2>4. ViewAt(k, cache', mem', publicWays') = ViewAt(k, c, m, publicWays)
    BY <1>2, <2>1, <2>2, <2>3, RepartitionIsSound
  <2>5. View'[k] = ViewAt(k, c, m, publicWays) /\ View[k] = ViewAt(k, cache, mem, publicWays)
    BY <2>3, <2>4, ViewIsViewAt
  <2>6. CASE k = l
    <3>1. View'[k] = n.data
      BY <1>2, <2>2, <2>5, <2>6, AccessedReads
    <3>2. QED
      BY <1>2, <2>2, <2>5, <2>6, <3>1
  <2>7. CASE k # l
    <3>1. Settled(k, cache, mem, publicWays)
      BY <1>1, <1>2, <2>1
    <3>2. View'[k] = View[k]
      BY <1>2, <2>2, <2>5, <2>7, <3>1, OthersAreKept
    <3>3. QED
      BY <1>2, <3>2
  <2>8. QED
    BY <2>6, <2>7
<1>3. Inv /\ [Next]_vars => [Kept]_vars
  <2> SUFFICES ASSUME Inv, Next PROVE Kept
    OBVIOUS
  <2>1. CASE \E l \in LinesOf(class) : Access(l)
    BY <1>2, <2>1
  <2>2. ASSUME NEW j \in Classes, SetRequesterClass(j), NEW k \in Line
        PROVE  View'[k] = View[k]
    BY <2>2, ViewIsViewAt DEF SetRequesterClass
  <2>3. QED
    BY <2>1, <2>2 DEF Next
<1>4. QED
  BY <1>3, SecDcpInvariant, PTL DEF Spec, OnlyTheBorderLoses
=============================================================================
