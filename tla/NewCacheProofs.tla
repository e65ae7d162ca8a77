--------------------------- MODULE NewCacheProofs ---------------------------
(***************************************************************************)
(* NewCacheMemory is well formed, its remapping tables are exact and it is *)
(* transparent, for every number of slots, of logical lines and of         *)
(* requesters, and for every set of lines and values.                      *)
(*                                                                         *)
(* An access passes through states in the middle of a miss, so the         *)
(* invariant and the flat memory are stated for any record h of the        *)
(* lines, the tables and the memory; the state itself is Now.              *)
(***************************************************************************)
EXTENDS NewCacheMemory, TLAPS

State == [lines : [Slot -> CacheLine \cup {None}],
          rmt : [Keys -> Slot \cup {None}],
          mem : [Line -> Data]]

\* Every slot holds a line under the id of the line's owner.
Owned(h) ==
    \A i \in Slot : h.lines[i] # None => h.lines[i].rmt = OwnerOf[h.lines[i].line]

Exact(h) ==
    \A k \in Keys, i \in Slot :
        h.rmt[k] = i <=> h.lines[i] # None /\ KeyOf(h.lines[i]) = k

Backed(h) ==
    \A i \in Slot :
        h.lines[i] # None /\ ~h.lines[i].dirty
            => h.lines[i].data = h.mem[h.lines[i].line]

Sound(h) == h \in State /\ Owned(h) /\ Exact(h) /\ Backed(h)

ViewOf(h) ==
    [l \in Line |->
        LET copies == {i \in Slot : Holds(h.lines, i, l)}
        IN  IF copies = {} THEN h.mem[l]
            ELSE h.lines[CHOOSE i \in copies : TRUE].data]

Inv == TypeOK /\ Sound(Now)

-----------------------------------------------------------------------------
(* One state.                                                              *)

\* The key of a line is a key of the tables.
LEMMA KeyType == \A n \in CacheLine : KeyOf(n) \in Keys
<1> SUFFICES ASSUME NEW n \in CacheLine PROVE KeyOf(n) \in Keys
  OBVIOUS
<1>1. n.line \in Nat /\ n.rmt \in RmtId
  BY NewCacheAssumption DEF CacheLine
<1>2. n.line % LogicalLines \in Index
  BY <1>1, NewCacheAssumption DEF Index
<1>3. QED
  BY <1>1, <1>2 DEF KeyOf, Keys, LogicalIndex

\* What a slot holds is a line.
LEMMA SlotType ==
    ASSUME NEW h \in State, NEW i \in Slot
    PROVE  h.lines[i] # None =>
             /\ h.lines[i] \in CacheLine
             /\ h.lines[i].line \in Line
             /\ h.lines[i].data \in Data
             /\ KeyOf(h.lines[i]) \in Keys
BY KeyType DEF State, CacheLine

\* No line is in two slots: they would have one key.
LEMMA OneSlot ==
    ASSUME NEW h, Sound(h), NEW l \in Line, NEW i \in Slot, NEW j \in Slot,
           Holds(h.lines, i, l), Holds(h.lines, j, l)
    PROVE  i = j
<1>1. KeyOf(h.lines[i]) = KeyOf(h.lines[j])
  BY DEF Sound, Owned, Holds, KeyOf
<1>2. KeyOf(h.lines[i]) \in Keys
  BY SlotType DEF Sound, Holds
<1>3. QED
  BY <1>1, <1>2 DEF Sound, Exact, Holds

\* What the flat memory says of a line that is in a slot.
LEMMA ViewOfHeld ==
    ASSUME NEW h, Sound(h), NEW l \in Line, NEW i \in Slot, Holds(h.lines, i, l)
    PROVE  ViewOf(h)[l] = h.lines[i].data
<1> DEFINE copies == {j \in Slot : Holds(h.lines, j, l)}
<1>1. copies = {i}
  BY OneSlot
<1>2. (CHOOSE j \in copies : TRUE) = i
  BY <1>1
<1>3. QED
  BY <1>1, <1>2 DEF ViewOf

\* And of one that is in none.
LEMMA ViewOfAbsent ==
    ASSUME NEW h, NEW l \in Line, \A i \in Slot : ~Holds(h.lines, i, l)
    PROVE  ViewOf(h)[l] = h.mem[l]
BY DEF ViewOf

\* The flat memory is one.
LEMMA ViewType == ASSUME NEW h, Sound(h) PROVE ViewOf(h) \in [Line -> Data]
<1> SUFFICES ASSUME NEW l \in Line PROVE ViewOf(h)[l] \in Data
  BY DEF ViewOf
<1>1. CASE \A i \in Slot : ~Holds(h.lines, i, l)
  BY <1>1, ViewOfAbsent DEF Sound, State
<1>2. ASSUME NEW i \in Slot, Holds(h.lines, i, l)
      PROVE  ViewOf(h)[l] \in Data
  BY <1>2, ViewOfHeld, SlotType DEF Sound, Holds
<1>3. QED
  BY <1>1, <1>2

\* It is determined by what it says of each line.
LEMMA SameView ==
    ASSUME NEW g, NEW h, \A l \in Line : ViewOf(g)[l] = ViewOf(h)[l]
    PROVE  ViewOf(g) = ViewOf(h)
<1>1. ViewOf(g) = [l \in Line |-> ViewOf(g)[l]]
  BY DEF ViewOf
<1>2. ViewOf(h) = [l \in Line |-> ViewOf(h)[l]]
  BY DEF ViewOf
<1>3. QED
  BY <1>1, <1>2

-----------------------------------------------------------------------------
(* What invalidate_line leaves, between two accesses or in the middle of a *)
(* miss.                                                                   *)

\* A line that is in no slot is left alone.
LEMMA InvalidatedAbsent ==
    ASSUME NEW h, Sound(h), NEW l \in Line, \A i \in Slot : ~Holds(h.lines, i, l)
    PROVE  Invalidated(h, l) = h
<1>1. {i \in Slot : Holds(h.lines, i, l)} = {}
  OBVIOUS
<1>2. /\ h.lines = [i \in Slot |-> h.lines[i]]
      /\ h.rmt = [k \in Keys |-> h.rmt[k]]
      /\ h.mem = [m \in Line |-> h.mem[m]]
      /\ h = [lines |-> h.lines, rmt |-> h.rmt, mem |-> h.mem]
  BY DEF Sound, State
<1>3. QED
  BY <1>1, <1>2 DEF Invalidated

\* A line that is in a slot leaves it, its mapping goes and the memory gets
\* what the slot held.
LEMMA InvalidatedHeld ==
    ASSUME NEW h, Sound(h), NEW l \in Line, NEW i \in Slot, Holds(h.lines, i, l)
    PROVE  /\ Invalidated(h, l) \in State
           /\ \A j \in Slot : Invalidated(h, l).lines[j] =
                                  IF j = i THEN None ELSE h.lines[j]
           /\ \A k \in Keys : Invalidated(h, l).rmt[k] =
                                  IF k = KeyOf(h.lines[i]) THEN None ELSE h.rmt[k]
           /\ \A m \in Line : Invalidated(h, l).mem[m] =
                                  IF m = l THEN h.lines[i].data ELSE h.mem[m]
<1> DEFINE gone == {j \in Slot : Holds(h.lines, j, l)}
           g == Invalidated(h, l)
<1>1. gone = {i}
  BY OneSlot
<1>2. /\ h.lines \in [Slot -> CacheLine \cup {None}]
      /\ h.rmt \in [Keys -> Slot \cup {None}]
      /\ h.mem \in [Line -> Data]
      /\ h.lines[i].data \in Data
      /\ h.lines[i].dirty \in BOOLEAN
  BY SlotType DEF Sound, State, Holds, CacheLine
<1>3. /\ g.lines = [j \in Slot |-> IF j \in gone THEN None ELSE h.lines[j]]
      /\ g.rmt = [k \in Keys |->
                    IF \E j \in gone : KeyOf(h.lines[j]) = k THEN None ELSE h.rmt[k]]
      /\ g.mem = [m \in Line |->
                    LET dirty == {j \in gone : m = l /\ h.lines[j].dirty}
                    IN  IF dirty = {} THEN h.mem[m]
                        ELSE h.lines[CHOOSE j \in dirty : TRUE].data]
      /\ g = [lines |-> g.lines, rmt |-> g.rmt, mem |-> g.mem]
  BY DEF Invalidated
<1>4. \A j \in Slot : g.lines[j] = IF j = i THEN None ELSE h.lines[j]
  BY <1>1, <1>3
<1>5. \A k \in Keys : g.rmt[k] = IF k = KeyOf(h.lines[i]) THEN None ELSE h.rmt[k]
  BY <1>1, <1>3
<1>6. ASSUME NEW m \in Line
      PROVE  g.mem[m] = IF m = l THEN h.lines[i].data ELSE h.mem[m]
  <2> DEFINE dirty == {j \in gone : m = l /\ h.lines[j].dirty}
  <2>0. g.mem[m] = IF dirty = {} THEN h.mem[m]
                   ELSE h.lines[CHOOSE j \in dirty : TRUE].data
    BY <1>3
  <2>1. CASE m = l /\ h.lines[i].dirty
    <3>1. dirty = {i}
      BY <2>1, <1>1
    <3>2. QED
      BY <2>0, <2>1, <3>1
  <2>2. CASE m = l /\ ~h.lines[i].dirty
    <3>1. dirty = {}
      BY <2>2, <1>1
    <3>2. h.mem[l] = h.lines[i].data
      BY <2>2 DEF Sound, Backed, Holds
    <3>3. QED
      BY <2>0, <2>2, <3>1, <3>2
  <2>3. CASE m # l
    <3>1. dirty = {}
      BY <2>3
    <3>2. QED
      BY <2>0, <2>3, <3>1
  <2>4. QED
    BY <2>1, <2>2, <2>3, <1>2
<1>7. g \in State
  <2>1. g.lines \in [Slot -> CacheLine \cup {None}]
    BY <1>2, <1>3
  <2>2. g.rmt \in [Keys -> Slot \cup {None}]
    BY <1>2, <1>3
  <2>3. g.mem \in [Line -> Data]
    <3> HIDE DEF g
    <3>1. \A m \in Line : g.mem[m] \in Data
      BY <1>2, <1>6
    <3>2. QED
      BY <1>3, <3>1
  <2> HIDE DEF g
  <2>4. QED
    BY <1>3, <2>1, <2>2, <2>3 DEF State
<1>8. QED
  BY <1>4, <1>5, <1>6, <1>7

\* Either way the state stays sound and says the same of every line.
LEMMA InvalidatedSound ==
    ASSUME NEW h, Sound(h), NEW l \in Line
    PROVE  /\ Sound(Invalidated(h, l))
           /\ ViewOf(Invalidated(h, l)) = ViewOf(h)
           /\ \A j \in Slot : Invalidated(h, l).lines[j] \in {None, h.lines[j]}
<1>1. CASE \A i \in Slot : ~Holds(h.lines, i, l)
  BY <1>1, InvalidatedAbsent
<1>2. ASSUME NEW i \in Slot, Holds(h.lines, i, l)
      PROVE  /\ Sound(Invalidated(h, l))
             /\ ViewOf(Invalidated(h, l)) = ViewOf(h)
             /\ \A j \in Slot : Invalidated(h, l).lines[j] \in {None, h.lines[j]}
  <2> DEFINE g == Invalidated(h, l)
  <2>1. /\ g \in State
        /\ \A j \in Slot : g.lines[j] = IF j = i THEN None ELSE h.lines[j]
        /\ \A k \in Keys : g.rmt[k] = IF k = KeyOf(h.lines[i]) THEN None ELSE h.rmt[k]
        /\ \A m \in Line : g.mem[m] = IF m = l THEN h.lines[i].data ELSE h.mem[m]
    BY <1>2, InvalidatedHeld
  <2>2. Owned(h) /\ Exact(h) /\ Backed(h) /\ h \in State
    BY DEF Sound
  <2>3. h.lines[i] # None /\ h.lines[i].line = l
    BY <1>2 DEF Holds
  <2> HIDE DEF g
  <2>4. Owned(g)
    BY <2>1, <2>2 DEF Owned
  <2>5. Exact(g)
    <3> SUFFICES ASSUME NEW k \in Keys, NEW j \in Slot
                 PROVE  g.rmt[k] = j <=> g.lines[j] # None /\ KeyOf(g.lines[j]) = k
      BY DEF Exact
    <3>1. h.rmt[k] = j <=> h.lines[j] # None /\ KeyOf(h.lines[j]) = k
      BY <2>2 DEF Exact
    <3>2. None # j
      BY NewCacheAssumption
    <3>3. h.rmt[k] = i <=> KeyOf(h.lines[i]) = k
      BY <2>2, <2>3 DEF Exact
    <3>4. QED
      BY <2>1, <3>1, <3>2, <3>3
  <2>6. Backed(g)
    <3> SUFFICES ASSUME NEW j \in Slot, g.lines[j] # None, ~g.lines[j].dirty
                 PROVE  g.lines[j].data = g.mem[g.lines[j].line]
      BY DEF Backed
    <3>1. j # i /\ g.lines[j] = h.lines[j] /\ h.lines[j].line \in Line
      BY <2>1, <2>2, SlotType
    <3>2. h.lines[j].line # l
      BY <1>2, <3>1, OneSlot DEF Holds
    <3>3. QED
      BY <3>1, <3>2, <2>1, <2>2 DEF Backed
  <2>7. Sound(g)
    BY <2>1, <2>4, <2>5, <2>6 DEF Sound
  <2>8. ASSUME NEW m \in Line
        PROVE  ViewOf(g)[m] = ViewOf(h)[m]
    <3>1. CASE m = l
      <4>1. \A j \in Slot : ~Holds(g.lines, j, l)
        BY <1>2, <2>1, OneSlot DEF Holds
      <4>2. QED
        BY <3>1, <4>1, <2>1, <1>2, ViewOfAbsent, ViewOfHeld
    <3>2. ASSUME m # l, NEW j \in Slot, Holds(h.lines, j, m)
          PROVE  ViewOf(g)[m] = ViewOf(h)[m]
      <4>1. j # i /\ g.lines[j] = h.lines[j] /\ Holds(g.lines, j, m)
        BY <3>2, <2>1, <2>3 DEF Holds
      <4>2. QED
        BY <3>2, <4>1, <2>7, ViewOfHeld
    <3>3. CASE m # l /\ \A j \in Slot : ~Holds(h.lines, j, m)
      <4>1. \A j \in Slot : ~Holds(g.lines, j, m)
        BY <3>3, <2>1 DEF Holds
      <4>2. QED
        BY <3>3, <4>1, <2>1, ViewOfAbsent
    <3>4. QED
      BY <3>1, <3>2, <3>3
  <2>9. ViewOf(g) = ViewOf(h)
    BY <2>8, SameView
  <2>10. QED
    BY <2>1, <2>7, <2>9 DEF g
<1>3. QED
  BY <1>1, <1>2

-----------------------------------------------------------------------------
(* What install_line leaves.                                               *)

\* The new line takes the slot and its key the mapping; the old line's key
\* loses its mapping and the memory gets the old line's data.
LEMMA Installed ==
    ASSUME NEW h, Sound(h), NEW i \in Slot, NEW n \in CacheLine
    PROVE  LET old == h.lines[i] g == Install(h, i, n) IN
           /\ g \in State
           /\ \A j \in Slot : g.lines[j] = IF j = i THEN n ELSE h.lines[j]
           /\ \A k \in Keys :
                 g.rmt[k] = IF k = KeyOf(n) THEN i
                            ELSE IF old # None /\ k = KeyOf(old) THEN None
                            ELSE h.rmt[k]
           /\ \A m \in Line :
                 g.mem[m] = IF old # None /\ m = old.line THEN old.data ELSE h.mem[m]
<1> DEFINE old == h.lines[i]
           kept == IF old = None THEN h.rmt ELSE Unmapped(h.rmt, old)
           g == Install(h, i, n)
<1>1. /\ h.lines \in [Slot -> CacheLine \cup {None}]
      /\ h.rmt \in [Keys -> Slot \cup {None}]
      /\ h.mem \in [Line -> Data]
      /\ KeyOf(n) \in Keys
  BY KeyType DEF Sound, State
<1>2. old # None => /\ old \in CacheLine /\ old.line \in Line
                    /\ old.data \in Data /\ KeyOf(old) \in Keys
  BY SlotType DEF Sound
<1>3. /\ g.lines = [h.lines EXCEPT ![i] = n]
      /\ g.rmt = [kept EXCEPT ![KeyOf(n)] = i]
      /\ g.mem = WriteBack(h.mem, old)
      /\ g = [lines |-> g.lines, rmt |-> g.rmt, mem |-> g.mem]
  BY DEF Install
<1> HIDE DEF g
<1>4. /\ kept \in [Keys -> Slot \cup {None}]
      /\ \A k \in Keys : kept[k] = IF old # None /\ k = KeyOf(old) THEN None ELSE h.rmt[k]
  <2>1. CASE old = None
    BY <2>1, <1>1
  <2>2. CASE old # None
    <3>1. kept = [h.rmt EXCEPT ![KeyOf(old)] = None]
      BY <2>2 DEF Unmapped
    <3> HIDE DEF kept
    <3>2. QED
      BY <3>1, <2>2, <1>1, <1>2
  <2>3. QED
    BY <2>1, <2>2
<1>5. /\ g.lines \in [Slot -> CacheLine \cup {None}]
      /\ \A j \in Slot : g.lines[j] = IF j = i THEN n ELSE h.lines[j]
  BY <1>1, <1>3
<1>6. /\ g.rmt \in [Keys -> Slot \cup {None}]
      /\ \A k \in Keys : g.rmt[k] = IF k = KeyOf(n) THEN i ELSE kept[k]
  <2> HIDE DEF kept
  <2>1. QED
    BY <1>1, <1>3, <1>4
<1>7. /\ g.mem \in [Line -> Data]
      /\ \A m \in Line :
            g.mem[m] = IF old # None /\ m = old.line THEN old.data ELSE h.mem[m]
  <2>1. CASE old = None
    BY <2>1, <1>1, <1>3 DEF WriteBack
  <2>2. CASE old # None /\ old.dirty
    <3>1. g.mem = [h.mem EXCEPT ![old.line] = old.data]
      BY <2>2, <1>3 DEF WriteBack
    <3>2. QED
      BY <3>1, <2>2, <1>1, <1>2
  <2>3. CASE old # None /\ ~old.dirty
    <3>1. g.mem = h.mem /\ old.data = h.mem[old.line]
      BY <2>3, <1>3 DEF WriteBack, Sound, Backed
    <3>2. QED
      BY <3>1, <2>3, <1>1
  <2>4. QED
    BY <2>1, <2>2, <2>3, <1>2 DEF CacheLine
<1>8. g \in State
  BY <1>3, <1>5, <1>6, <1>7 DEF State
<1>9. \A k \in Keys :
         g.rmt[k] = IF k = KeyOf(n) THEN i
                    ELSE IF old # None /\ k = KeyOf(old) THEN None
                    ELSE h.rmt[k]
  <2> HIDE DEF kept
  <2>1. QED
    BY <1>4, <1>6
<1>10. QED
  BY <1>5, <1>7, <1>8, <1>9 DEF g

\* A line that was nowhere, whose key was mapped to the slot or to none, goes
\* in: the state stays sound and only that line changes.
LEMMA InstallSound ==
    ASSUME NEW h, Sound(h), NEW i \in Slot, NEW n \in CacheLine,
           n.rmt = OwnerOf[n.line],
           \A j \in Slot : ~Holds(h.lines, j, n.line),
           h.rmt[KeyOf(n)] \in {i, None},
           n.dirty \/ n.data = h.mem[n.line]
    PROVE  /\ Sound(Install(h, i, n))
           /\ ViewOf(Install(h, i, n)) = [ViewOf(h) EXCEPT ![n.line] = n.data]
<1> DEFINE old == h.lines[i]
           g == Install(h, i, n)
<1>1. /\ g \in State
      /\ \A j \in Slot : g.lines[j] = IF j = i THEN n ELSE h.lines[j]
      /\ \A k \in Keys :
            g.rmt[k] = IF k = KeyOf(n) THEN i
                       ELSE IF old # None /\ k = KeyOf(old) THEN None
                       ELSE h.rmt[k]
      /\ \A m \in Line :
            g.mem[m] = IF old # None /\ m = old.line THEN old.data ELSE h.mem[m]
  BY Installed
<1>2. /\ Owned(h) /\ Exact(h) /\ Backed(h) /\ h \in State
      /\ KeyOf(n) \in Keys /\ n.line \in Line
      /\ n # None /\ \A j \in Slot : j # None
  BY KeyType, NewCacheAssumption DEF Sound, CacheLine
<1>3. old # None => /\ old.line \in Line /\ KeyOf(old) \in Keys
                    /\ old.line # n.line /\ Holds(h.lines, i, old.line)
  BY SlotType DEF Sound, Holds
<1> HIDE DEF g
<1>4. Owned(g)
  BY <1>1, <1>2 DEF Owned
<1>5. Exact(g)
  <2> SUFFICES ASSUME NEW k \in Keys, NEW j \in Slot
               PROVE  g.rmt[k] = j <=> g.lines[j] # None /\ KeyOf(g.lines[j]) = k
    BY DEF Exact
  <2>1. h.rmt[k] = j <=> h.lines[j] # None /\ KeyOf(h.lines[j]) = k
    BY <1>2 DEF Exact
  <2>2. h.rmt[k] = i <=> old # None /\ KeyOf(old) = k
    BY <1>2 DEF Exact
  <2>3. CASE k = KeyOf(n)
    BY <2>1, <2>3, <1>1, <1>2
  <2>4. CASE k # KeyOf(n) /\ j = i
    BY <2>2, <2>4, <1>1, <1>2
  <2>5. CASE k # KeyOf(n) /\ j # i
    BY <2>1, <2>2, <2>5, <1>1, <1>2
  <2>6. QED
    BY <2>3, <2>4, <2>5
<1>6. Backed(g)
  <2> SUFFICES ASSUME NEW j \in Slot, g.lines[j] # None, ~g.lines[j].dirty
               PROVE  g.lines[j].data = g.mem[g.lines[j].line]
    BY DEF Backed
  <2>1. CASE j = i
    BY <2>1, <1>1, <1>2, <1>3
  <2>2. CASE j # i
    <3>1. g.lines[j] = h.lines[j] /\ h.lines[j].line \in Line
      BY <2>2, <1>1, <1>2, SlotType
    <3>2. old # None => h.lines[j].line # old.line
      BY <2>2, <3>1, <1>3, OneSlot DEF Holds
    <3>3. QED
      BY <3>1, <3>2, <1>1, <1>2 DEF Backed
  <2>3. QED
    BY <2>1, <2>2
<1>7. Sound(g)
  BY <1>1, <1>4, <1>5, <1>6 DEF Sound
<1>8. ViewOf(g)[n.line] = n.data
  <2>1. Holds(g.lines, i, n.line) /\ g.lines[i].data = n.data
    BY <1>1, <1>2 DEF Holds
  <2>2. QED
    BY <2>1, <1>2, <1>7, ViewOfHeld
<1>9. ASSUME NEW m \in Line, m # n.line
      PROVE  ViewOf(g)[m] = ViewOf(h)[m]
  <2>1. CASE old # None /\ m = old.line
    <3>1. \A j \in Slot : ~Holds(g.lines, j, m)
      <4> SUFFICES ASSUME NEW j \in Slot, Holds(g.lines, j, m)
                   PROVE  FALSE
        OBVIOUS
      <4>1. j # i
        BY <1>1, <1>9 DEF Holds
      <4>2. Holds(h.lines, j, m)
        BY <4>1, <1>1 DEF Holds
      <4>3. QED
        BY <4>1, <4>2, <2>1, <1>3, OneSlot
    <3>2. ViewOf(g)[m] = old.data
      BY <3>1, <2>1, <1>1, ViewOfAbsent
    <3>3. ViewOf(h)[m] = old.data
      BY <2>1, <1>3, ViewOfHeld
    <3>4. QED
      BY <3>2, <3>3
  <2>2. ASSUME old = None \/ m # old.line, NEW j \in Slot, Holds(h.lines, j, m)
        PROVE  ViewOf(g)[m] = ViewOf(h)[m]
    <3>1. j # i /\ g.lines[j] = h.lines[j] /\ Holds(g.lines, j, m)
      BY <2>2, <1>1 DEF Holds
    <3>2. QED
      BY <2>2, <3>1, <1>7, ViewOfHeld
  <2>3. CASE (old = None \/ m # old.line) /\ \A j \in Slot : ~Holds(h.lines, j, m)
    <3>1. \A j \in Slot : ~Holds(g.lines, j, m)
      BY <2>3, <1>1, <1>9 DEF Holds
    <3>2. QED
      BY <2>3, <3>1, <1>1, ViewOfAbsent
  <2>4. QED
    BY <2>1, <2>2, <2>3
<1>10. ViewOf(g) = [ViewOf(h) EXCEPT ![n.line] = n.data]
  <2>1. /\ ViewOf(g) = [m \in Line |-> ViewOf(g)[m]]
        /\ ViewOf(h) = [m \in Line |-> ViewOf(h)[m]]
    BY DEF ViewOf
  <2> DEFINE w == [ViewOf(h) EXCEPT ![n.line] = n.data]
  <2>2. /\ w = [m \in Line |-> w[m]]
        /\ \A m \in Line : w[m] = IF m = n.line THEN n.data ELSE ViewOf(h)[m]
    BY <2>1
  <2>3. \A m \in Line : ViewOf(g)[m] = w[m]
    BY <2>2, <1>8, <1>9
  <2> HIDE DEF w
  <2>4. w = ViewOf(g)
    BY <2>1, <2>2, <2>3
  <2>5. QED
    BY <2>4 DEF w
<1>11. QED
  BY <1>7, <1>10 DEF g

-----------------------------------------------------------------------------
(* A miss.                                                                 *)

\* The lookup removes no mapping: with exact tables there is none to remove.
LEMMA LookedIsNow ==
    ASSUME Inv, NEW l \in Line PROVE Looked(l) = Now
<1>1. CASE IndexMiss(l)
  <2>1. ActiveKey(l) \in Keys /\ rmt \in [Keys -> Slot \cup {None}]
    <3>1. l % LogicalLines \in Index
      BY NewCacheAssumption DEF Index
    <3>2. QED
      BY <3>1 DEF ActiveKey, Keys, LogicalIndex, Inv, TypeOK
  <2>2. rmt[ActiveKey(l)] = None
    <3> SUFFICES ASSUME NEW j \in Slot, rmt[ActiveKey(l)] = j
                 PROVE  FALSE
      BY <2>1
    <3>1. lines[j] # None /\ KeyOf(lines[j]) = ActiveKey(l) /\ j # None
      BY <2>1, NewCacheAssumption DEF Inv, Sound, Exact, Now
    <3>2. QED
      BY <3>1, <1>1 DEF IndexMiss, IndexHit
  <2>3. [rmt EXCEPT ![ActiveKey(l)] = None] = rmt
    BY <2>1, <2>2
  <2>4. QED
    BY <1>1, <2>3 DEF Looked, Now
<1>2. CASE ~IndexMiss(l)
  BY <1>2 DEF Looked
<1>3. QED
  BY <1>1, <1>2

\* After the read of a line that missed the state is sound and says the same,
\* the line is nowhere, and its key is mapped to the slot chosen or to none.
LEMMA MissPlaces ==
    ASSUME Inv, NEW l \in Line, OwnerOf[l] = requester,
           NEW h \in AfterRead(Looked(l), l), NEW i \in Slot, Placement(l, h, i)
    PROVE  /\ Sound(h)
           /\ ViewOf(h) = ViewOf(Now)
           /\ \A j \in Slot : ~Holds(h.lines, j, l)
           /\ h.rmt[ActiveKey(l)] \in {i, None}
           /\ h.mem[l] = ViewOf(Now)[l]
<1>1. /\ Sound(h)
      /\ ViewOf(h) = ViewOf(Now)
      /\ \A j \in Slot : h.lines[j] \in {None, lines[j]}
  <2>1. Sound(Now) /\ Now.lines = lines
    BY DEF Inv, Now
  <2>2. CASE h = Now
    BY <2>1, <2>2
  <2>3. CASE \E m \in Line : h = Invalidated(Now, m)
    BY <2>1, <2>3, InvalidatedSound
  <2>4. QED
    BY <2>2, <2>3, LookedIsNow DEF AfterRead
<1>2. /\ ActiveKey(l) \in Keys
      /\ TagMiss(l, i) \/ IndexMiss(l)
      /\ i # None
  <2>1. l % LogicalLines \in Index
    BY NewCacheAssumption DEF Index
  <2>2. QED
    BY <2>1, NewCacheAssumption
    DEF ActiveKey, Keys, LogicalIndex, Inv, TypeOK, Placement
<1>3. ASSUME NEW j \in Slot, lines[j] # None, KeyOf(lines[j]) = ActiveKey(l)
      PROVE  j = i /\ LogicalTag(lines[j].line) # LogicalTag(l)
  <2>1. rmt[ActiveKey(l)] = j /\ j # None
    BY <1>2, <1>3, NewCacheAssumption DEF Inv, Sound, Exact, Now
  <2>2. IndexHit(l, j)
    BY <1>3, <2>1 DEF IndexHit
  <2>3. TagMiss(l, i)
    BY <1>2, <2>2 DEF IndexMiss
  <2>4. QED
    BY <2>1, <2>3 DEF TagMiss, IndexHit
<1>4. ASSUME NEW j \in Slot, Holds(h.lines, j, l)
      PROVE  FALSE
  <2>1. lines[j] # None /\ lines[j].line = l
    BY <1>1, <1>4 DEF Holds
  <2>2. lines[j].rmt = OwnerOf[l]
    BY <2>1 DEF Inv, Sound, Owned, Now
  <2>3. KeyOf(lines[j]) = ActiveKey(l)
    BY <2>1, <2>2 DEF KeyOf, ActiveKey
  <2>4. QED
    BY <1>3, <2>1, <2>3
<1>5. h.rmt[ActiveKey(l)] \in {i, None}
  <2> SUFFICES ASSUME NEW j \in Slot, h.rmt[ActiveKey(l)] = j
               PROVE  j = i
    BY <1>1, <1>2 DEF Sound, State
  <2>1. h.lines[j] # None /\ KeyOf(h.lines[j]) = ActiveKey(l)
    BY <1>1, <1>2 DEF Sound, Exact
  <2>2. lines[j] # None /\ KeyOf(lines[j]) = ActiveKey(l)
    BY <1>1, <2>1
  <2>3. QED
    BY <1>3, <2>2
<1>6. h.mem[l] = ViewOf(Now)[l]
  BY <1>1, <1>4, ViewOfAbsent
<1>7. QED
  BY <1>1, <1>4, <1>5, <1>6

\* A miss installs a line n for l, made of what the memory holds: the state
\* stays sound and l alone changes, to the data of n.
LEMMA MissEffect ==
    ASSUME Inv, NEW l \in Line, OwnerOf[l] = requester,
           NEW h \in AfterRead(Looked(l), l), NEW i \in Slot, Placement(l, h, i),
           NEW n \in CacheLine, n.line = l, n.rmt = requester,
           n.dirty \/ n.data = h.mem[l],
           Becomes(Install(h, i, n))
    PROVE  /\ Sound(Now)'
           /\ View' = [View EXCEPT ![l] = n.data]
<1>1. /\ Sound(h)
      /\ ViewOf(h) = ViewOf(Now)
      /\ \A j \in Slot : ~Holds(h.lines, j, l)
      /\ h.rmt[ActiveKey(l)] \in {i, None}
  BY MissPlaces
<1>2. KeyOf(n) = ActiveKey(l)
  BY DEF KeyOf, ActiveKey
<1>3. /\ Sound(Install(h, i, n))
      /\ ViewOf(Install(h, i, n)) = [ViewOf(h) EXCEPT ![l] = n.data]
  BY <1>1, <1>2, InstallSound
<1>4. Now' = Install(h, i, n)
  BY DEF Becomes, Now, Install
<1>5. View = ViewOf(Now) /\ View' = ViewOf(Now')
  BY DEF View, ViewOf, Now
<1>6. Sound(Now)' <=> Sound(Now')
  BY DEF Sound, State, Owned, Exact, Backed, Now
<1>7. QED
  BY <1>1, <1>3, <1>4, <1>5, <1>6

-----------------------------------------------------------------------------
(* The calls: each keeps Inv and is a step of the flat memory.             *)

Replies ==
    [op : {"none"}] \cup [op : {"load"}, line : Line, off : Offset, val : Value]

\* A sound state with a requester and a reply is what Inv asks for.
LEMMA InvOfSound ==
    ASSUME Sound(Now)', requester' \in RmtId, reply' \in Replies
    PROVE  Inv'
BY DEF Inv, TypeOK, Sound, State, Now, Replies

\* The flat memory is the view of the state.
LEMMA ViewIsFlat ==
    ASSUME Inv PROVE View = ViewOf(Now) /\ View \in [Line -> Data] /\ Sound(Now)
<1>1. View = ViewOf(Now)
  BY DEF View, ViewOf, Now
<1>2. QED
  BY <1>1, ViewType DEF Inv

\* What a slot that holds line l says of it.
LEMMA TagHitView ==
    ASSUME Inv, NEW l \in Line, NEW i \in Slot, TagHit(l, i), OwnerOf[l] = requester
    PROVE  /\ Holds(lines, i, l)
           /\ lines[i] \in CacheLine
           /\ lines[i].rmt = requester
           /\ View[l] = lines[i].data
<1>1. /\ lines[i] # None /\ lines[i] \in CacheLine
      /\ lines[i].rmt = requester
      /\ lines[i].line % LogicalLines = l % LogicalLines
      /\ lines[i].line \div LogicalLines = l \div LogicalLines
  BY DEF TagHit, IndexHit, KeyOf, ActiveKey, LogicalIndex, LogicalTag, Inv, TypeOK
<1>2. lines[i].line \in Nat /\ l \in Nat /\ LogicalLines \in Nat \ {0}
  BY <1>1, NewCacheAssumption DEF CacheLine
<1>3. \A a \in Nat, b \in Nat, d \in Nat \ {0} :
         a % d = b % d /\ a \div d = b \div d => a = b
  OBVIOUS
<1>4. lines[i].line = l
  BY ONLY <1>1, <1>2, <1>3
<1>5. Holds(lines, i, l)
  BY <1>1, <1>4 DEF Holds
<1>6. View[l] = lines[i].data
  <2>1. Holds(Now.lines, i, l) /\ Sound(Now) /\ View = ViewOf(Now)
    BY <1>5, ViewIsFlat DEF Now
  <2>2. QED
    BY <2>1, ViewOfHeld DEF Now
<1>7. QED
  BY <1>1, <1>5, <1>6

\* The answer of a load is well typed, and it is the flat memory's.
LEMMA AnswerIsFlat ==
    ASSUME Inv, NEW l \in Line, NEW o \in Offset,
           reply' = Answer(l, o, View[l][o])
    PROVE  /\ reply' \in Replies
           /\ View' = View => Flat!Load(l, o)
<1>1. View[l][o] \in Value
  BY ViewIsFlat DEF Data
<1>2. QED
  BY <1>1 DEF Answer, Replies, Flat!Load, Flat!LoadReply

\* A line with one byte stored is a dirty line.
LEMMA StoredType ==
    ASSUME NEW n \in CacheLine, NEW o \in Offset, NEW v \in Value
    PROVE  /\ Stored(n, o, v) \in CacheLine
           /\ Stored(n, o, v).line = n.line
           /\ Stored(n, o, v).rmt = n.rmt
           /\ Stored(n, o, v).data = [n.data EXCEPT ![o] = v]
           /\ Stored(n, o, v).dirty
BY DEF Stored, CacheLine, Data

\* The line made for a miss is a clean line with what the memory holds.
LEMMA NewLineType ==
    ASSUME Inv, NEW l \in Line, NEW h, Sound(h)
    PROVE  /\ NewLine(h, l) \in CacheLine
           /\ NewLine(h, l).line = l
           /\ NewLine(h, l).rmt = requester
           /\ NewLine(h, l).data = h.mem[l]
BY DEF NewLine, CacheLine, Inv, TypeOK, Sound, State

\* A load, served by the cache or by the memory.
LEMMA LoadStep ==
    ASSUME Inv, NEW l \in Line, NEW o \in Offset, OwnerOf[l] = requester, Load(l, o)
    PROVE  Inv' /\ Flat!Load(l, o)
<1>0. requester' = requester /\ requester \in RmtId
  BY DEF Load, Inv, TypeOK
<1>1. CASE LoadHit(l, o)
  <2>1. PICK i \in Slot :
            /\ TagHit(l, i)
            /\ reply' = Answer(l, o, lines[i].data[o])
            /\ lines' = lines /\ rmt' = rmt /\ mem' = mem
    BY <1>1 DEF LoadHit
  <2>2. reply' = Answer(l, o, View[l][o])
    BY <2>1, TagHitView
  <2>3. View' = View /\ Now' = Now
    BY <2>1 DEF View, Now
  <2>4. Sound(Now)'
    BY <2>3 DEF Inv, Sound, State, Owned, Exact, Backed, Now
  <2>5. Inv'
    BY <1>0, <2>2, <2>4, AnswerIsFlat, InvOfSound
  <2>6. QED
    BY <2>2, <2>3, <2>5, AnswerIsFlat
<1>2. CASE LoadMiss(l, o)
  <2>1. PICK h \in AfterRead(Looked(l), l), i \in Slot :
            /\ Placement(l, h, i)
            /\ reply' = Answer(l, o, NewLine(h, l).data[o])
            /\ Becomes(Install(h, i, NewLine(h, l)))
    BY <1>2 DEF LoadMiss
  <2>2. Sound(h) /\ h.mem[l] = View[l]
    BY <2>1, MissPlaces, ViewIsFlat
  <2>3. /\ NewLine(h, l) \in CacheLine
        /\ NewLine(h, l).line = l
        /\ NewLine(h, l).rmt = requester
        /\ NewLine(h, l).data = h.mem[l]
    BY <2>2, NewLineType
  <2>4. Sound(Now)' /\ View' = [View EXCEPT ![l] = View[l]]
    BY <2>1, <2>2, <2>3, MissEffect
  <2>5. View' = View
    BY <2>4, ViewIsFlat
  <2>6. reply' = Answer(l, o, View[l][o])
    BY <2>1, <2>2, <2>3
  <2>7. Inv'
    BY <1>0, <2>4, <2>6, AnswerIsFlat, InvOfSound
  <2>8. QED
    BY <2>5, <2>6, <2>7, AnswerIsFlat
<1>3. QED
  BY <1>1, <1>2 DEF Load

\* A store into a line that is in a slot.
LEMMA StoreHitEffect ==
    ASSUME Inv, NEW l \in Line, NEW o \in Offset, NEW v \in Value,
           OwnerOf[l] = requester, StoreHit(l, o, v)
    PROVE  /\ Sound(Now)'
           /\ View' = [View EXCEPT ![l][o] = v]
<1>1. PICK i \in Slot :
          /\ TagHit(l, i)
          /\ lines' = [lines EXCEPT ![i] = Stored(lines[i], o, v)]
          /\ rmt' = rmt /\ mem' = mem
  BY DEF StoreHit
<1> DEFINE n == Stored(lines[i], o, v)
<1>2. /\ Holds(lines, i, l) /\ lines[i] \in CacheLine
      /\ lines[i].rmt = requester /\ lines[i].line = l
      /\ View[l] = lines[i].data
  BY <1>1, TagHitView DEF Holds
<1>3. /\ n \in CacheLine /\ n.line = l /\ n.rmt = requester /\ n.dirty
      /\ n.data = [View[l] EXCEPT ![o] = v]
      /\ n # None /\ KeyOf(n) = KeyOf(lines[i])
  BY <1>2, StoredType, NewCacheAssumption DEF KeyOf
<1> HIDE DEF n
<1>4. /\ lines' \in [Slot -> CacheLine \cup {None}]
      /\ \A j \in Slot : lines'[j] = IF j = i THEN n ELSE lines[j]
  BY <1>1, <1>3 DEF Inv, TypeOK, n
<1>5. /\ lines \in [Slot -> CacheLine \cup {None}]
      /\ \A j \in Slot : lines[j] # None => lines[j].rmt = OwnerOf[lines[j].line]
      /\ \A k \in Keys, j \in Slot :
            rmt[k] = j <=> lines[j] # None /\ KeyOf(lines[j]) = k
      /\ \A j \in Slot : lines[j] # None /\ ~lines[j].dirty
            => lines[j].data = mem[lines[j].line]
      /\ rmt \in [Keys -> Slot \cup {None}] /\ mem \in [Line -> Data]
  BY DEF Inv, TypeOK, Sound, Owned, Exact, Backed, Now
<1>6. Sound(Now')
  <2>1. /\ Now'.lines = lines' /\ Now'.rmt = rmt /\ Now'.mem = mem
        /\ Now' \in State
    BY <1>1, <1>4, <1>5 DEF Now, State
  <2> DEFINE g == Now'
  <2> HIDE DEF g
  <2>2. Owned(g)
    BY <1>3, <1>4, <1>5, <2>1 DEF Owned, g
  <2>3. Exact(g)
    <3> SUFFICES ASSUME NEW k \in Keys, NEW j \in Slot
                 PROVE  rmt[k] = j <=> lines'[j] # None /\ KeyOf(lines'[j]) = k
      BY <2>1 DEF Exact, g
    <3>1. rmt[k] = j <=> lines[j] # None /\ KeyOf(lines[j]) = k
      BY <1>5
    <3>2. lines[i] # None
      BY <1>2 DEF Holds
    <3>3. QED
      BY <1>3, <1>4, <3>1, <3>2
  <2>4. Backed(g)
    BY <1>3, <1>4, <1>5, <2>1 DEF Backed, g
  <2>5. QED
    BY <2>1, <2>2, <2>3, <2>4 DEF Sound, g
<1>7. View' = ViewOf(Now') /\ View = ViewOf(Now)
  BY DEF View, ViewOf, Now
<1>8. ViewOf(Now')[l] = n.data
  <2>1. Holds(Now'.lines, i, l) /\ Now'.lines[i] = n
    BY <1>3, <1>4 DEF Holds, Now
  <2>2. QED
    BY <1>6, <2>1, ViewOfHeld
<1>9. ASSUME NEW m \in Line, m # l
      PROVE  ViewOf(Now')[m] = ViewOf(Now)[m]
  <2>1. ASSUME NEW j \in Slot
        PROVE  /\ Holds(Now'.lines, j, m) <=> Holds(Now.lines, j, m)
               /\ Holds(Now.lines, j, m) => Now'.lines[j] = Now.lines[j]
    BY <1>2, <1>3, <1>4, <1>9 DEF Holds, Now
  <2>2. ASSUME NEW j \in Slot, Holds(Now.lines, j, m)
        PROVE  ViewOf(Now')[m] = ViewOf(Now)[m]
    <3>1. ViewOf(Now)[m] = Now.lines[j].data
      BY <2>2, ViewIsFlat, ViewOfHeld
    <3>2. ViewOf(Now')[m] = Now'.lines[j].data
      BY <2>1, <2>2, <1>6, ViewOfHeld
    <3>3. QED
      BY <2>1, <2>2, <3>1, <3>2
  <2>3. CASE \A j \in Slot : ~Holds(Now.lines, j, m)
    <3>1. \A j \in Slot : ~Holds(Now'.lines, j, m)
      BY <2>1, <2>3
    <3>2. Now'.mem = Now.mem
      BY <1>1 DEF Now
    <3>3. QED
      BY <2>3, <3>1, <3>2, ViewOfAbsent
  <2>4. QED
    BY <2>2, <2>3
<1>10. View' = [View EXCEPT ![l][o] = v]
  <2>1. \A m \in Line : View'[m] = IF m = l THEN [View[l] EXCEPT ![o] = v] ELSE View[m]
    BY <1>3, <1>7, <1>8, <1>9
  <2>2. View' = [m \in Line |-> View'[m]] /\ View = [m \in Line |-> View[m]]
    BY DEF View
  <2>3. QED
    BY <2>1, <2>2
<1>11. QED
  BY <1>6, <1>10 DEF Sound, State, Owned, Exact, Backed, Now

\* A store, into a line of the cache or one read for it.
LEMMA StoreStep ==
    ASSUME Inv, NEW l \in Line, NEW o \in Offset, NEW v \in Value,
           OwnerOf[l] = requester, Store(l, o, v)
    PROVE  Inv' /\ Flat!Store(l, o, v)
<1>1. Sound(Now)' /\ View' = [View EXCEPT ![l][o] = v]
  <2>1. CASE StoreHit(l, o, v)
    BY <2>1, StoreHitEffect
  <2>2. CASE StoreMiss(l, o, v)
    <3>1. PICK h \in AfterRead(Looked(l), l), i \in Slot :
              /\ Placement(l, h, i)
              /\ Becomes(Install(h, i, Stored(NewLine(h, l), o, v)))
      BY <2>2 DEF StoreMiss
    <3>2. Sound(h) /\ h.mem[l] = View[l]
      BY <3>1, MissPlaces, ViewIsFlat
    <3> DEFINE n == Stored(NewLine(h, l), o, v)
    <3>3. /\ n \in CacheLine /\ n.line = l /\ n.rmt = requester /\ n.dirty
          /\ n.data = [View[l] EXCEPT ![o] = v]
      BY <3>2, NewLineType, StoredType
    <3>4. Becomes(Install(h, i, n))
      BY <3>1
    <3> HIDE DEF n
    <3>5. Sound(Now)' /\ View' = [View EXCEPT ![l] = n.data]
      BY <3>1, <3>3, <3>4, MissEffect
    <3>6. QED
      BY <3>3, <3>5
  <2>3. QED
    BY <2>1, <2>2 DEF Store
<1>2. requester' = requester /\ requester \in RmtId /\ reply' = [op |-> "none"]
  BY DEF Store, Inv, TypeOK
<1>3. Inv'
  BY <1>1, <1>2, InvOfSound DEF Replies
<1>4. QED
  BY <1>1, <1>2, <1>3 DEF Flat!Store, Flat!NoReply

\* An invalidation between two accesses is a stutter of the flat memory.
LEMMA InvalidateStep ==
    ASSUME Inv, NEW l \in Line, InvalidateLine(l)
    PROVE  Inv' /\ UNCHANGED <<View, reply>>
<1>1. Now' = Invalidated(Now, l) /\ requester' = requester /\ reply' = reply
  BY DEF InvalidateLine, Becomes, Now, Invalidated
<1>2. Sound(Now') /\ ViewOf(Now') = ViewOf(Now)
  BY <1>1, ViewIsFlat, InvalidatedSound
<1>3. View' = ViewOf(Now') /\ View = ViewOf(Now)
  BY DEF View, ViewOf, Now
<1>4. Sound(Now)'
  BY <1>2 DEF Sound, State, Owned, Exact, Backed, Now
<1>5. requester \in RmtId /\ reply \in Replies
  BY DEF Inv, TypeOK, Replies
<1>6. QED
  BY <1>1, <1>2, <1>3, <1>4, <1>5, InvOfSound

\* So is a change of requester, and a step that changes nothing.
LEMMA OtherStep ==
    ASSUME Inv, lines' = lines, rmt' = rmt, mem' = mem, reply' = reply,
           requester' \in RmtId
    PROVE  Inv' /\ UNCHANGED <<View, reply>>
<1>1. Sound(Now)' /\ View' = View
  BY DEF Inv, Sound, State, Owned, Exact, Backed, Now, View
<1>2. QED
  BY <1>1, InvOfSound DEF Inv, TypeOK, Replies

\* Every step keeps Inv and is a step, or a stutter, of the flat memory.
LEMMA NextStep == Inv /\ [Next]_vars => Inv' /\ [Flat!Next]_(Flat!vars)
<1> SUFFICES ASSUME Inv, [Next]_vars
             PROVE  Inv' /\ [Flat!Next]_(Flat!vars)
  OBVIOUS
<1>1. ASSUME NEW l \in Line, NEW o \in Offset, OwnerOf[l] = requester, Load(l, o)
      PROVE  Inv' /\ Flat!Next
  BY <1>1, LoadStep DEF Flat!Next
<1>2. ASSUME NEW l \in Line, NEW o \in Offset, NEW v \in Value,
             OwnerOf[l] = requester, Store(l, o, v)
      PROVE  Inv' /\ Flat!Next
  BY <1>2, StoreStep DEF Flat!Next
<1>3. ASSUME NEW l \in Line, InvalidateLine(l)
      PROVE  Inv' /\ UNCHANGED Flat!vars
  BY <1>3, InvalidateStep DEF Flat!vars
<1>4. ASSUME NEW id \in RmtId, SetRequester(id)
      PROVE  Inv' /\ UNCHANGED Flat!vars
  BY <1>4, OtherStep DEF SetRequester, Flat!vars
<1>5. CASE UNCHANGED vars
  <2>1. /\ lines' = lines /\ rmt' = rmt /\ mem' = mem /\ reply' = reply
        /\ requester' \in RmtId
    BY <1>5 DEF vars, Inv, TypeOK
  <2>2. QED
    BY <2>1, OtherStep DEF Flat!vars
<1>6. QED
  BY <1>1, <1>2, <1>3, <1>4, <1>5 DEF Next

\* Initially nothing is cached or mapped and the flat memory is zero.
LEMMA InitInv == Init => Inv /\ Flat!Init
<1> SUFFICES ASSUME Init PROVE Inv /\ Flat!Init
  OBVIOUS
<1>1. TypeOK
  BY NewCacheAssumption DEF Init, TypeOK, Data
<1>2. Sound(Now)
  <2>1. Now \in State
    BY <1>1 DEF TypeOK, Now, State
  <2>2. \A k \in Keys, i \in Slot : Now.lines[i] = None /\ Now.rmt[k] = None /\ i # None
    BY NewCacheAssumption DEF Init, Now
  <2>3. \A i \in Slot : Now.lines[i] = None
    BY DEF Init, Now
  <2>4. QED
    BY <2>1, <2>2, <2>3 DEF Sound, Owned, Exact, Backed
<1>3. \A l \in Line : {i \in Slot : Holds(lines, i, l)} = {}
  BY DEF Init, Holds
<1>4. Flat!Init
  BY <1>3 DEF Init, View, Flat!Init, Flat!ZeroLine, Flat!NoReply
<1>5. QED
  BY <1>1, <1>2, <1>4 DEF Inv

-----------------------------------------------------------------------------

\* The state is well formed, and every line sits under the id of its owner, is
\* mapped exactly, and is dirty where it differs from the memory behind.
THEOREM NewCacheInvariant == Spec => []Inv
<1>1. Inv /\ [Next]_vars => Inv'
  BY NextStep
<1>2. Init => Inv
  BY InitInv
<1>3. QED
  BY <1>1, <1>2, PTL DEF Spec

\* In particular the tables are the exact inverse of the slots, also when the
\* memory takes a line away in the middle of a miss (load_u8_internal,
\* install_line, remove_mapping, invalidate_line).
THEOREM NewCacheSafety == Spec => [](TypeOK /\ MappingIsExact /\ CleanIsBacked)
<1>1. Inv => TypeOK /\ MappingIsExact /\ CleanIsBacked
  BY DEF Inv, Sound, Exact, Backed, Now, MappingIsExact, CleanIsBacked
<1>2. QED
  BY <1>1, NewCacheInvariant, PTL

\* In particular slots hold lines tagged with their reader, and table entries
\* name slots.
THEOREM NewCacheTypes == Spec => []TypeOK
BY NewCacheSafety, PTL

\* NewCacheMemory over a flat memory that evicts implements a flat memory,
\* whichever slots it picks and whatever it is told to give up.
THEOREM NewCacheImplementsMemory == Spec => ImplementsMemory
<1>1. Init => Flat!Init
  BY InitInv
<1>2. Inv /\ [Next]_vars => [Flat!Next]_(Flat!vars)
  BY NextStep
<1>3. QED
  BY <1>1, <1>2, NewCacheInvariant, PTL DEF Spec, Flat!Spec, ImplementsMemory
=============================================================================
