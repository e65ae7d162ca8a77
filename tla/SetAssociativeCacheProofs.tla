--------------------- MODULE SetAssociativeCacheProofs ----------------------
(***************************************************************************)
(* SetAssociativeCache is well formed and transparent for every geometry,  *)
(* every set of lines and every set of values, and its replacement is LRU. *)
(***************************************************************************)
EXTENDS SetAssociativeCache, CacheArrayLemmas, FiniteSetTheorems

\* Initially nothing is cached and the memory is zero.
LEMMA InitInv == Init => Inv
<1> SUFFICES ASSUME Init PROVE Inv
  OBVIOUS
<1>1. TypeOK
  BY ZeroAssumption, GeometryAssumption
  DEF Init, TypeOK, NoLines, NoUses, Array, Ranks, Sets, Ways, Data
<1>2. WellPlaced
  BY SetIndexInSets DEF Init, WellPlaced, Placed, Unique, Holds, NoLines
<1>3. CleanIsBacked
  BY DEF Init, CleanIsBacked, NoLines
<1>4. QED
  BY <1>1, <1>2, <1>3 DEF Inv

\* What View says of a line that is cached.
LEMMA ViewOfCached ==
    ASSUME Inv, NEW l \in Line, NEW w \in Ways, Holds(cache, l, w)
    PROVE  View[l] = cache[SetIndex(l)][w].data
<1>1. Cached(cache, l) /\ CopyOf(cache, l) = cache[SetIndex(l)][w]
  BY CopyIsTheSlot DEF Inv, WellPlaced
<1>2. QED
  BY <1>1 DEF View

\* What View says of a line that is not cached.
LEMMA ViewOfUncached ==
    ASSUME NEW l \in Line, ~Cached(cache, l)
    PROVE  View[l] = mem[l]
BY DEF View

\* View is a flat memory.
LEMMA ViewType == Inv => View \in [Line -> Data]
<1> SUFFICES ASSUME Inv, NEW l \in Line PROVE View[l] \in Data
  BY DEF View
<1>1. CASE Cached(cache, l)
  <2>1. PICK w \in Ways : Holds(cache, l, w)
    BY <1>1 DEF Cached
  <2>2. cache[SetIndex(l)][w] \in CacheLine
    BY <2>1, SetIndexInSets DEF Inv, TypeOK, Array, Holds
  <2>3. QED
    BY <2>1, <2>2, ViewOfCached DEF CacheLine
<1>2. CASE ~Cached(cache, l)
  BY <1>2, ViewOfUncached DEF Inv, TypeOK
<1>3. QED
  BY <1>1, <1>2

\* What an eviction does to the memory: the line that was in the slot has its
\* cached data in the memory, and no other line changes.
LEMMA EvictEffect ==
    ASSUME Inv, NEW s \in Sets, NEW w \in Ways, Evict(s, w)
    PROVE  /\ mem' \in [Line -> Data]
           /\ cache[s][w] # None => mem'[cache[s][w].line] = cache[s][w].data
           /\ \A m \in Line :
                  cache[s][w] = None \/ m # cache[s][w].line => mem'[m] = mem[m]
<1>1. cache[s][w] \in CacheLine \cup {None} /\ mem \in [Line -> Data]
  BY DEF Inv, TypeOK, Array
<1>2. cache[s][w] # None /\ ~cache[s][w].dirty
        => cache[s][w].data = mem[cache[s][w].line]
  BY DEF Inv, CleanIsBacked
<1>3. QED
  BY <1>1, <1>2 DEF Evict, WriteBack, CacheLine

\* A miss: line n for l takes the slot of the victim.
LEMMA ReplaceEffect ==
    ASSUME Inv, NEW l \in Line, NEW w \in Ways, ~Cached(cache, l),
           Evict(SetIndex(l), w),
           NEW n \in CacheLine, n.line = l, ~n.dirty => n.data = mem'[l],
           cache' = Put(cache, l, w, n)
    PROVE  /\ cache' \in Array /\ mem' \in [Line -> Data]
           /\ WellPlaced' /\ CleanIsBacked'
           /\ mem'[l] = View[l]
           /\ View' = [View EXCEPT ![l] = n.data]
<1> DEFINE s == SetIndex(l)
           old == cache[s][w]
<1>0. s \in Sets /\ cache \in Array /\ Placed(cache) /\ Unique(cache)
  BY SetIndexInSets DEF Inv, TypeOK, WellPlaced
<1>1. /\ cache' \in Array
      /\ cache'[s][w] = n
      /\ \A t \in Sets, v \in Ways : <<t, v>> # <<s, w>> => cache'[t][v] = cache[t][v]
      /\ Holds(cache', l, w)
      /\ \A m \in Line, v \in Ways :
            m # l => (Holds(cache', m, v) <=>
                        Holds(cache, m, v) /\ <<SetIndex(m), v>> # <<s, w>>)
      /\ Placed(cache')
      /\ Unique(cache')
  BY <1>0, PutLine
<1>2. /\ mem' \in [Line -> Data]
      /\ old # None => mem'[old.line] = old.data
      /\ \A m \in Line : old = None \/ m # old.line => mem'[m] = mem[m]
  BY <1>0, EvictEffect
<1>3. old # None => old.line \in Line /\ old.line # l /\ Holds(cache, old.line, w)
  <2> SUFFICES ASSUME old # None
               PROVE  old.line \in Line /\ old.line # l /\ Holds(cache, old.line, w)
    OBVIOUS
  <2>1. old.line \in Line
    BY <1>0 DEF Array, CacheLine
  <2>2. SetIndex(old.line) = s
    BY <1>0 DEF Placed
  <2>3. QED
    BY <2>1, <2>2 DEF Holds, Cached
<1>4. CleanIsBacked'
  <2> SUFFICES ASSUME NEW t \in Sets, NEW v \in Ways,
                      cache'[t][v] # None, ~cache'[t][v].dirty
               PROVE  cache'[t][v].data = mem'[cache'[t][v].line]
    BY DEF CleanIsBacked
  <2>1. CASE <<t, v>> = <<s, w>>
    BY <2>1, <1>1
  <2>2. CASE <<t, v>> # <<s, w>>
    <3>1. cache'[t][v] = cache[t][v] /\ cache[t][v] \in CacheLine
      BY <2>2, <1>0, <1>1 DEF Array
    <3>2. cache[t][v].data = mem[cache[t][v].line] /\ cache[t][v].line \in Line
      BY <3>1 DEF Inv, CleanIsBacked, CacheLine
    <3>3. old # None => cache[t][v].line # old.line
      <4> SUFFICES ASSUME old # None, cache[t][v].line = old.line
                   PROVE  FALSE
        OBVIOUS
      <4>1. t = SetIndex(old.line) /\ s = SetIndex(old.line)
        BY <1>0, <3>1 DEF Placed
      <4>2. Holds(cache, old.line, v)
        BY <3>1, <4>1 DEF Holds
      <4>3. QED
        BY <4>1, <4>2, <1>3, <1>0, <2>2 DEF Unique
    <3>4. QED
      BY <3>1, <3>2, <3>3, <1>2
  <2>3. QED
    BY <2>1, <2>2
<1>5. mem'[l] = View[l]
  BY <1>2, <1>3, ViewOfUncached
<1>6. View' = [View EXCEPT ![l] = n.data]
  <2>1. View'[l] = n.data
    BY <1>1, CopyIsTheSlot DEF View
  <2>2. ASSUME NEW m \in Line, m # l
        PROVE  View'[m] = View[m]
    <3>1. CASE old # None /\ m = old.line
      <4>1. View[m] = old.data
        BY <3>1, <1>3, <1>0, ViewOfCached DEF Placed
      <4>2. ~Cached(cache', m)
        <5> SUFFICES ASSUME NEW v \in Ways, Holds(cache', m, v)
                     PROVE  FALSE
          BY DEF Cached
        <5>1. Holds(cache, m, v) /\ <<SetIndex(m), v>> # <<s, w>>
          BY <2>2, <1>1
        <5>2. v = w
          BY <5>1, <3>1, <1>3, <1>0 DEF Unique
        <5>3. SetIndex(m) = s
          BY <3>1, <1>0 DEF Placed
        <5>4. QED
          BY <5>1, <5>2, <5>3
      <4>3. QED
        BY <4>1, <4>2, <3>1, <1>2 DEF View
    <3>2. CASE (old = None \/ m # old.line) /\ Cached(cache, m)
      <4>1. PICK v \in Ways : Holds(cache, m, v)
        BY <3>2 DEF Cached
      <4>2. <<SetIndex(m), v>> # <<s, w>>
        BY <4>1, <3>2 DEF Holds
      <4>3. Holds(cache', m, v) /\ cache'[SetIndex(m)][v] = cache[SetIndex(m)][v]
        BY <4>1, <4>2, <2>2, <1>1, SetIndexInSets
      <4>4. View[m] = cache[SetIndex(m)][v].data
        BY <4>1, ViewOfCached
      <4>5. View'[m] = cache'[SetIndex(m)][v].data
        BY <4>3, <1>1, CopyIsTheSlot DEF View
      <4>6. QED
        BY <4>3, <4>4, <4>5
    <3>3. CASE (old = None \/ m # old.line) /\ ~Cached(cache, m)
      <4>1. ~Cached(cache', m)
        BY <3>3, <2>2, <1>1 DEF Cached
      <4>2. QED
        BY <4>1, <3>3, <1>2 DEF View
    <3>4. QED
      BY <3>1, <3>2, <3>3
  <2>3. QED
    BY <2>1, <2>2 DEF View
<1>7. QED
  BY <1>1, <1>2, <1>4, <1>5, <1>6 DEF WellPlaced

\* An invalidation: line l leaves the cache.
LEMMA InvalidateEffect ==
    ASSUME Inv, NEW l \in Line, NEW w \in Ways, Holds(cache, l, w),
           Evict(SetIndex(l), w), cache' = Drop(cache, l, w)
    PROVE  /\ cache' \in Array /\ mem' \in [Line -> Data]
           /\ WellPlaced' /\ CleanIsBacked'
           /\ View' = View
<1> DEFINE s == SetIndex(l)
<1>0. /\ s \in Sets /\ cache \in Array /\ Placed(cache) /\ Unique(cache)
      /\ cache[s][w] # None /\ cache[s][w].line = l
  BY SetIndexInSets DEF Inv, TypeOK, WellPlaced, Holds
<1>1. /\ cache' \in Array
      /\ cache'[s][w] = None
      /\ \A t \in Sets, v \in Ways : <<t, v>> # <<s, w>> => cache'[t][v] = cache[t][v]
      /\ ~Cached(cache', l)
      /\ \A m \in Line, v \in Ways :
            m # l => (Holds(cache', m, v) <=> Holds(cache, m, v))
      /\ Placed(cache')
      /\ Unique(cache')
  BY <1>0, DropLine
<1>2. /\ mem' \in [Line -> Data]
      /\ mem'[l] = cache[s][w].data
      /\ \A m \in Line : m # l => mem'[m] = mem[m]
  BY <1>0, EvictEffect
<1>3. CleanIsBacked'
  <2> SUFFICES ASSUME NEW t \in Sets, NEW v \in Ways,
                      cache'[t][v] # None, ~cache'[t][v].dirty
               PROVE  cache'[t][v].data = mem'[cache'[t][v].line]
    BY DEF CleanIsBacked
  <2>1. cache'[t][v] = cache[t][v] /\ cache[t][v] \in CacheLine
    BY <1>0, <1>1 DEF Array
  <2>2. cache[t][v].data = mem[cache[t][v].line] /\ cache[t][v].line \in Line
    BY <2>1 DEF Inv, CleanIsBacked, CacheLine
  <2>3. cache[t][v].line # l
    <3> SUFFICES ASSUME cache[t][v].line = l
                 PROVE  FALSE
      OBVIOUS
    <3>1. t = s
      BY <1>0, <2>1 DEF Placed
    <3>2. Holds(cache', l, v)
      BY <2>1, <3>1 DEF Holds
    <3>3. QED
      BY <3>2, <1>1 DEF Cached
  <2>4. QED
    BY <2>1, <2>2, <2>3, <1>2
<1>4. View' = View
  <2> SUFFICES ASSUME NEW m \in Line PROVE View'[m] = View[m]
    BY DEF View
  <2>1. CASE m = l
    BY <2>1, <1>1, <1>2, ViewOfCached DEF View
  <2>2. CASE m # l /\ Cached(cache, m)
    <3>1. PICK v \in Ways : Holds(cache, m, v)
      BY <2>2 DEF Cached
    <3>2. Holds(cache', m, v)
      BY <3>1, <2>2, <1>1
    <3>3. <<SetIndex(m), v>> # <<s, w>>
      BY <3>2, <1>1 DEF Holds
    <3>4. cache'[SetIndex(m)][v] = cache[SetIndex(m)][v]
      BY <3>3, <1>1, SetIndexInSets
    <3>5. View[m] = cache[SetIndex(m)][v].data
      BY <3>1, ViewOfCached
    <3>6. View'[m] = cache'[SetIndex(m)][v].data
      BY <3>2, <1>1, CopyIsTheSlot DEF View
    <3>7. QED
      BY <3>4, <3>5, <3>6
  <2>3. CASE m # l /\ ~Cached(cache, m)
    <3>1. ~Cached(cache', m)
      BY <2>3, <1>1 DEF Cached
    <3>2. QED
      BY <2>3, <3>1, <1>2 DEF View
  <2>4. QED
    BY <2>1, <2>2, <2>3
<1>5. QED
  BY <1>1, <1>2, <1>3, <1>4 DEF WellPlaced

-----------------------------------------------------------------------------
(* The calls: each keeps Inv and is a step of the flat memory.             *)

\* The answer of a load is well typed, and it is the flat memory's.
LEMMA AnswerIsFlat ==
    ASSUME Inv, NEW l \in Line, NEW o \in Offset,
           reply' = Answer(l, o, View[l][o])
    PROVE  /\ reply' \in [op : {"none"}]
                \cup [op : {"load"}, line : Line, off : Offset, val : Value]
           /\ View' = View => Flat!Load(l, o)
<1>1. View[l][o] \in Value
  BY ViewType DEF Data
<1>2. QED
  BY <1>1 DEF Answer, Flat!Load, Flat!LoadReply

\* A line read back from the memory is a clean cache line.
LEMMA RefillType ==
    ASSUME NEW l \in Line, mem' \in [Line -> Data]
    PROVE  /\ Refill(l) \in CacheLine
           /\ Refill(l).line = l
           /\ Refill(l).data = mem'[l]
           /\ ~Refill(l).dirty
BY DEF Refill, NewLine, CacheLine

\* A line with one byte stored is a dirty cache line.
LEMMA StoredType ==
    ASSUME NEW n \in CacheLine, NEW o \in Offset, NEW v \in Value
    PROVE  /\ Stored(n, o, v) \in CacheLine
           /\ Stored(n, o, v).line = n.line
           /\ Stored(n, o, v).data = [n.data EXCEPT ![o] = v]
           /\ Stored(n, o, v).dirty
BY DEF Stored, CacheLine, Data

\* A load, served by the cache or by the memory.
LEMMA LoadStep ==
    ASSUME Inv, NEW l \in Line, NEW o \in Offset, Load(l, o)
    PROVE  Inv' /\ Flat!Load(l, o)
<1>1. CASE LoadHit(l, o)
  <2>1. PICK w \in Ways :
            /\ Holds(cache, l, w)
            /\ rank' = Touch(rank, SetIndex(l), w)
            /\ reply' = Answer(l, o, cache[SetIndex(l)][w].data[o])
            /\ cache' = cache /\ mem' = mem
    BY <1>1 DEF LoadHit, HitWay
  <2>2. reply' = Answer(l, o, View[l][o])
    BY <2>1, ViewOfCached
  <2>3. View' = View
    BY <2>1 DEF View
  <2>4. rank' \in Ranks
    BY <2>1, TouchInRanks, SetIndexInSets DEF Inv, TypeOK
  <2>5. Inv'
    BY <2>1, <2>2, <2>4, AnswerIsFlat
    DEF Inv, TypeOK, WellPlaced, CleanIsBacked
  <2>6. QED
    BY <2>2, <2>3, <2>5, AnswerIsFlat
<1>2. CASE LoadMiss(l, o)
  <2>1. PICK w \in Ways :
            /\ ~Cached(cache, l)
            /\ Evict(SetIndex(l), w)
            /\ cache' = Put(cache, l, w, Refill(l))
            /\ rank' = Touch(rank, SetIndex(l), w)
            /\ reply' = Answer(l, o, Refill(l).data[o])
    BY <1>2 DEF LoadMiss
  <2>2. /\ Refill(l) \in CacheLine
        /\ Refill(l).line = l
        /\ Refill(l).data = mem'[l]
    BY <2>1, EvictEffect, SetIndexInSets, RefillType
  <2>3. /\ cache' \in Array /\ mem' \in [Line -> Data]
        /\ WellPlaced' /\ CleanIsBacked'
        /\ mem'[l] = View[l]
        /\ View' = [View EXCEPT ![l] = mem'[l]]
    BY <2>1, <2>2, ReplaceEffect
  <2>4. View' = View
    BY <2>3, ViewType
  <2>5. reply' = Answer(l, o, View[l][o])
    BY <2>1, <2>2, <2>3
  <2>6. rank' \in Ranks
    BY <2>1, TouchInRanks, SetIndexInSets DEF Inv, TypeOK
  <2>7. Inv'
    BY <2>3, <2>5, <2>6, AnswerIsFlat DEF Inv, TypeOK
  <2>8. QED
    BY <2>4, <2>5, <2>7, AnswerIsFlat
<1>3. QED
  BY <1>1, <1>2 DEF Load

\* A store, into a line of the cache or one read for it.
LEMMA StoreStep ==
    ASSUME Inv, NEW l \in Line, NEW o \in Offset, NEW v \in Value, Store(l, o, v)
    PROVE  Inv' /\ Flat!Store(l, o, v)
<1>1. CASE StoreHit(l, o, v)
  <2>1. PICK w \in Ways :
            /\ Holds(cache, l, w)
            /\ cache' = Put(cache, l, w, Stored(cache[SetIndex(l)][w], o, v))
            /\ rank' = Touch(rank, SetIndex(l), w)
            /\ mem' = mem
    BY <1>1 DEF StoreHit, HitWay
  <2> DEFINE old == cache[SetIndex(l)][w]
             n == Stored(old, o, v)
  <2>2. old \in CacheLine /\ old.line = l /\ View[l] = old.data
    BY <2>1, SetIndexInSets, ViewOfCached DEF Inv, TypeOK, Array, Holds
  <2>3. /\ n \in CacheLine /\ n.line = l /\ n.dirty
        /\ n.data = [View[l] EXCEPT ![o] = v]
    BY <2>2, StoredType
  <2>4. /\ cache' \in Array
        /\ cache'[SetIndex(l)][w] = n
        /\ \A s \in Sets, u \in Ways :
              <<s, u>> # <<SetIndex(l), w>> => cache'[s][u] = cache[s][u]
        /\ Holds(cache', l, w)
        /\ \A m \in Line, u \in Ways :
              m # l => (Holds(cache', m, u) <=>
                          Holds(cache, m, u) /\ <<SetIndex(m), u>> # <<SetIndex(l), w>>)
        /\ Placed(cache') /\ Unique(cache')
    BY <2>1, <2>3, PutLine DEF Inv, TypeOK, WellPlaced
  <2>5. CleanIsBacked'
    <3> SUFFICES ASSUME NEW s \in Sets, NEW u \in Ways,
                        cache'[s][u] # None, ~cache'[s][u].dirty
                 PROVE  cache'[s][u].data = mem'[cache'[s][u].line]
      BY DEF CleanIsBacked
    <3>1. <<s, u>> # <<SetIndex(l), w>>
      BY <2>3, <2>4
    <3>2. QED
      BY <3>1, <2>1, <2>4 DEF Inv, CleanIsBacked
  <2>6. View'[l] = n.data
    BY <2>4, CopyIsTheSlot DEF View
  <2>7. ASSUME NEW m \in Line, m # l
        PROVE  View'[m] = View[m]
    <3>1. ASSUME NEW u \in Ways, Holds(cache, m, u)
          PROVE  Holds(cache', m, u) /\ cache'[SetIndex(m)][u] = cache[SetIndex(m)][u]
      <4>1. <<SetIndex(m), u>> # <<SetIndex(l), w>>
        BY <3>1, <2>7, <2>2 DEF Holds
      <4>2. QED
        BY <3>1, <4>1, <2>4, <2>7, SetIndexInSets
    <3>2. CASE Cached(cache, m)
      <4>1. PICK u \in Ways : Holds(cache, m, u)
        BY <3>2 DEF Cached
      <4>2. View[m] = cache[SetIndex(m)][u].data
        BY <4>1, ViewOfCached
      <4>3. View'[m] = cache'[SetIndex(m)][u].data
        BY <4>1, <3>1, <2>4, CopyIsTheSlot DEF View
      <4>4. QED
        BY <4>1, <4>2, <4>3, <3>1
    <3>3. CASE ~Cached(cache, m)
      BY <3>3, <2>1, <2>4, <2>7 DEF View, Cached
    <3>4. QED
      BY <3>2, <3>3
  <2>8. View' = [View EXCEPT ![l][o] = v]
    BY <2>3, <2>6, <2>7 DEF View
  <2>9. rank' \in Ranks
    BY <2>1, TouchInRanks, SetIndexInSets DEF Inv, TypeOK
  <2>10. reply' = [op |-> "none"]
    BY DEF Store
  <2>11. Inv'
    BY <2>1, <2>4, <2>5, <2>9, <2>10 DEF Inv, TypeOK, WellPlaced
  <2>12. QED
    BY <2>8, <2>10, <2>11 DEF Flat!Store, Flat!NoReply
<1>2. CASE StoreMiss(l, o, v)
  <2>1. PICK w \in Ways :
            /\ ~Cached(cache, l)
            /\ Evict(SetIndex(l), w)
            /\ cache' = Put(cache, l, w, Stored(Refill(l), o, v))
            /\ rank' = Touch(rank, SetIndex(l), w)
    BY <1>2 DEF StoreMiss
  <2> DEFINE n == Stored(Refill(l), o, v)
  <2>2. /\ n \in CacheLine /\ n.line = l /\ n.dirty
        /\ n.data = [mem'[l] EXCEPT ![o] = v]
    BY <2>1, EvictEffect, SetIndexInSets, RefillType, StoredType
  <2>3. /\ cache' \in Array /\ mem' \in [Line -> Data]
        /\ WellPlaced' /\ CleanIsBacked'
        /\ mem'[l] = View[l]
        /\ View' = [View EXCEPT ![l] = n.data]
    BY <2>1, <2>2, ReplaceEffect
  <2>4. View' = [View EXCEPT ![l][o] = v]
    BY <2>2, <2>3
  <2>5. rank' \in Ranks
    BY <2>1, TouchInRanks, SetIndexInSets DEF Inv, TypeOK
  <2>6. reply' = [op |-> "none"]
    BY DEF Store
  <2>7. Inv'
    BY <2>3, <2>5, <2>6 DEF Inv, TypeOK
  <2>8. QED
    BY <2>4, <2>6, <2>7 DEF Flat!Store, Flat!NoReply
<1>3. QED
  BY <1>1, <1>2 DEF Store

\* An invalidation is a stutter of the flat memory.
LEMMA InvalidateStep ==
    ASSUME Inv, NEW l \in Line, InvalidateLine(l)
    PROVE  Inv' /\ UNCHANGED <<View, reply>>
<1>1. PICK w \in Ways :
          /\ Holds(cache, l, w)
          /\ Evict(SetIndex(l), w)
          /\ cache' = Drop(cache, l, w)
          /\ rank' = rank /\ reply' = reply
  BY DEF InvalidateLine, HitWay
<1>2. /\ cache' \in Array /\ mem' \in [Line -> Data]
      /\ WellPlaced' /\ CleanIsBacked'
      /\ View' = View
  BY <1>1, InvalidateEffect
<1>3. QED
  BY <1>1, <1>2 DEF Inv, TypeOK

\* Every step keeps Inv and is a step, or a stutter, of the flat memory.
LEMMA NextStep == Inv /\ [Next]_vars => Inv' /\ [Flat!Next]_(Flat!vars)
<1> SUFFICES ASSUME Inv, [Next]_vars
             PROVE  Inv' /\ [Flat!Next]_(Flat!vars)
  OBVIOUS
<1>1. ASSUME NEW l \in Line, NEW o \in Offset, Load(l, o)
      PROVE  Inv' /\ Flat!Next
  BY <1>1, LoadStep DEF Flat!Next
<1>2. ASSUME NEW l \in Line, NEW o \in Offset, NEW v \in Value, Store(l, o, v)
      PROVE  Inv' /\ Flat!Next
  BY <1>2, StoreStep DEF Flat!Next
<1>3. ASSUME NEW l \in Line, InvalidateLine(l)
      PROVE  Inv' /\ UNCHANGED Flat!vars
  BY <1>3, InvalidateStep DEF Flat!vars
<1>4. CASE UNCHANGED vars
  BY <1>4 DEF vars, Inv, TypeOK, WellPlaced, CleanIsBacked, Flat!vars, View
<1>5. QED
  BY <1>1, <1>2, <1>3, <1>4 DEF Next

-----------------------------------------------------------------------------

\* The cache is well formed in every reachable state: types, at most one copy
\* of a line and in its own set, and clean lines equal to the backing memory
\* (load_u8_internal, store_u8_internal, invalidate_line).
THEOREM CacheInvariant == Spec => []Inv
<1>1. Inv /\ [Next]_vars => Inv'
  BY NextStep
<1>2. QED
  BY InitInv, <1>1, PTL DEF Spec

\* In particular types, placement and the meaning of the dirty flag, each as
\* the runs check it.
THEOREM CacheSafety == Spec => [](TypeOK /\ WellPlaced /\ CleanIsBacked)
BY CacheInvariant, PTL DEF Inv

\* SetAssociativeCache over a flat memory implements a flat memory, whatever
\* it evicts and whatever it is told to invalidate between two calls.
THEOREM CacheImplementsMemory == Spec => ImplementsMemory
<1>1. Init => Flat!Init
  <2> SUFFICES ASSUME Init PROVE Flat!Init
    OBVIOUS
  <2>1. \A l \in Line : ~Cached(cache, l)
    BY SetIndexInSets DEF Init, Cached, Holds, NoLines
  <2>2. QED
    BY <2>1 DEF Init, View, Flat!Init, Flat!ZeroLine, Flat!NoReply
<1>2. Inv /\ [Next]_vars => [Flat!Next]_(Flat!vars)
  BY NextStep
<1>3. QED
  BY <1>1, <1>2, CacheInvariant, PTL DEF Spec, Flat!Spec, ImplementsMemory

-----------------------------------------------------------------------------
(* Replacement: the ranks of the ways give the order of the last uses of   *)
(* the lines in them, and the victim is the oldest.                        *)

\* The lines of a set are as many as its ways exactly when no way is empty.
LEMMA FullSet ==
    ASSUME Inv, NEW l \in Line
    PROVE  Lru!Cardinality(Lru!Peers(l)) = Assoc
              <=> \A v \in Ways : cache[SetIndex(l)][v] # None
<1> DEFINE s == SetIndex(l)
           P == {m \in Line : Cached(cache, m) /\ SetIndex(m) = s}
           f == [m \in P |-> CHOOSE w \in Ways : Holds(cache, m, w)]
<1>0. s \in Sets /\ cache \in Array /\ Placed(cache) /\ Unique(cache)
  BY SetIndexInSets DEF Inv, TypeOK, WellPlaced
<1>1. \A m \in P : f[m] \in Ways /\ Holds(cache, m, f[m])
  BY DEF Cached
<1>2. ASSUME NEW W \in SUBSET Ways, \A m \in P : f[m] \in W
      PROVE  f \in Injection(P, W)
  <2>1. f \in [P -> W]
    BY <1>2
  <2>2. ASSUME NEW m \in P, NEW n \in P, f[m] = f[n]
        PROVE  m = n
    <3>1. Holds(cache, m, f[m]) /\ Holds(cache, n, f[m])
      BY <1>1, <2>2
    <3>2. SetIndex(m) = s /\ SetIndex(n) = s
      OBVIOUS
    <3> HIDE DEF f, P, s
    <3>3. QED
      BY <3>1, <3>2 DEF Holds
  <2>3. QED
    BY <2>1, <2>2 DEF Injection, IsInjective
<1>3. IsFiniteSet(Ways) /\ Cardinality(Ways) = Assoc
  BY FS_Interval, GeometryAssumption DEF Ways
<1>4. CASE \A v \in Ways : cache[s][v] # None
  <2>1. \A w \in Ways : \E m \in P : f[m] = w
    <3> SUFFICES ASSUME NEW w \in Ways PROVE \E m \in P : f[m] = w
      OBVIOUS
    <3> DEFINE m == cache[s][w].line
    <3>1. m \in Line
      BY <1>0, <1>4 DEF Array, CacheLine
    <3>2. SetIndex(m) = s
      BY <1>0, <1>4 DEF Placed
    <3>3. Holds(cache, m, w)
      BY <3>2, <1>4 DEF Holds
    <3>4. m \in P
      BY <3>1, <3>2, <3>3 DEF Cached
    <3>5. f[m] = w
      BY <3>4, <3>1, <3>3, <1>0, <1>1 DEF Unique
    <3>6. QED
      BY <3>4, <3>5
  <2>2. f \in Injection(P, Ways)
    BY <1>1, <1>2
  <2>3. f \in Surjection(P, Ways)
    BY <2>1, <2>2 DEF Injection, Surjection
  <2> HIDE DEF f, P
  <2>4. Cardinality(P) = Assoc
    BY <2>2, <2>3, <1>3, FS_Injection
  <2>5. QED
    BY <2>4, <1>4 DEF P, Lru!Peers, SetIndex, Lru!Cardinality, Cardinality
<1>5. CASE ~\A v \in Ways : cache[s][v] # None
  <2>1. PICK v \in Ways : cache[s][v] = None
    BY <1>5
  <2>2. \A m \in P : f[m] \in Ways \ {v}
    BY <1>1, <2>1 DEF Holds
  <2>3. f \in Injection(P, Ways \ {v})
    BY <2>2, <1>2
  <2> HIDE DEF f, P
  <2>4. IsFiniteSet(Ways \ {v}) /\ Cardinality(Ways \ {v}) = Assoc - 1
    BY <1>3, FS_RemoveElement
  <2>5. IsFiniteSet(P) /\ Cardinality(P) <= Assoc - 1
    BY <2>3, <2>4, FS_Injection
  <2>6. Cardinality(P) # Assoc
    BY <2>5, FS_CardinalityType, GeometryAssumption
  <2>7. QED
    BY <2>6, <1>5 DEF P, Lru!Peers, SetIndex, Lru!Cardinality, Cardinality
<1>6. QED
  BY <1>4, <1>5

\* The line that gives way is the one in the way the cache picks.
LEMMA DisplacedIsTheVictims ==
    ASSUME Inv, Ordered(rank), NEW l \in Line, NEW w \in Ways,
           \/ Holds(cache, l, w)
           \/ ~Cached(cache, l) /\ Victim(cache, rank, SetIndex(l), w)
    PROVE  \A m \in Line \ {l} :
              m \in Lru!Displaced(l) <=> Holds(cache, m, w) /\ SetIndex(m) = SetIndex(l)
<1> DEFINE s == SetIndex(l)
           P == {m \in Line : Cached(cache, m) /\ SetIndex(m) = s}
<1>0. s \in Sets /\ cache \in Array /\ Placed(cache) /\ Unique(cache) /\ rank \in Ranks
  BY SetIndexInSets DEF Inv, TypeOK, WellPlaced
<1>1. Lru!Peers(l) = P
  BY DEF Lru!Peers, SetIndex
<1>2. CASE Holds(cache, l, w)
  <2>1. Lru!Displaced(l) = {}
    BY <1>2 DEF Lru!Displaced, Cached
  <2>2. QED
    BY <2>1, <1>2 DEF Holds
<1>3. CASE ~Cached(cache, l) /\ FirstEmpty(cache, s, w)
  <2>1. cache[s][w] = None
    BY <1>3 DEF FirstEmpty
  <2>2. Lru!Cardinality(Lru!Peers(l)) # Assoc
    BY <2>1, FullSet
  <2>3. Lru!Displaced(l) = {}
    BY <2>2 DEF Lru!Displaced
  <2>4. QED
    BY <2>1, <2>3 DEF Holds
<1>4. CASE ~Cached(cache, l) /\ LeastRecent(cache, rank, s, w)
  <2>1. /\ \A v \in Ways : cache[s][v] # None
        /\ \A v \in Ways : rank[s][w] <= rank[s][v]
    BY <1>4 DEF LeastRecent
  <2>2. Lru!Cardinality(Lru!Peers(l)) = Assoc
    BY <2>1, FullSet
  <2>3. Lru!Displaced(l) = Lru!Oldest(l)
    BY <2>2, <1>4 DEF Lru!Displaced
  <2>4. \A m \in Line :
          m \in Lru!Oldest(l) <=> m \in P /\ \A n \in P \ {m} : Before(m, n)
    BY <1>1 DEF Lru!Oldest
  <2>5. ASSUME NEW m \in Line, Holds(cache, m, w), SetIndex(m) = s
        PROVE  m \in Lru!Oldest(l)
    <3>1. m \in P
      BY <2>5 DEF Cached
    <3>2. ASSUME NEW n \in P \ {m} PROVE Before(m, n)
      <4>1. PICK v \in Ways : Holds(cache, n, v)
        BY DEF Cached
      <4>2. SetIndex(n) = s
        OBVIOUS
      <4>3. v # w
        BY <4>1, <4>2, <2>5 DEF Holds
      <4>4. rank[s][w] # rank[s][v] /\ rank[s][w] <= rank[s][v]
        BY <4>3, <2>1, <1>0 DEF Ordered
      <4>5. rank[s][w] \in Ways /\ rank[s][v] \in Ways
        BY <1>0 DEF Ranks
      <4>6. rank[s][w] < rank[s][v]
        BY <4>4, <4>5 DEF Ways
      <4>7. QED
        BY <4>1, <4>2, <4>6, <2>5 DEF Before
    <3>3. QED
      BY <3>1, <3>2, <2>4
  <2>6. ASSUME NEW m \in Line, m \in Lru!Oldest(l)
        PROVE  Holds(cache, m, w) /\ SetIndex(m) = s
    <3>1. m \in P /\ \A n \in P \ {m} : Before(m, n)
      BY <2>4, <2>6
    <3> DEFINE n == cache[s][w].line
    <3>2. n \in Line /\ SetIndex(n) = s
      BY <2>1, <1>0 DEF Array, CacheLine, Placed
    <3>3. Holds(cache, n, w)
      BY <3>2, <2>1 DEF Holds
    <3>4. n \in P
      BY <3>2, <3>3 DEF Cached
    <3> HIDE DEF n
    <3>5. ASSUME n # m PROVE FALSE
      <4>1. Before(m, n)
        BY <3>1, <3>4, <3>5
      <4>2. PICK v \in Ways, u \in Ways :
                Holds(cache, n, u) /\ rank[s][v] < rank[s][u]
        BY <4>1, <3>2 DEF Before
      <4>3. u = w
        BY <4>2, <3>2, <3>3, <1>0 DEF Unique
      <4>4. rank[s][v] < rank[s][w] /\ rank[s][w] <= rank[s][v]
        BY <4>2, <4>3, <2>1
      <4>5. rank[s][w] \in Ways /\ rank[s][v] \in Ways
        BY <1>0 DEF Ranks
      <4>6. QED
        BY <4>4, <4>5 DEF Ways
    <3>6. QED
      BY <3>2, <3>3, <3>5
  <2>7. QED
    BY <2>3, <2>5, <2>6
<1>5. QED
  BY <1>2, <1>3, <1>4 DEF Victim

\* After an access to line l the cache holds l in way w, and every other line
\* it held but the one that was in that way.
AccessTo(l, w) ==
    /\ rank' = Touch(rank, SetIndex(l), w)
    /\ \A m \in Line, v \in Ways :
          Holds(cache', m, v)
            <=> \/ m = l /\ v = w
                \/ /\ m # l
                   /\ Holds(cache, m, v)
                   /\ <<SetIndex(m), v>> # <<SetIndex(l), w>>

\* An access leaves the lines and the order an LRU access leaves.
LEMMA AccessOrder ==
    ASSUME Inv, Ordered(rank), NEW l \in Line, NEW w \in Ways, AccessTo(l, w),
           \/ Holds(cache, l, w)
           \/ ~Cached(cache, l) /\ Victim(cache, rank, SetIndex(l), w)
    PROVE  Ordered(rank)' /\ Lru!Access(l)
<1> DEFINE s == SetIndex(l)
           lines == {m \in Line : Cached(cache, m)}
           kept == lines \ (Lru!Displaced(l) \cup {l})
<1>0. s \in Sets /\ cache \in Array /\ Placed(cache) /\ Unique(cache) /\ rank \in Ranks
  BY SetIndexInSets DEF Inv, TypeOK, WellPlaced
<1>1. /\ Ordered(rank')
      /\ rank' \in Ranks
      /\ \A u \in Ways : u # w => rank'[s][u] < rank'[s][w]
      /\ \A t \in Sets, u, v \in Ways :
            t # s \/ (u # w /\ v # w)
                => (rank'[t][u] < rank'[t][v] <=> rank[t][u] < rank[t][v])
  BY <1>0, TouchOrder DEF AccessTo
<1>2. \A m \in Line \ {l} :
          m \in Lru!Displaced(l) <=> Holds(cache, m, w) /\ SetIndex(m) = s
  BY DisplacedIsTheVictims
<1>3. ASSUME NEW m \in kept, NEW v \in Ways
      PROVE  /\ Holds(cache', m, v) <=> Holds(cache, m, v)
             /\ Holds(cache', m, v) => <<SetIndex(m), v>> # <<s, w>>
  BY <1>2 DEF AccessTo
<1>4. ASSUME NEW m \in Line, m # l, Cached(cache', m)
      PROVE  m \in kept
  <2>1. PICK v \in Ways : Holds(cache', m, v)
    BY <1>4 DEF Cached
  <2>2. Holds(cache, m, v) /\ <<SetIndex(m), v>> # <<s, w>>
    BY <2>1, <1>4 DEF AccessTo
  <2>3. ~(Holds(cache, m, w) /\ SetIndex(m) = s)
    BY <2>2, <1>0 DEF Unique
  <2>4. m \in lines
    BY <2>2 DEF Cached
  <2>5. QED
    BY <2>3, <2>4, <1>2, <1>4
<1>5. \A m \in kept : m \in Line /\ m # l /\ Cached(cache, m) /\ Cached(cache', m)
  BY <1>3 DEF Cached
<1>6. Cached(cache', l) /\ \A v \in Ways : Holds(cache', l, v) <=> v = w
  BY DEF AccessTo, Cached
<1>7. {m \in Line : Cached(cache', m)} = kept \cup {l}
  BY <1>4, <1>5, <1>6
<1>8. \A m \in kept : m \in Lru!Peers(l) <=> SetIndex(m) = s
  BY <1>5 DEF Lru!Peers, SetIndex
<1> HIDE DEF kept, lines
<1>9. ASSUME NEW m \in Line, NEW n \in Line
      PROVE  Before(m, n)'
                <=> \/ m \in kept /\ n \in kept /\ Before(m, n)
                    \/ m \in kept /\ SetIndex(m) = s /\ n = l
  <2>1. Before(m, n)' <=>
          /\ SetIndex(m) = SetIndex(n)
          /\ \E v, u \in Ways :
              /\ Holds(cache', m, v) /\ Holds(cache', n, u)
              /\ rank'[SetIndex(m)][v] < rank'[SetIndex(m)][u]
    BY DEF Before, Holds, SetIndex
  <2>2. \A v \in Ways : rank'[s][v] \in Ways
    BY <1>0, <1>1 DEF Ranks
  <2>3. \A v, u \in Ways : rank'[s][v] < rank'[s][u] => ~(rank'[s][u] < rank'[s][v])
    BY <2>2 DEF Ways
  <2>4. CASE m \in kept /\ n \in kept
    <3>1. SetIndex(m) \in Sets /\ n # l /\ m # l
      BY <2>4, <1>5, SetIndexInSets
    <3>2. ASSUME NEW v \in Ways, NEW u \in Ways, SetIndex(m) = SetIndex(n)
          PROVE  (/\ Holds(cache', m, v) /\ Holds(cache', n, u)
                  /\ rank'[SetIndex(m)][v] < rank'[SetIndex(m)][u])
                 <=> (/\ Holds(cache, m, v) /\ Holds(cache, n, u)
                      /\ rank[SetIndex(m)][v] < rank[SetIndex(m)][u])
      BY <3>1, <3>2, <2>4, <1>1, <1>3
    <3>3. Before(m, n)' <=> Before(m, n)
      BY <3>2, <2>1 DEF Before
    <3>4. QED
      BY <2>4, <3>1, <3>3
  <2>5. CASE m \in kept /\ n = l
    <3>1. l \notin kept
      BY <1>5
    <3>2. ASSUME SetIndex(m) = s PROVE Before(m, n)'
      <4>1. PICK v \in Ways : Holds(cache', m, v)
        BY <2>5, <1>5 DEF Cached
      <4>2. v # w
        BY <4>1, <3>2, <2>5, <1>3
      <4>3. rank'[s][v] < rank'[s][w] /\ Holds(cache', l, w)
        BY <4>2, <1>1, <1>6
      <4>4. QED
        BY <4>1, <4>3, <3>2, <2>1, <2>5
    <3>3. Before(m, n)' => SetIndex(m) = s
      BY <2>1, <2>5
    <3>4. QED
      BY <3>1, <3>2, <3>3, <2>5
  <2>6. CASE m = l
    <3>1. m \notin kept
      BY <2>6, <1>5
    <3>2. ASSUME Before(m, n)' PROVE FALSE
      <4>1. PICK v \in Ways, u \in Ways :
                /\ Holds(cache', m, v) /\ Holds(cache', n, u)
                /\ rank'[s][v] < rank'[s][u]
        BY <3>2, <2>1, <2>6
      <4>2. v = w
        BY <4>1, <2>6, <1>6
      <4>3. QED
        BY <4>1, <4>2, <2>3, <1>1
    <3>3. QED
      BY <3>1, <3>2
  <2>7. CASE m # l /\ m \notin kept
    BY <2>7, <2>1, <1>4 DEF Cached
  <2>8. CASE n # l /\ n \notin kept
    BY <2>8, <2>1, <1>4 DEF Cached
  <2>9. QED
    BY <2>4, <2>5, <2>6, <2>7, <2>8
<1>10. {p \in Line \X Line : Before(p[1], p[2])'}
        = Lru!Keep(kept) \cup ((kept \cap Lru!Peers(l)) \X {l})
  <2>1. \A m \in kept : m \in Line
    BY <1>5
  <2>2. QED
    BY <2>1, <1>8, <1>9 DEF Lru!Keep
<1>11. Lru!Access(l)
  BY <1>7, <1>10 DEF Lru!Access, kept, lines
<1>12. QED
  BY <1>1, <1>11

\* An invalidation leaves the order of the other lines.
LEMMA DropOrder ==
    ASSUME NEW l \in Line, rank' = rank,
           \A m \in Line, v \in Ways :
              Holds(cache', m, v) <=> m # l /\ Holds(cache, m, v)
    PROVE  Lru!Drop(l)
<1> DEFINE rest == {m \in Line : Cached(cache, m)} \ {l}
<1>1. {m \in Line : Cached(cache', m)} = rest
  BY DEF Cached
<1>2. ASSUME NEW m \in Line, NEW n \in Line
      PROVE  Before(m, n)' <=> m \in rest /\ n \in rest /\ Before(m, n)
  <2>1. Before(m, n)' <=>
          /\ SetIndex(m) = SetIndex(n)
          /\ \E v, u \in Ways :
              /\ Holds(cache', m, v) /\ Holds(cache', n, u)
              /\ rank[SetIndex(m)][v] < rank[SetIndex(m)][u]
    BY DEF Before, Holds, SetIndex
  <2>2. QED
    BY <2>1 DEF Before, Cached
<1> HIDE DEF rest
<1>3. {p \in Line \X Line : Before(p[1], p[2])'} = Lru!Keep(rest)
  BY <1>2 DEF Lru!Keep
<1>4. QED
  BY <1>1, <1>3 DEF Lru!Drop, rest

\* A load or a store of line l is an LRU access to it.
LEMMA AccessStep ==
    ASSUME Inv, Ordered(rank), NEW l \in Line, NEW o \in Offset,
           Load(l, o) \/ \E v \in Value : Store(l, o, v)
    PROVE  Ordered(rank)' /\ Lru!Access(l)
<1> DEFINE s == SetIndex(l)
<1>0. s \in Sets /\ cache \in Array /\ Placed(cache) /\ Unique(cache)
  BY SetIndexInSets DEF Inv, TypeOK, WellPlaced
<1>1. CASE LoadHit(l, o)
  <2>1. PICK w \in Ways :
            Holds(cache, l, w) /\ rank' = Touch(rank, s, w) /\ cache' = cache
    BY <1>1 DEF LoadHit, HitWay
  <2>2. AccessTo(l, w)
    BY <2>1, <1>0 DEF AccessTo, Holds, Unique
  <2>3. QED
    BY <2>1, <2>2, AccessOrder
<1>2. ASSUME NEW w \in Ways, NEW n \in CacheLine, n.line = l,
             \/ Holds(cache, l, w)
             \/ ~Cached(cache, l) /\ Victim(cache, rank, s, w),
             cache' = Put(cache, l, w, n), rank' = Touch(rank, s, w)
      PROVE  Ordered(rank)' /\ Lru!Access(l)
  <2>1. /\ Holds(cache', l, w)
        /\ \A m \in Line, v \in Ways :
              m # l => (Holds(cache', m, v) <=>
                          Holds(cache, m, v) /\ <<SetIndex(m), v>> # <<s, w>>)
        /\ Unique(cache')
    BY <1>0, <1>2, PutLine
  <2>2. AccessTo(l, w)
    BY <2>1, <1>2 DEF AccessTo, Unique
  <2>3. QED
    BY <1>2, <2>2, AccessOrder
<1>3. CASE LoadMiss(l, o)
  <2>1. PICK w \in Ways :
            /\ ~Cached(cache, l)
            /\ Victim(cache, rank, s, w)
            /\ Evict(s, w)
            /\ cache' = Put(cache, l, w, Refill(l))
            /\ rank' = Touch(rank, s, w)
    BY <1>3 DEF LoadMiss
  <2>2. Refill(l) \in CacheLine /\ Refill(l).line = l
    BY <2>1, <1>0, EvictEffect, RefillType
  <2>3. QED
    BY <2>1, <2>2, <1>2
<1>4. ASSUME NEW v \in Value, StoreHit(l, o, v)
      PROVE  Ordered(rank)' /\ Lru!Access(l)
  <2>1. PICK w \in Ways :
            /\ Holds(cache, l, w)
            /\ cache' = Put(cache, l, w, Stored(cache[s][w], o, v))
            /\ rank' = Touch(rank, s, w)
    BY <1>4 DEF StoreHit, HitWay
  <2>2. cache[s][w] \in CacheLine /\ cache[s][w].line = l
    BY <2>1, <1>0 DEF Array, Holds
  <2>3. /\ Stored(cache[s][w], o, v) \in CacheLine
        /\ Stored(cache[s][w], o, v).line = l
    BY <2>2 DEF Stored, CacheLine, Data
  <2>4. QED
    BY <2>1, <2>3, <1>2
<1>5. ASSUME NEW v \in Value, StoreMiss(l, o, v)
      PROVE  Ordered(rank)' /\ Lru!Access(l)
  <2>1. PICK w \in Ways :
            /\ ~Cached(cache, l)
            /\ Victim(cache, rank, s, w)
            /\ Evict(s, w)
            /\ cache' = Put(cache, l, w, Stored(Refill(l), o, v))
            /\ rank' = Touch(rank, s, w)
    BY <1>5 DEF StoreMiss
  <2>2. Refill(l) \in CacheLine /\ Refill(l).line = l
    BY <2>1, <1>0, EvictEffect, RefillType
  <2>3. /\ Stored(Refill(l), o, v) \in CacheLine
        /\ Stored(Refill(l), o, v).line = l
    BY <2>2 DEF Stored, CacheLine, Data
  <2>4. QED
    BY <2>1, <2>3, <1>2
<1>6. QED
  BY <1>1, <1>3, <1>4, <1>5 DEF Load, Store

\* An invalidation of line l is the LRU list's.
LEMMA DropStep ==
    ASSUME Inv, NEW l \in Line, InvalidateLine(l)
    PROVE  rank' = rank /\ Lru!Drop(l)
<1>1. PICK w \in Ways :
          Holds(cache, l, w) /\ cache' = Drop(cache, l, w) /\ rank' = rank
  BY DEF InvalidateLine, HitWay
<1>2. /\ ~Cached(cache', l)
      /\ \A m \in Line, v \in Ways :
            m # l => (Holds(cache', m, v) <=> Holds(cache, m, v))
  BY <1>1, DropLine DEF Inv, TypeOK, WellPlaced
<1>3. \A m \in Line, v \in Ways :
          Holds(cache', m, v) <=> m # l /\ Holds(cache, m, v)
  BY <1>2 DEF Cached
<1>4. QED
  BY <1>1, <1>3, DropOrder

\* The use counters of a set are never equal.
LEMMA OrderedAlways == Spec => []Ordered(rank)
<1>1. Init => Ordered(rank)
  BY DEF Init, NoUses, Ordered
<1>2. Inv /\ Ordered(rank) /\ [Next]_vars => Ordered(rank)'
  <2> SUFFICES ASSUME Inv, Ordered(rank), [Next]_vars PROVE Ordered(rank)'
    OBVIOUS
  <2>1. ASSUME NEW l \in Line, NEW o \in Offset,
               Load(l, o) \/ \E v \in Value : Store(l, o, v)
        PROVE  Ordered(rank)'
    BY <2>1, AccessStep
  <2>2. ASSUME NEW l \in Line, InvalidateLine(l)
        PROVE  Ordered(rank)'
    BY <2>2, DropStep
  <2>3. CASE UNCHANGED vars
    BY <2>3 DEF vars
  <2>4. QED
    BY <2>1, <2>2, <2>3 DEF Next
<1>3. QED
  BY <1>1, <1>2, CacheInvariant, PTL DEF Spec

\* The victim is the line of the full set whose last load or store is longest
\* ago, an invalidation reorders nothing, and no other line ever leaves the
\* set (find_victim, load_u8_internal, store_u8_internal, invalidate_line).
THEOREM CacheReplacementIsLru == Spec => LruReplacement
<1>1. Inv /\ Ordered(rank) =>
        [\A l \in Line :
            /\ (\E o \in Offset : Load(l, o) \/ \E v \in Value : Store(l, o, v))
                 => Lru!Access(l)
            /\ InvalidateLine(l) => Lru!Drop(l)]_vars
  BY AccessStep, DropStep
<1>2. QED
  BY <1>1, CacheInvariant, OrderedAlways, PTL DEF LruReplacement
=============================================================================
