------------------------ MODULE SetAssociativeCache -------------------------
(***************************************************************************)
(* SetAssociativeCache: a write-back, write-allocate cache with least      *)
(* recently used replacement, over a backing memory.  This is the default  *)
(* L1D, the L2 and the L3 of the simulated machine.                        *)
(*                                                                         *)
(* The backing memory is a flat array (MainMemory, or any device that      *)
(* implements MemoryDevice).  A call is one step: the simulator is         *)
(* single-threaded and a call returns before the next one starts.  The     *)
(* cache behind may call invalidate_line between any two calls.            *)
(***************************************************************************)
EXTENDS CacheArray

CONSTANT Zero   \* what MainMemory::new fills the memory with

ASSUME ZeroAssumption == Zero \in Value

VARIABLES
    cache,      \* the array
    rank,       \* recency of the ways of each set
    mem,        \* the backing memory
    reply       \* what the last load answered, and for which address

vars == <<cache, rank, mem, reply>>

Answer(l, o, v) == [op |-> "load", line |-> l, off |-> o, val |-> v]

Init ==
    /\ cache = NoLines
    /\ rank = NoUses
    /\ mem = [l \in Line |-> [o \in Offset |-> Zero]]
    /\ reply = [op |-> "none"]

-----------------------------------------------------------------------------

\* Evict_DropDirty: the dirty flag of the evicted line is not looked at.
Evict_DropDirty(s, w) == mem' = mem

\* The line in way w of set s leaves the cache, written back when dirty.
Evict(s, w) == mem' = WriteBack(mem, cache[s][w])

\* The requested line, read from the memory as the eviction left it.
Refill(l) == NewLine(l, mem'[l])

LoadHit(l, o) ==
    \E w \in Ways :
        /\ HitWay(cache, l, w)
        /\ rank' = Touch(rank, SetIndex(l), w)
        /\ reply' = Answer(l, o, cache[SetIndex(l)][w].data[o])
        /\ UNCHANGED <<cache, mem>>

LoadMiss(l, o) ==
    \E w \in Ways :
        /\ ~Cached(cache, l)
        /\ Victim(cache, rank, SetIndex(l), w)
        /\ Evict(SetIndex(l), w)
        /\ cache' = Put(cache, l, w, Refill(l))
        /\ rank' = Touch(rank, SetIndex(l), w)
        /\ reply' = Answer(l, o, Refill(l).data[o])

\* load_u8_internal
Load(l, o) == LoadHit(l, o) \/ LoadMiss(l, o)

\* A line after a byte of it was stored.
Stored(line, o, v) == [line EXCEPT !.data[o] = v, !.dirty = TRUE]

StoreHit(l, o, v) ==
    \E w \in Ways :
        /\ HitWay(cache, l, w)
        /\ cache' = Put(cache, l, w, Stored(cache[SetIndex(l)][w], o, v))
        /\ rank' = Touch(rank, SetIndex(l), w)
        /\ UNCHANGED mem

StoreMiss(l, o, v) ==
    \E w \in Ways :
        /\ ~Cached(cache, l)
        /\ Victim(cache, rank, SetIndex(l), w)
        /\ Evict(SetIndex(l), w)
        /\ cache' = Put(cache, l, w, Stored(Refill(l), o, v))
        /\ rank' = Touch(rank, SetIndex(l), w)

\* store_u8_internal
Store(l, o, v) ==
    /\ StoreHit(l, o, v) \/ StoreMiss(l, o, v)
    /\ reply' = [op |-> "none"]

\* invalidate_line, called by the cache behind.  A line that is not there is
\* left alone.
InvalidateLine(l) ==
    \E w \in Ways :
        /\ HitWay(cache, l, w)
        /\ Evict(SetIndex(l), w)
        /\ cache' = Drop(cache, l, w)
        /\ UNCHANGED <<rank, reply>>

Next ==
    \E l \in Line :
        \/ \E o \in Offset :
            \/ Load(l, o)
            \/ \E v \in Value : Store(l, o, v)
        \/ InvalidateLine(l)

Spec == Init /\ [][Next]_vars

-----------------------------------------------------------------------------

\* The state is well formed: lines, ranks and replies have their types.
TypeOK ==
    /\ cache \in Array
    /\ rank \in Ranks
    /\ mem \in [Line -> Data]
    /\ reply \in [op : {"none"}]
        \cup [op : {"load"}, line : Line, off : Offset, val : Value]

\* Every line sits in its set and nowhere twice: the lookup loop, which stops
\* at the first match, and invalidate_line, which removes one slot, never
\* leave a second copy behind.
WellPlaced == Placed(cache) /\ Unique(cache)

\* Only a dirty line may differ from the memory behind the cache; dropping a
\* clean line on eviction or invalidation therefore loses nothing.
CleanIsBacked ==
    \A s \in Sets, w \in Ways :
        cache[s][w] # None /\ ~cache[s][w].dirty
            => cache[s][w].data = mem[cache[s][w].line]

Inv == TypeOK /\ WellPlaced /\ CleanIsBacked

\* The flat memory the cache and its backing memory amount to.
View == [l \in Line |-> IF Cached(cache, l) THEN CopyOf(cache, l).data
                                            ELSE mem[l]]

Flat == INSTANCE MemoryDevice WITH mem <- View

\* The cache is transparent: whatever it holds, evicts or is told to
\* invalidate, a load answers with the last byte stored at its address.
ImplementsMemory == Flat!Spec

-----------------------------------------------------------------------------
(* Replacement.                                                            *)

\* Lines m and n share a set, and the way of m is the less recently used.
Before(m, n) ==
    /\ SetIndex(m) = SetIndex(n)
    /\ \E v \in Ways :
        /\ Holds(cache, m, v)
        /\ \E w \in Ways :
            /\ Holds(cache, n, w)
            /\ rank[SetIndex(m)][v] < rank[SetIndex(m)][w]

Lru == INSTANCE LruOrder
         WITH lines <- {l \in Line : Cached(cache, l)},
              older <- {p \in Line \X Line : Before(p[1], p[2])}

\* Every load and store, hit or miss, is an LRU access to its own line, and an
\* invalidation takes out its own line and reorders nothing.
LruReplacement ==
    [][\A l \in Line :
        /\ (\E o \in Offset : Load(l, o) \/ \E v \in Value : Store(l, o, v))
             => Lru!Access(l)
        /\ InvalidateLine(l) => Lru!Drop(l)]_vars
=============================================================================
