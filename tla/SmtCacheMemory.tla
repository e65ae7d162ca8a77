--------------------------- MODULE SmtCacheMemory ---------------------------
(***************************************************************************)
(* SmtCacheMemory: an L1D of several slices, each a set-associative cache  *)
(* that belongs to one security class.  A class that has no slice is given *)
(* a free one when it first uses the cache, or else the least recently     *)
(* used one, flushed.                                                      *)
(*                                                                         *)
(* There are two classes.  With two slices or more each class finds a free *)
(* slice, and with one there is no choice, so the order in which slices    *)
(* were last used is never read and is left out.  Each class has lines of  *)
(* its own: the programs are confined to disjoint halves of the memory.    *)
(* An access is of one byte and is one step; behind the cache is a flat    *)
(* memory, and the cache behind may call invalidate_line between accesses. *)
(***************************************************************************)
EXTENDS CacheArray

CONSTANTS
    Zero,               \* what MainMemory::new fills the memory with
    SliceCounts,        \* the values slice_count may have
    HighLine, LowLine   \* the lines of each class

Domains == {"High", "Low"}

ASSUME SmtCacheAssumption ==
    /\ Zero \in Value
    /\ SliceCounts \subseteq Nat \ {0}
    /\ Line = HighLine \cup LowLine
    /\ HighLine \cap LowLine = {}
    /\ None \notin Domains

VARIABLES
    slices,     \* owner, array and recency of the ways of each slice
    mem,        \* the backing memory
    domain,     \* active_domain
    reply       \* what the last load answered, and for which address

vars == <<slices, mem, domain, reply>>

LinesOf(d) == IF d = "High" THEN HighLine ELSE LowLine
Slices == DOMAIN slices
SliceState == [owner : Domains \cup {None}, cache : Array, rank : Ranks]

Init ==
    /\ \E n \in SliceCounts :
        slices = [i \in 0..(n - 1) |->
                    [owner |-> None, cache |-> NoLines, rank |-> NoUses]]
    /\ mem = [l \in Line |-> [o \in Offset |-> Zero]]
    /\ domain = "High"
    /\ reply = [op |-> "none"]

-----------------------------------------------------------------------------
(* active_slice_index: the slice an access goes to, and what it is then.   *)

\* Owned_ByAny: any slice that is owned is taken for the class's own.
Owned_ByAny(i) ==
    /\ slices[i].owner # None
    /\ \A j \in 0..(i - 1) : slices[j].owner = None

Owned(i) ==
    /\ slices[i].owner = domain
    /\ \A j \in 0..(i - 1) : slices[j].owner # domain

Claimed(i) ==
    /\ \A j \in Slices : slices[j].owner # domain
    /\ slices[i].owner = None
    /\ \A j \in 0..(i - 1) : slices[j].owner # None

Reassigned(i) == \A j \in Slices : slices[j].owner \notin {domain, None}

Active(i) == Owned(i) \/ Claimed(i) \/ Reassigned(i)

\* FlushedTo_Nothing: the lines are dropped.
FlushedTo_Nothing(m, c) == m

\* flush_slice
FlushedTo(m, c) ==
    [l \in Line |->
        IF Cached(c, l) /\ CopyOf(c, l).dirty THEN CopyOf(c, l).data ELSE m[l]]

\* ArrayOf_Unflushed: the slice keeps the lines of its former owner.
ArrayOf_Unflushed(i) == slices[i].cache

\* The array of slice i, and the memory, as the access finds them.
ArrayOf(i) == IF Reassigned(i) THEN NoLines ELSE slices[i].cache
MemoryFor(i) == IF Reassigned(i) THEN FlushedTo(mem, slices[i].cache) ELSE mem

-----------------------------------------------------------------------------
(* The calls.                                                              *)

Answer(l, o, v) == [op |-> "load", line |-> l, off |-> o, val |-> v]

Stored(n, o, v) == [n EXCEPT !.data[o] = v, !.dirty = TRUE]

Hit(i, l, w) == Active(i) /\ HitWay(ArrayOf(i), l, w)

Miss(i, l, w) ==
    /\ Active(i)
    /\ ~Cached(ArrayOf(i), l)
    /\ Victim(ArrayOf(i), slices[i].rank, SetIndex(l), w)

\* The line in way w of slice i, and what it is replaced with for l.
LineIn(i, l, w) == ArrayOf(i)[SetIndex(l)][w]
Evicted(i, l, w) == WriteBack(MemoryFor(i), LineIn(i, l, w))
Refill(i, l, w) == NewLine(l, Evicted(i, l, w)[l])

\* Slice i ends the access with line n for l in way w, used last.
Keep(i, l, w, n) ==
    slices' = [slices EXCEPT ![i] =
        [owner |-> domain,
         cache |-> Put(ArrayOf(i), l, w, n),
         rank |-> Touch(@.rank, SetIndex(l), w)]]

LoadHit(l, o) ==
    \E i \in Slices, w \in Ways :
        /\ Hit(i, l, w)
        /\ Keep(i, l, w, LineIn(i, l, w))
        /\ reply' = Answer(l, o, LineIn(i, l, w).data[o])
        /\ mem' = MemoryFor(i)

LoadMiss(l, o) ==
    \E i \in Slices, w \in Ways :
        /\ Miss(i, l, w)
        /\ Keep(i, l, w, Refill(i, l, w))
        /\ reply' = Answer(l, o, Refill(i, l, w).data[o])
        /\ mem' = Evicted(i, l, w)

\* load_u8_internal
Load(l, o) == LoadHit(l, o) \/ LoadMiss(l, o)

StoreHit(l, o, v) ==
    \E i \in Slices, w \in Ways :
        /\ Hit(i, l, w)
        /\ Keep(i, l, w, Stored(LineIn(i, l, w), o, v))
        /\ mem' = MemoryFor(i)

StoreMiss(l, o, v) ==
    \E i \in Slices, w \in Ways :
        /\ Miss(i, l, w)
        /\ Keep(i, l, w, Stored(Refill(i, l, w), o, v))
        /\ mem' = Evicted(i, l, w)

\* store_u8_internal
Store(l, o, v) ==
    /\ StoreHit(l, o, v) \/ StoreMiss(l, o, v)
    /\ reply' = [op |-> "none"]

\* Array c without the ways that hold line l.
Purged(c, l) ==
    [c EXCEPT ![SetIndex(l)] =
        [w \in Ways |-> IF Holds(c, l, w) THEN None ELSE c[SetIndex(l)][w]]]

\* invalidate_line: every copy in every slice, one of them dirty at most.
InvalidateLine(l) ==
    LET dirty == {i \in Slices : Cached(slices[i].cache, l) /\ CopyOf(slices[i].cache, l).dirty}
    IN
    /\ \E i \in Slices : Cached(slices[i].cache, l)
    /\ slices' = [i \in Slices |->
            [slices[i] EXCEPT !.cache = Purged(slices[i].cache, l)]]
    /\ mem' = IF dirty = {} THEN mem
              ELSE [mem EXCEPT ![l] = CopyOf(slices[CHOOSE i \in dirty : TRUE].cache, l).data]
    /\ UNCHANGED <<domain, reply>>

\* set_requester_class, set_requester_identity
SetRequester(d) ==
    /\ domain' = d
    /\ UNCHANGED <<slices, mem, reply>>

Next ==
    \/ /\ \E l \in LinesOf(domain), o \in Offset :
            Load(l, o) \/ \E v \in Value : Store(l, o, v)
       /\ UNCHANGED domain
    \/ \E l \in Line : InvalidateLine(l)
    \/ \E d \in Domains : SetRequester(d)

Spec == Init /\ [][Next]_vars

-----------------------------------------------------------------------------

\* The state is well formed.
TypeOK ==
    /\ \E n \in SliceCounts : slices \in [0..(n - 1) -> SliceState]
    /\ mem \in [Line -> Data]
    /\ domain \in Domains
    /\ reply \in [op : {"none"}]
        \cup [op : {"load"}, line : Line, off : Offset, val : Value]

\* Slices are private: no class owns two, a slice nobody owns is empty, and a
\* slice holds only lines of its owner's, also after it was taken from another
\* class.
SlicesArePrivate ==
    /\ \A i, j \in Slices :
        slices[i].owner = slices[j].owner /\ slices[i].owner # None => i = j
    /\ \A i \in Slices :
        \A s \in Sets, w \in Ways :
            LET n == slices[i].cache[s][w]
            IN  n # None => slices[i].owner # None /\ n.line \in LinesOf(slices[i].owner)

\* With a slice for each class (two or more) no slice ever changes hands, and
\* nothing a class does touches the slice of the other one, its replacement
\* order included.
OthersUndisturbed ==
    [][\A i \in Slices :
        1 \in Slices /\ slices'[i] # slices[i] =>
            \/ slices[i].owner \in {domain, None} /\ slices'[i].owner = domain
            \/ \E l \in Line : InvalidateLine(l)]_vars

\* The flat memory the cache and its backing memory amount to.
View ==
    [l \in Line |->
        LET copies == {i \in Slices : Cached(slices[i].cache, l)}
        IN  IF copies = {} THEN mem[l]
            ELSE CopyOf(slices[CHOOSE i \in copies : TRUE].cache, l).data]

Flat == INSTANCE MemoryDevice WITH mem <- View

\* The cache is transparent: a load answers with the last byte stored at its
\* address, also after slices have changed hands.
ImplementsMemory == Flat!Spec
=============================================================================
