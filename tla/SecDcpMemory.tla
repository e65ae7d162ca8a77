---------------------------- MODULE SecDcpMemory ----------------------------
(***************************************************************************)
(* SecDcpMemory: a set-associative L1D whose ways are split between the    *)
(* two security classes, ways 0..publicWays-1 for Low and the others for   *)
(* High.  After every EpochAccesses accesses by Low the border may move by *)
(* one way: up when Low missed much, down when it missed little.           *)
(*                                                                         *)
(* Each class has lines of its own: the programs of the dual runner are    *)
(* confined to disjoint halves of the memory (DualRunner).  Behind the     *)
(* cache is a flat memory.  A call is one step; a step of which the Rust   *)
(* code panics leaves the state it had reached, and is the last one.       *)
(***************************************************************************)
EXTENDS CacheArray

CONSTANTS
    Zero,               \* what MainMemory::new fills the memory with
    HighLineSets,       \* the sets of lines that may be High's
    EpochAccesses,      \* epoch_public_accesses
    IncreasePercent,    \* increase_threshold, in percent
    DecreasePercent,    \* decrease_threshold, in percent
    MinHighWays,        \* min_high_ways
    MinLowWays          \* min_low_ways

Classes == {"High", "Low"}
OwnedLine == [line : Line, data : Data, dirty : BOOLEAN, owner : Classes]

ASSUME SecDcpAssumption ==
    /\ HighLineSets \subseteq SUBSET Line
    /\ Zero \in Value
    /\ EpochAccesses \in Nat \ {0}
    /\ IncreasePercent \in Nat /\ DecreasePercent \in Nat
    /\ MinHighWays \in Nat \ {0} /\ MinLowWays \in Nat \ {0}
    /\ MinHighWays + MinLowWays <= Assoc
    /\ None \notin OwnedLine

VARIABLES
    cache,          \* the array; a line also has an owner
    rank,           \* recency of the ways of each set
    mem,            \* the backing memory
    highLine,       \* the lines of the program that runs as High
    class,          \* requester_class
    publicWays,     \* public_ways
    stats,          \* epoch_stats
    reply,          \* what the last load answered, and for which address
    panicked        \* the cache was borrowed twice

vars == <<cache, rank, mem, highLine, class, publicWays, stats, reply, panicked>>

LinesOf(k) == IF k = "High" THEN highLine ELSE Line \ highLine
HomeOf(l) == IF l \in highLine THEN "High" ELSE "Low"

MinPublic == MinLowWays
MaxPublic == Assoc - MinHighWays

NoStats == [accesses |-> 0, misses |-> 0]

Init ==
    /\ cache = NoLines
    /\ rank = NoUses
    /\ mem = [l \in Line |-> [o \in Offset |-> Zero]]
    /\ highLine \in HighLineSets
    /\ class = "High"
    /\ publicWays = MinPublic
    /\ stats = NoStats
    /\ reply = [op |-> "none"]
    /\ panicked = FALSE

-----------------------------------------------------------------------------
(* Lookup and replacement within the ways of a class.                      *)

\* way_range_for
WaysOf(k) == IF k = "Low" THEN 0..(publicWays - 1) ELSE publicWays..(Assoc - 1)

Hit(l, w) ==
    /\ w \in WaysOf(class) /\ Holds(cache, l, w)
    /\ \A v \in WaysOf(class) : v < w => ~Holds(cache, l, v)

Miss(l) == \A w \in WaysOf(class) : ~Holds(cache, l, w)

\* VictimOf_AnyWay: the ways of the other class are victims too.
VictimOf_AnyWay(s, w) ==
    \/ FirstEmpty(cache, s, w)
    \/ LeastRecent(cache, rank, s, w)

\* find_victim: the first empty way of the class, or its least recently used.
VictimOf(s, w) ==
    /\ w \in WaysOf(class)
    /\ \/ /\ cache[s][w] = None
          /\ \A v \in WaysOf(class) : v < w => cache[s][v] # None
       \/ \A v \in WaysOf(class) : cache[s][v] # None /\ rank[s][w] <= rank[s][v]

-----------------------------------------------------------------------------
(* The end of an access: statistics, and the border at the end of an epoch.*)

\* The statistics after an access, which only one by Low changes.
Counted(miss) ==
    IF class = "Low"
    THEN [accesses |-> stats.accesses + 1,
          misses |-> IF miss THEN stats.misses + 1 ELSE stats.misses]
    ELSE stats

MissedMuch(st) == st.misses * 100 > IncreasePercent * st.accesses
MissedLittle(st) == st.misses * 100 < DecreasePercent * st.accesses

\* NewPublicWays_Unbounded: Low is not left its min_low_ways.
NewPublicWays_Unbounded(st) ==
    IF MissedMuch(st) /\ publicWays < MaxPublic THEN publicWays + 1
    ELSE IF MissedLittle(st) THEN publicWays - 1
    ELSE publicWays

NewPublicWays(st) ==
    IF MissedMuch(st) /\ publicWays < MaxPublic THEN publicWays + 1
    ELSE IF MissedLittle(st) /\ publicWays > MinPublic THEN publicWays - 1
    ELSE publicWays

LowOwned(slot) == slot # None /\ slot.owner = "Low"

\* flush_low_owned_way, on the array c and the memory m the access has left.
\* Flushed_Nothing: the reclaimed way is left as it is.
Flushed_Nothing(c, w) == c

Flushed(c, w) ==
    [s \in Sets |-> [c[s] EXCEPT ![w] = IF LowOwned(@) THEN None ELSE @]]

FlushedTo(m, c, w) ==
    [l \in Line |->
        LET dirty == {s \in Sets : LowOwned(c[s][w]) /\ c[s][w].line = l /\ c[s][w].dirty}
        IN  IF dirty = {} THEN m[l] ELSE c[CHOOSE s \in dirty : TRUE][w].data]

\* maybe_repartition_for_public_epoch, called with array c and memory m at the
\* end of an access.  A hit still holds its borrow of the array, so that the
\* flush of a shrinking partition borrows it again, and panics.
Repartition(c, m, miss) ==
    LET st == Counted(miss)
        ways == NewPublicWays(st)
    IN
    \/ /\ st.accesses < EpochAccesses
       /\ cache' = c /\ mem' = m /\ stats' = st
       /\ UNCHANGED <<publicWays, panicked>>
    \/ /\ st.accesses >= EpochAccesses /\ ways >= publicWays
       /\ cache' = c /\ mem' = m /\ stats' = NoStats
       /\ publicWays' = ways
       /\ UNCHANGED panicked
    \/ /\ st.accesses >= EpochAccesses /\ ways < publicWays /\ miss
       /\ cache' = Flushed(c, ways) /\ mem' = FlushedTo(m, c, ways)
       /\ stats' = NoStats
       /\ publicWays' = ways
       /\ UNCHANGED panicked
    \/ /\ st.accesses >= EpochAccesses /\ ways < publicWays /\ ~miss
       /\ cache' = c /\ mem' = m /\ stats' = st
       /\ UNCHANGED publicWays
       /\ panicked' = TRUE

-----------------------------------------------------------------------------
(* The calls.                                                              *)

Answer(l, o, v) == [op |-> "load", line |-> l, off |-> o, val |-> v]

\* Evicted_Dropped: the dirty flag of the evicted line is not looked at.
Evicted_Dropped(l, w) == mem

\* The memory when the line in way w of l's set has been evicted.
Evicted(l, w) == WriteBack(mem, cache[SetIndex(l)][w])

Refill(l, w) ==
    [line |-> l, data |-> Evicted(l, w)[l], dirty |-> FALSE, owner |-> class]

Stored(n, o, v) == [n EXCEPT !.data[o] = v, !.dirty = TRUE]

LoadHit(l, o) ==
    \E w \in Ways :
        /\ Hit(l, w)
        /\ rank' = Touch(rank, SetIndex(l), w)
        /\ Repartition(cache, mem, FALSE)
        /\ reply' = IF panicked' THEN reply
                    ELSE Answer(l, o, cache[SetIndex(l)][w].data[o])

LoadMiss(l, o) ==
    \E w \in Ways :
        /\ Miss(l)
        /\ VictimOf(SetIndex(l), w)
        /\ rank' = Touch(rank, SetIndex(l), w)
        /\ Repartition(Put(cache, l, w, Refill(l, w)), Evicted(l, w), TRUE)
        /\ reply' = Answer(l, o, Refill(l, w).data[o])

StoreHit(l, o, v) ==
    \E w \in Ways :
        /\ Hit(l, w)
        /\ rank' = Touch(rank, SetIndex(l), w)
        /\ Repartition(Put(cache, l, w, Stored(cache[SetIndex(l)][w], o, v)), mem, FALSE)
        /\ reply' = [op |-> "none"]

StoreMiss(l, o, v) ==
    \E w \in Ways :
        /\ Miss(l)
        /\ VictimOf(SetIndex(l), w)
        /\ rank' = Touch(rank, SetIndex(l), w)
        /\ Repartition(Put(cache, l, w, Stored(Refill(l, w), o, v)), Evicted(l, w), TRUE)
        /\ reply' = [op |-> "none"]

Access(l) ==
    /\ ~panicked
    /\ UNCHANGED <<highLine, class>>
    /\ \E o \in Offset :
        \/ LoadHit(l, o) \/ LoadMiss(l, o)
        \/ \E v \in Value : StoreHit(l, o, v) \/ StoreMiss(l, o, v)

SetRequesterClass(k) ==
    /\ ~panicked
    /\ class' = k
    /\ UNCHANGED <<cache, rank, mem, highLine, publicWays, stats, reply, panicked>>

Next ==
    \/ \E l \in LinesOf(class) : Access(l)
    \/ \E k \in Classes : SetRequesterClass(k)

Spec == Init /\ [][Next]_vars

-----------------------------------------------------------------------------

\* The state is well formed; between two calls no epoch is over, and the border
\* leaves each class the ways the policy grants it.
TypeOK ==
    /\ cache \in [Sets -> [Ways -> OwnedLine \cup {None}]]
    /\ rank \in Ranks
    /\ mem \in [Line -> Data]
    /\ highLine \in HighLineSets
    /\ class \in Classes
    /\ publicWays \in MinPublic..MaxPublic
    /\ stats \in [accesses : 0..EpochAccesses, misses : 0..EpochAccesses]
    /\ ~panicked => stats.accesses < EpochAccesses
    /\ panicked \in BOOLEAN

\* The ways of High hold nothing of Low's, wherever the border has been.
HighWaysAreHighs ==
    \A s \in Sets, w \in publicWays..(Assoc - 1) : ~LowOwned(cache[s][w])

\* An access changes no slot outside the ways its class had, and one by High
\* does not move the border.
ClassesAreSeparate ==
    [][/\ \A s \in Sets, w \in Ways :
            cache'[s][w] # cache[s][w] => w \in WaysOf(class)
       /\ publicWays' # publicWays => class = "Low"]_vars

\* The flat memory the cache amounts to: of each line the first copy in the ways
\* of the class it belongs to, or else the memory's.
View ==
    [l \in Line |->
        LET copies == {w \in WaysOf(HomeOf(l)) : Holds(cache, l, w)}
        IN  IF copies = {} THEN mem[l]
            ELSE cache[SetIndex(l)][CHOOSE w \in copies : \A v \in copies : w <= v].data]

\* What growth makes of a line of High's: a copy is left in the ways of Low, or,
\* the border having come back, High has two copies, or a clean copy differs
\* from the memory, to which Low has evicted the one left behind.
Stranded(l) ==
    /\ l \in highLine
    /\ \/ \E w \in WaysOf("Low") : Holds(cache, l, w)
       \/ \E v, w \in Ways : v # w /\ Holds(cache, l, v) /\ Holds(cache, l, w)
       \/ \E w \in Ways :
            LET slot == cache[SetIndex(l)][w]
            IN  Holds(cache, l, w) /\ ~slot.dirty /\ slot.data # mem[l]

\* A line that the access does not store to changes in two cases only, neither
\* of which can befall Low: it is High's and the border moves, or growth of
\* Low's partition has left a copy of it behind.
OnlyTheBorderLoses ==
    [][\A l \in Line :
        View'[l] # View[l] =>
            \/ \E o \in Offset, v \in Value :
                    /\ StoreHit(l, o, v) \/ StoreMiss(l, o, v)
                    /\ View'[l] = [View[l] EXCEPT ![o] = v]
            \/ l \in highLine /\ publicWays' # publicWays
            \/ Stranded(l)]_vars

Flat == INSTANCE MemoryDevice WITH mem <- View

\* The cache is transparent to each class: a load answers with the last byte
\* stored at its address, wherever the border has moved meanwhile.
ImplementsMemory == Flat!Spec

\* When an epoch in which Low missed little is over, the way Low gives up is
\* flushed of the lines of Low.
ShrinkingFlushes ==
    [][\A l \in LinesOf("Low") :
        Access(l) /\ stats.accesses + 1 >= EpochAccesses
                  /\ (\E miss \in BOOLEAN :
                        /\ miss <=> Miss(l)
                        /\ NewPublicWays(Counted(miss)) < publicWays)
            => \A s \in Sets : ~LowOwned(cache'[s][publicWays - 1])]_vars
=============================================================================
