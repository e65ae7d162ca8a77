--------------------------- MODULE NewCacheMemory ---------------------------
(***************************************************************************)
(* NewCacheMemory: an L1D that is a large direct-mapped cache of logical   *)
(* lines, of which the few that are resident are mapped, by a remapping    *)
(* table (RMT) for each requester, to physical slots.  A line whose        *)
(* logical index is mapped but whose tag differs takes the mapped slot; a  *)
(* line whose index is not mapped takes a random slot.                     *)
(*                                                                         *)
(* Each requester has lines of its own, since the programs are confined to *)
(* disjoint halves of the memory.  An access is of one byte and is one     *)
(* step.  Behind the cache is a flat memory that also evicts: while the    *)
(* cache reads a line from it, it may call invalidate_line for another     *)
(* line, as the L2 does when it makes room for the line it is asked for.   *)
(***************************************************************************)
EXTENDS Naturals

CONSTANTS
    Line,           \* line numbers: addr / line_size
    Offset,         \* offsets in a line
    Value,          \* byte values
    Zero,           \* what MainMemory::new fills the memory with
    Slot,           \* the physical lines
    LogicalLines,   \* logical_line_count
    RmtId,          \* security domain ids, or 0 and 1 for the classes
    OwnerOf,        \* the requester each line belongs to
    None            \* an empty slot, an absent mapping, no line

Data == [Offset -> Value]
Index == 0..(LogicalLines - 1)
Keys == RmtId \X Index
CacheLine == [line : Line, rmt : RmtId, data : Data, dirty : BOOLEAN]

ASSUME NewCacheAssumption ==
    /\ Line \subseteq Nat
    /\ Zero \in Value
    /\ LogicalLines \in Nat \ {0}
    /\ OwnerOf \in [Line -> RmtId]
    /\ None \notin Slot \cup CacheLine

VARIABLES
    lines,      \* cache: the physical lines
    rmt,        \* the remapping tables
    mem,        \* the backing memory
    requester,  \* active_rmt_id
    reply       \* what the last load answered, and for which address

vars == <<lines, rmt, mem, requester, reply>>

\* logical_index_and_tag
LogicalIndex(l) == l % LogicalLines
LogicalTag(l) == l \div LogicalLines

KeyOf(n) == <<n.rmt, LogicalIndex(n.line)>>
Holds(c, i, l) == c[i] # None /\ c[i].line = l

Init ==
    /\ lines = [i \in Slot |-> None]
    /\ rmt = [k \in Keys |-> None]
    /\ mem = [l \in Line |-> [o \in Offset |-> Zero]]
    /\ requester \in RmtId
    /\ reply = [op |-> "none"]

-----------------------------------------------------------------------------
(* Invalidation, between two accesses or in the middle of one.             *)

\* Unmapped_Nothing: the mapping of a line that leaves is kept.
Unmapped_Nothing(t, n) == t

Unmapped(t, n) == [t EXCEPT ![KeyOf(n)] = None]

WriteBack(m, n) ==
    IF n # None /\ n.dirty THEN [m EXCEPT ![n.line] = n.data] ELSE m

\* invalidate_line, on the state h: every slot that holds line l is emptied.
Invalidated(h, l) ==
    LET gone == {i \in Slot : Holds(h.lines, i, l)} IN
    [lines |-> [i \in Slot |-> IF i \in gone THEN None ELSE h.lines[i]],
     rmt |-> [k \in Keys |->
                IF \E i \in gone : KeyOf(h.lines[i]) = k THEN None ELSE h.rmt[k]],
     mem |-> [m \in Line |->
                LET dirty == {i \in gone : m = l /\ h.lines[i].dirty}
                IN  IF dirty = {} THEN h.mem[m]
                    ELSE h.lines[CHOOSE i \in dirty : TRUE].data]]

Now == [lines |-> lines, rmt |-> rmt, mem |-> mem]

Becomes(h) == lines' = h.lines /\ rmt' = h.rmt /\ mem' = h.mem

\* The states in which the read of line l from the memory may leave the cache.
AfterRead(h, l) == {h} \cup {Invalidated(h, m) : m \in Line \ {l}}

-----------------------------------------------------------------------------
(* Lookup and installation.                                                *)

ActiveKey(l) == <<requester, LogicalIndex(l)>>

\* The slot to which the requester's table maps line l, when the line there
\* has that index.
IndexHit(l, i) ==
    /\ rmt[ActiveKey(l)] = i
    /\ i # None /\ lines[i] # None /\ KeyOf(lines[i]) = ActiveKey(l)

\* TagHit_IndexOnly: the tags are not compared.
TagHit_IndexOnly(l, i) == IndexHit(l, i)

TagHit(l, i) == IndexHit(l, i) /\ LogicalTag(lines[i].line) = LogicalTag(l)
TagMiss(l, i) == IndexHit(l, i) /\ LogicalTag(lines[i].line) # LogicalTag(l)
IndexMiss(l) == \A i \in Slot : ~IndexHit(l, i)

\* choose_install_index
InstallIndex(h, i) ==
    h.lines[i] = None \/ \A j \in Slot : h.lines[j] # None

\* NewLine_TagForId: the tag is stored for the id of the requester.
NewLine_TagForId(h, l) ==
    [line |-> l, rmt |-> LogicalTag(l), data |-> h.mem[l], dirty |-> FALSE]

NewLine(h, l) ==
    [line |-> l, rmt |-> requester, data |-> h.mem[l], dirty |-> FALSE]

\* install_line: the old line in slot i is unmapped and written back.
Install(h, i, n) ==
    LET old == h.lines[i]
        kept == IF old = None THEN h.rmt ELSE Unmapped(h.rmt, old)
    IN  [lines |-> [h.lines EXCEPT ![i] = n],
         rmt |-> [kept EXCEPT ![KeyOf(n)] = i],
         mem |-> WriteBack(h.mem, old)]

\* The state that the lookup leaves: it removes a mapping that leads to a line
\* with another key.
Looked(l) ==
    IF IndexMiss(l) THEN [Now EXCEPT !.rmt = [rmt EXCEPT ![ActiveKey(l)] = None]]
    ELSE Now

\* Line l, whose read has left the state h, is installed in slot i: the mapped
\* one, or else any that is empty, or else any.
Placement(l, h, i) == TagMiss(l, i) \/ (IndexMiss(l) /\ InstallIndex(h, i))

-----------------------------------------------------------------------------
(* The calls.                                                              *)

Answer(l, o, v) == [op |-> "load", line |-> l, off |-> o, val |-> v]

Stored(n, o, v) == [n EXCEPT !.data[o] = v, !.dirty = TRUE]

LoadHit(l, o) ==
    \E i \in Slot :
        /\ TagHit(l, i)
        /\ reply' = Answer(l, o, lines[i].data[o])
        /\ UNCHANGED <<lines, rmt, mem>>

LoadMiss(l, o) ==
    \E h \in AfterRead(Looked(l), l), i \in Slot :
        LET n == NewLine(h, l) IN
        /\ Placement(l, h, i)
        /\ reply' = Answer(l, o, n.data[o])
        /\ Becomes(Install(h, i, n))

StoreHit(l, o, v) ==
    \E i \in Slot :
        /\ TagHit(l, i)
        /\ lines' = [lines EXCEPT ![i] = Stored(@, o, v)]
        /\ UNCHANGED <<rmt, mem>>

StoreMiss(l, o, v) ==
    \E h \in AfterRead(Looked(l), l), i \in Slot :
        /\ Placement(l, h, i)
        /\ Becomes(Install(h, i, Stored(NewLine(h, l), o, v)))

\* load_u8_internal
Load(l, o) ==
    /\ LoadHit(l, o) \/ LoadMiss(l, o)
    /\ UNCHANGED requester

\* store_u8_internal
Store(l, o, v) ==
    /\ StoreHit(l, o, v) \/ StoreMiss(l, o, v)
    /\ reply' = [op |-> "none"]
    /\ UNCHANGED requester

InvalidateLine(l) ==
    /\ \E i \in Slot : Holds(lines, i, l)
    /\ Becomes(Invalidated(Now, l))
    /\ UNCHANGED <<requester, reply>>

\* set_requester_class, set_requester_identity
SetRequester(id) ==
    /\ requester' = id
    /\ UNCHANGED <<lines, rmt, mem, reply>>

Next ==
    \/ \E l \in Line :
        \/ /\ OwnerOf[l] = requester
           /\ \E o \in Offset : Load(l, o) \/ \E v \in Value : Store(l, o, v)
        \/ InvalidateLine(l)
    \/ \E id \in RmtId : SetRequester(id)

Spec == Init /\ [][Next]_vars

-----------------------------------------------------------------------------

\* The state is well formed.
TypeOK ==
    /\ lines \in [Slot -> CacheLine \cup {None}]
    /\ rmt \in [Keys -> Slot \cup {None}]
    /\ mem \in [Line -> Data]
    /\ requester \in RmtId
    /\ reply \in [op : {"none"}]
        \cup [op : {"load"}, line : Line, off : Offset, val : Value]

\* The tables are the exact inverse of the slots: a key is mapped to a slot if
\* and only if the line there has that key.  A line without its mapping would
\* be out of reach of its owner, and a stale mapping would be followed to a
\* line of somebody else's.
MappingIsExact ==
    \A k \in Keys, i \in Slot :
        rmt[k] = i <=> lines[i] # None /\ KeyOf(lines[i]) = k

\* Only a dirty line may differ from the memory behind the cache.
CleanIsBacked ==
    \A i \in Slot :
        lines[i] # None /\ ~lines[i].dirty => lines[i].data = mem[lines[i].line]

\* The flat memory the cache and its backing memory amount to.
View ==
    [l \in Line |->
        LET copies == {i \in Slot : Holds(lines, i, l)}
        IN  IF copies = {} THEN mem[l] ELSE lines[CHOOSE i \in copies : TRUE].data]

Flat == INSTANCE MemoryDevice WITH mem <- View

\* The cache is transparent: a load answers with the last byte stored at its
\* address, even when the memory makes the cache give up a line while it is in
\* the middle of a miss.
ImplementsMemory == Flat!Spec
=============================================================================
