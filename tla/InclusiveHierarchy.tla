------------------------- MODULE InclusiveHierarchy -------------------------
(***************************************************************************)
(* An L1 SetAssociativeCache in front of an L2 SetAssociativeCache that    *)
(* names it as its InvalidationListener, as RiscV32IntegerMachine wires    *)
(* them.                                                                   *)
(*                                                                         *)
(* One call of the machine is one step, and the calls it makes down the    *)
(* hierarchy are nested in it: an L1 miss writes its victim back through   *)
(* the L2 and reads the line from the L2; an L2 miss tells the L1 to drop  *)
(* the L2's victim, and the L1, when its copy is dirty, writes it back     *)
(* through that same L2, while the L2 is still busy with its miss.         *)
(***************************************************************************)
EXTENDS Naturals

CONSTANTS Line, Offset, Value, Zero, None,
          L1Sets, L1Ways,   \* L1_NUM_SETS, L1_WAYS
          L2Sets, L2Ways    \* L2_NUM_SETS, L2_WAYS

L1 == INSTANCE CacheArray WITH NumSets <- L1Sets, Assoc <- L1Ways
L2 == INSTANCE L2Cache WITH NumSets <- L2Sets, Assoc <- L2Ways

VARIABLES
    hier,       \* both caches, the recency of their ways, and the memory
    reply       \* what the last load answered, and for which address

vars == <<hier, reply>>

Init ==
    /\ hier = [l1 |-> L1!NoLines, used1 |-> L1!NoUses,
               l2 |-> L2!NoLines, used2 |-> L2!NoUses,
               mem |-> [l \in Line |-> [o \in Offset |-> Zero]]]
    /\ reply = [op |-> "none"]

-----------------------------------------------------------------------------
(* The L2, as the L1 calls it, and the L1 as its listener.                 *)

\* invalidate_line of the L1, called by the L2 that has just taken l out of its
\* set: the store of a dirty copy finds that empty way.
InvalidateL1(h, l) ==
    IF ~L1!Cached(h.l1, l) THEN h
    ELSE LET w == CHOOSE w \in L1!Ways : L1!HitWay(h.l1, l, w)
             line == h.l1[L1!SetIndex(l)][w]
             out == [h EXCEPT !.l1 = L1!Drop(@, l, w)]
         IN  IF line.dirty THEN L2!StoreWithRoom(out, l, line.data) ELSE out

L2Load(h, l) == L2!LoadLine(h, l, InvalidateL1)
L2Store(h, l, d) == L2!StoreLine(h, l, d, InvalidateL1)

-----------------------------------------------------------------------------
(* The L1, as the machine calls it.                                        *)

L1Place(h, l, w, n) ==
    [h EXCEPT !.l1 = L1!Put(@, l, w, n),
              !.used1 = L1!Touch(@, L1!SetIndex(l), w)]

\* L1Stored_Clean: the dirty flag is forgotten.
L1Stored_Clean(n, o, v) == [n EXCEPT !.data[o] = v]

L1Stored(n, o, v) == [n EXCEPT !.data[o] = v, !.dirty = TRUE]

\* L1Evict_ToRequested: the victim is written back to the address asked for.
L1Evict_ToRequested(h, l, w) ==
    LET old == h.l1[L1!SetIndex(l)][w]
        out == [h EXCEPT !.l1 = L1!Drop(@, l, w)]
    IN  IF old # None /\ old.dirty THEN L2Store(out, l, old.data) ELSE out

\* The line in way w is taken out of the L1, and written back when dirty.
L1Evict(h, l, w) ==
    LET old == h.l1[L1!SetIndex(l)][w]
        out == [h EXCEPT !.l1 = L1!Drop(@, l, w)]
    IN  IF old # None /\ old.dirty THEN L2Store(out, old.line, old.data) ELSE out

\* The hierarchy when line l, not in the L1, has been read from the L2.
Fetched(h, l, w) == L2Load(L1Evict(h, l, w), l)

L1Miss(l, w) ==
    /\ ~L1!Cached(hier.l1, l)
    /\ L1!Victim(hier.l1, hier.used1, L1!SetIndex(l), w)

Answer(l, o, v) == [op |-> "load", line |-> l, off |-> o, val |-> v]

LoadHit(l, o) ==
    \E w \in L1!Ways :
        LET n == hier.l1[L1!SetIndex(l)][w] IN
        /\ L1!HitWay(hier.l1, l, w)
        /\ hier' = L1Place(hier, l, w, n)
        /\ reply' = Answer(l, o, n.data[o])

LoadMiss(l, o) ==
    \E w \in L1!Ways :
        LET h == Fetched(hier, l, w)
            n == L1!NewLine(l, L2!CopyOf(h.l2, l).data)
        IN
        /\ L1Miss(l, w)
        /\ hier' = L1Place(h, l, w, n)
        /\ reply' = Answer(l, o, n.data[o])

StoreHit(l, o, v) ==
    \E w \in L1!Ways :
        /\ L1!HitWay(hier.l1, l, w)
        /\ hier' = L1Place(hier, l, w, L1Stored(hier.l1[L1!SetIndex(l)][w], o, v))
        /\ reply' = [op |-> "none"]

StoreMiss(l, o, v) ==
    \E w \in L1!Ways :
        LET h == Fetched(hier, l, w)
            n == L1!NewLine(l, L2!CopyOf(h.l2, l).data)
        IN
        /\ L1Miss(l, w)
        /\ hier' = L1Place(h, l, w, L1Stored(n, o, v))
        /\ reply' = [op |-> "none"]

Load(l, o) == LoadHit(l, o) \/ LoadMiss(l, o)
Store(l, o, v) == StoreHit(l, o, v) \/ StoreMiss(l, o, v)

Next ==
    \E l \in Line, o \in Offset :
        \/ Load(l, o)
        \/ \E v \in Value : Store(l, o, v)

Spec == Init /\ [][Next]_vars

-----------------------------------------------------------------------------

\* The state is well formed.
TypeOK ==
    /\ hier \in [l1 : L1!Array, used1 : L1!Ranks, l2 : L2!Array, used2 : L2!Ranks,
                 mem : [Line -> [Offset -> Value]]]
    /\ reply \in [op : {"none"}]
        \cup [op : {"load"}, line : Line, off : Offset, val : Value]

Copies == {hier.l1[s][w] : s \in L1!Sets, w \in L1!Ways} \ {None}

View == L2!Flattened(Copies, hier)
Agree == L2!AllAgree(Copies, hier)

Flat == INSTANCE MemoryDevice WITH mem <- View

\* The hierarchy is transparent: a load answers with the last byte stored at
\* its address, even when the L2 makes the L1 give up a dirty line.
ImplementsMemory == Flat!Spec
=============================================================================
