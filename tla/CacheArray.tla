----------------------------- MODULE CacheArray -----------------------------
(***************************************************************************)
(* The tag and data array every cache of the simulator is built on:        *)
(* NumSets sets of Assoc slots, a slot empty or holding one line.          *)
(*                                                                         *)
(* The code stamps a line with an ever-growing use counter each time it is *)
(* used.  Only the order of the stamps within a set is ever read, so here  *)
(* every way of a set has a rank in 0..Assoc-1: the higher, the more       *)
(* recently used.  The rank of an empty way is never read.                 *)
(***************************************************************************)
EXTENDS Naturals

CONSTANTS
    Line,       \* line numbers: addr / line_size
    Offset,     \* offsets in a line: addr % line_size
    Value,      \* byte values
    NumSets,    \* sets of the array
    Assoc,      \* slots of each set
    None        \* an empty slot

Sets == 0..(NumSets - 1)
Ways == 0..(Assoc - 1)
Data == [Offset -> Value]
CacheLine == [line : Line, data : Data, dirty : BOOLEAN]
Array == [Sets -> [Ways -> CacheLine \cup {None}]]
Ranks == [Sets -> [Ways -> Ways]]

ASSUME GeometryAssumption ==
    /\ Line \subseteq Nat
    /\ NumSets \in Nat \ {0}
    /\ Assoc \in Nat \ {0}
    /\ None \notin CacheLine

SetIndex(l) == l % NumSets

NoLines == [s \in Sets |-> [w \in Ways |-> None]]
NoUses == [s \in Sets |-> [w \in Ways |-> w]]

-----------------------------------------------------------------------------
(* Lookup.                                                                 *)

Holds(c, l, w) ==
    /\ c[SetIndex(l)][w] # None
    /\ c[SetIndex(l)][w].line = l

Cached(c, l) == \E w \in Ways : Holds(c, l, w)

\* The way at which the loop over the ways of the set stops.
HitWay(c, l, w) ==
    /\ Holds(c, l, w)
    /\ \A v \in 0..(w - 1) : ~Holds(c, l, v)

\* The slot that holds line l.
CopyOf(c, l) == c[SetIndex(l)][CHOOSE w \in Ways : Holds(c, l, w)]

-----------------------------------------------------------------------------
(* Replacement.                                                            *)

\* Touch_AllAge: the ways that were used before w age too.
Touch_AllAge(r, s, w) ==
    [r EXCEPT ![s] = [v \in Ways |-> IF v = w THEN Assoc - 1 ELSE r[s][v] - 1]]

\* Way w is now the most recently used one of set s.
Touch(r, s, w) ==
    [r EXCEPT ![s] = [v \in Ways |->
        IF v = w THEN Assoc - 1
        ELSE IF r[s][v] > r[s][w] THEN r[s][v] - 1
        ELSE r[s][v]]]

\* find_victim: the first empty way, or else the least recently used one.
FirstEmpty(c, s, w) ==
    /\ c[s][w] = None
    /\ \A v \in 0..(w - 1) : c[s][v] # None

\* LeastRecent_Newest: the comparison of the stamps is the wrong way round.
LeastRecent_Newest(c, r, s, w) ==
    /\ \A v \in Ways : c[s][v] # None
    /\ \A v \in Ways : r[s][w] >= r[s][v]

LeastRecent(c, r, s, w) ==
    /\ \A v \in Ways : c[s][v] # None
    /\ \A v \in Ways : r[s][w] <= r[s][v]

Victim(c, r, s, w) == FirstEmpty(c, s, w) \/ LeastRecent(c, r, s, w)

\* The array after line n, for line number l, or nothing goes into way w.
Put(c, l, w, n) == [c EXCEPT ![SetIndex(l)][w] = n]
Drop(c, l, w) == [c EXCEPT ![SetIndex(l)][w] = None]

-----------------------------------------------------------------------------
(* Line movement between a cache and a flat memory m behind it.            *)

NewLine(l, d) == [line |-> l, data |-> d, dirty |-> FALSE]

\* write_back_line, behind the test of the dirty flag
WriteBack(m, slot) ==
    IF slot # None /\ slot.dirty THEN [m EXCEPT ![slot.line] = slot.data]
    ELSE m

-----------------------------------------------------------------------------
(* What is well formed about an array.                                     *)

\* A line sits in the set its address selects.
Placed(c) ==
    \A s \in Sets, w \in Ways : c[s][w] # None => s = SetIndex(c[s][w].line)

\* No line is there twice.
Unique(c) ==
    \A l \in Line, v, w \in Ways : Holds(c, l, v) /\ Holds(c, l, w) => v = w
=============================================================================
