------------------------------ MODULE L2Cache -------------------------------
(***************************************************************************)
(* The L2 of the machine, a SetAssociativeCache that names the cache in    *)
(* front of it as its InvalidationListener.  Behind it is a flat memory:   *)
(* the machine's L3 has no listener and so is one                          *)
(* (SetAssociativeCacheProofs).                                            *)
(*                                                                         *)
(* The operators take and return the state h of a hierarchy, a record of   *)
(* which the L2 owns the fields l2 (its array), used2 (the recency of its  *)
(* ways) and mem; the cache in front has others.  Invalidate(h, l) is what *)
(* that cache does when it is told to drop line l; it may write the line   *)
(* back through this same L2, which is then still busy with its miss.      *)
(***************************************************************************)
EXTENDS CacheArray

DirtyLine(l, d) == [line |-> l, data |-> d, dirty |-> TRUE]

\* Line n for l is put in way w of the L2, or used there.
Place(h, l, w, n) ==
    [h EXCEPT !.l2 = Put(@, l, w, n), !.used2 = Touch(@, SetIndex(l), w)]

HitWayOf(h, l) == CHOOSE w \in Ways : HitWay(h.l2, l, w)
VictimWay(h, l) == CHOOSE w \in Ways : Victim(h.l2, h.used2, SetIndex(l), w)

\* A store of all bytes of l that finds l or an empty way in its set.  So does
\* every store that Invalidate makes: the L2 has just emptied a way of the set.
StoreWithRoom(h, l, d) ==
    Place(h, l, IF Cached(h.l2, l) THEN HitWayOf(h, l) ELSE VictimWay(h, l),
          DirtyLine(l, d))

\* The line in way w gives way to l: taken out, written back when dirty, and
\* then invalidated in the cache in front.
Evict(h, l, w, Invalidate(_, _)) ==
    LET old == h.l2[SetIndex(l)][w]
        out == [h EXCEPT !.l2 = Drop(@, l, w), !.mem = WriteBack(@, old)]
    IN  IF old = None THEN out ELSE Invalidate(out, old.line)

\* A load of line l by the cache in front.
LoadLine(h, l, Invalidate(_, _)) ==
    IF Cached(h.l2, l) THEN Place(h, l, HitWayOf(h, l), CopyOf(h.l2, l))
    ELSE LET w == VictimWay(h, l)
             out == Evict(h, l, w, Invalidate)
         IN  Place(out, l, w, NewLine(l, out.mem[l]))

\* A store of all bytes of line l by the cache in front.
StoreLine(h, l, d, Invalidate(_, _)) ==
    IF Cached(h.l2, l) THEN StoreWithRoom(h, l, d)
    ELSE LET w == VictimWay(h, l)
         IN  Place(Evict(h, l, w, Invalidate), l, w, DirtyLine(l, d))

-----------------------------------------------------------------------------
(* A hierarchy in which the cache in front holds the lines F.              *)

Includes(F, h) == \A n \in F : Cached(h.l2, n.line)

AllAgree(F, h) ==
    /\ \A n, m \in F : n.line = m.line => n = m
    /\ \A n \in F : ~n.dirty => n.data = CopyOf(h.l2, n.line).data
    /\ \A l \in Line :
        Cached(h.l2, l) /\ ~CopyOf(h.l2, l).dirty => CopyOf(h.l2, l).data = h.mem[l]

\* The flat memory it amounts to: the copy in front of a line if there is one,
\* else the L2's, else the memory's.
Flattened(F, h) ==
    [l \in Line |->
        IF \E n \in F : n.line = l THEN (CHOOSE n \in F : n.line = l).data
        ELSE IF Cached(h.l2, l) THEN CopyOf(h.l2, l).data
        ELSE h.mem[l]]
=============================================================================
