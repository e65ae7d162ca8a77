------------------------- MODULE SmtCacheHierarchy --------------------------
(***************************************************************************)
(* A SmtCacheMemory in front of the L2 that names it as its                *)
(* InvalidationListener, as RiscV32IntegerMachine wires them.              *)
(*                                                                         *)
(* flush_slice writes a slice's lines back while the slices are borrowed;  *)
(* were the L2 to evict a line then, invalidate_line would borrow them     *)
(* again, and that panics.  A miss writes its victim back and fills its    *)
(* way when no borrow is held, and the L2 may then take lines out of any   *)
(* slice.                                                                  *)
(***************************************************************************)
EXTENDS Naturals, FiniteSets, SequencesExt

CONSTANTS Line, Offset, Value, Zero, None,
          L1Sets, L1Ways, L2Sets, L2Ways,
          SliceCounts, HighLine, LowLine    \* as in SmtCacheMemory

VARIABLES
    hier,       \* slices, the L2 and the memory, and whether it has panicked
    domain      \* active_domain

vars == <<hier, domain>>

SM == INSTANCE SmtCacheMemory
        WITH NumSets <- L1Sets, Assoc <- L1Ways, slices <- hier.slices,
             mem <- hier.mem, reply <- [op |-> "none"]
L2 == INSTANCE L2Cache WITH NumSets <- L2Sets, Assoc <- L2Ways

Slices == DOMAIN hier.slices

Init ==
    /\ \E n \in SliceCounts :
        hier = [slices |-> [i \in 0..(n - 1) |->
                    [owner |-> None, cache |-> SM!NoLines, rank |-> SM!NoUses]],
                l2 |-> L2!NoLines, used2 |-> L2!NoUses,
                mem |-> [l \in Line |-> [o \in Offset |-> Zero]],
                panicked |-> FALSE]
    /\ domain = "High"

-----------------------------------------------------------------------------
(* The SMTCache as the listener of the L2.                                 *)

Without(c, l) ==
    [c EXCEPT ![SM!SetIndex(l)] =
        [w \in SM!Ways |-> IF SM!Holds(c, l, w) THEN None ELSE @[w]]]

\* InvalidateLine_Ignored: the cache is no listener of the L2.
InvalidateLine_Ignored(h, l) == h

\* invalidate_line: taken out of every slice, then written back when dirty.
\* One slice at most has it: a line belongs to one class (SlicesArePrivate).
InvalidateLine(h, l) ==
    LET holders == {i \in Slices : SM!Cached(h.slices[i].cache, l)}
        out == [h EXCEPT !.slices = [i \in Slices |->
                  [h.slices[i] EXCEPT !.cache = Without(h.slices[i].cache, l)]]]
    IN  IF holders = {} THEN h
        ELSE LET n == SM!CopyOf(h.slices[CHOOSE i \in holders : TRUE].cache, l)
             IN  IF n.dirty THEN L2!StoreWithRoom(out, l, n.data) ELSE out

\* The same when the slices are borrowed.
InvalidateBorrowed(h, l) == [h EXCEPT !.panicked = TRUE]

-----------------------------------------------------------------------------
(* The L2 as the SMTCache calls it.                                        *)

Filled(h, l) == L2!LoadLine(h, l, InvalidateLine)
WriteBack(h, n) ==
    IF n = None \/ ~n.dirty THEN h ELSE L2!StoreLine(h, n.line, n.data, InvalidateLine)

WriteBackBorrowed(h, n) ==
    IF n = None \/ ~n.dirty THEN h
    ELSE L2!StoreLine(h, n.line, n.data, InvalidateBorrowed)

\* Flushed_Dropped: the lines are dropped.
Flushed_Dropped(h, i) == [h EXCEPT !.slices[i].cache = SM!NoLines]

\* flush_slice, set by set and way by way.
Flushed(h, i) ==
    LET slot(p) == h.slices[i].cache[(p - 1) \div L1Ways][(p - 1) % L1Ways]
        lines == [p \in 1..(L1Sets * L1Ways) |-> slot(p)]
    IN  [FoldLeft(WriteBackBorrowed, h, lines) EXCEPT !.slices[i].cache = SM!NoLines]

\* The hierarchy when active_slice_index has chosen slice i.
Claim(i) ==
    [(IF SM!Reassigned(i) THEN Flushed(hier, i) ELSE hier)
        EXCEPT !.slices[i].owner = domain]

-----------------------------------------------------------------------------
(* The calls.                                                              *)

\* Slice i ends the access with line n for l in way w, used last.
Keep(h, i, l, w, n) ==
    hier' = [h EXCEPT !.slices[i].cache = SM!Put(@, l, w, n),
                      !.slices[i].rank = SM!Touch(@, SM!SetIndex(l), w)]

\* The victim in way w is taken out and written back, and line l is read.
Missed(h, i, l, w) ==
    Filled(WriteBack([h EXCEPT !.slices[i].cache = SM!Drop(@, l, w)],
                     h.slices[i].cache[SM!SetIndex(l)][w]), l)

NewLine(h, l) == SM!NewLine(l, L2!CopyOf(h.l2, l).data)

\* Access l: Then(n) is the line that is kept when n is the line found or read.
Access(l, Then(_)) ==
    \E i \in Slices, w \in SM!Ways :
        LET h == Claim(i)
            c == h.slices[i].cache
        IN
        /\ SM!Active(i)
        /\ IF SM!Cached(c, l)
           THEN SM!HitWay(c, l, w) /\ Keep(h, i, l, w, Then(c[SM!SetIndex(l)][w]))
           ELSE /\ SM!Victim(c, h.slices[i].rank, SM!SetIndex(l), w)
                /\ LET m == Missed(h, i, l, w) IN Keep(m, i, l, w, Then(NewLine(m, l)))

\* load_u8_internal
Load(l, o) ==
    /\ Access(l, LAMBDA n : n)
    /\ UNCHANGED domain

\* store_u8_internal
Store(l, o, v) ==
    /\ Access(l, LAMBDA n : SM!Stored(n, o, v))
    /\ UNCHANGED domain

\* set_requester_class, set_requester_identity
SetRequester(d) ==
    /\ domain' = d
    /\ UNCHANGED hier

Next ==
    /\ ~hier.panicked
    /\ \/ \E l \in SM!LinesOf(domain), o \in Offset :
            Load(l, o) \/ \E v \in Value : Store(l, o, v)
       \/ \E d \in SM!Domains : SetRequester(d)

-----------------------------------------------------------------------------

TypeOK ==
    /\ \E n \in SliceCounts :
        hier \in [slices : [0..(n - 1) -> SM!SliceState],
                  l2 : L2!Array, used2 : L2!Ranks,
                  mem : [Line -> [Offset -> Value]], panicked : BOOLEAN]
    /\ domain \in SM!Domains

Copies ==
    {n \in UNION {{hier.slices[i].cache[s][w] : s \in SM!Sets, w \in SM!Ways} :
                    i \in Slices} : n # None}

View == L2!Flattened(Copies, hier)
Agree == L2!AllAgree(Copies, hier)
=============================================================================
