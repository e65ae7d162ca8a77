--------------------------- MODULE MCHierarchies ----------------------------
(***************************************************************************)
(* The three L1 designs that the machine makes the listener of its L2, for *)
(* TLC: HierarchyInit chooses one, which is used from then on.             *)
(* The BackCache is given fewer lines than the others, BackLine.           *)
(***************************************************************************)
EXTENDS Naturals, FiniteSets, TLC

CONSTANTS Line, Offset, Byte, Zero, None, L1Sets, L1Ways, L2Sets, L2Ways,
          BackLine, Slot, MinLines, MaxLines, SliceCounts, HighLine, LowLine

\* Both caches have a set and a way, and the constants of a design are what its
\* own module assumes of them.
ASSUME HierarchyAssumption ==
    /\ Line \subseteq Nat /\ BackLine \subseteq Line /\ Zero \in Byte
    /\ L1Sets \in Nat \ {0} /\ L1Ways \in Nat \ {0}
    /\ L2Sets \in Nat \ {0} /\ L2Ways \in Nat \ {0}
    /\ None \notin [line : Line, data : [Offset -> Byte], dirty : BOOLEAN]
    /\ None \notin [line : Line, data : [Offset -> Byte], dirty : BOOLEAN,
                    used : BOOLEAN]
    /\ None \notin {"High", "Low"}
    /\ IsFiniteSet(BackLine) /\ IsFiniteSet(Slot)
    /\ Cardinality(Slot) = L1Sets * L1Ways
    /\ MinLines \in Nat /\ MaxLines \in Nat
    /\ SliceCounts \subseteq Nat \ {0}
    /\ Line = HighLine \cup LowLine /\ HighLine \cap LowLine = {}

VARIABLES model, hier, reply, age, countdown, domain

hierarchyVars == <<model, hier, reply, age, countdown, domain>>

Plain == INSTANCE InclusiveHierarchy WITH Value <- Byte
Back == INSTANCE BackCacheHierarchy WITH Line <- BackLine, Value <- Byte
Smt == INSTANCE SmtCacheHierarchy WITH Value <- Byte

HierarchyInit ==
    \/ /\ model = "plain" /\ Plain!Init
       /\ age = None /\ countdown = None /\ domain = None
    \/ /\ model = "backcache" /\ Back!Init
       /\ reply = None /\ domain = None
    \/ /\ model = "smtcache" /\ Smt!Init
       /\ reply = None /\ age = None /\ countdown = None

HierarchyNext ==
    /\ \/ model = "plain" /\ Plain!Next /\ UNCHANGED <<age, countdown, domain>>
       \/ model = "backcache" /\ Back!Next /\ UNCHANGED <<reply, domain>>
       \/ model = "smtcache" /\ Smt!Next /\ UNCHANGED <<reply, age, countdown>>
    /\ UNCHANGED model

\* The backup slots are interchangeable.
SlotSymmetry == Permutations(Slot)

HierarchySpec == HierarchyInit /\ [][HierarchyNext]_hierarchyVars

-----------------------------------------------------------------------------

Copies ==
    CASE model = "plain" -> Plain!Copies
      [] model = "backcache" -> Back!Copies
      [] model = "smtcache" -> Smt!Copies

View ==
    CASE model = "plain" -> Plain!View
      [] model = "backcache" -> Back!View
      [] model = "smtcache" -> Smt!View

L2 == INSTANCE L2Cache
        WITH NumSets <- L2Sets, Assoc <- L2Ways, Value <- Byte

\* The state of the design in use is well formed.
HierarchyTypeOK ==
    CASE model = "plain" -> Plain!TypeOK
      [] model = "backcache" -> Back!TypeOK
      [] model = "smtcache" -> Smt!TypeOK

\* The hierarchy is inclusive: every line in front of the L2, in a backup slot
\* or a slice as in the L1, is in the L2, whatever the nested write-backs of
\* either side's victims do to the other one (L2 eviction calls the listener).
Inclusion == L2!Includes(Copies, hier)

\* What the layers know of each other: two copies in front of the L2 are equal,
\* a clean one is equal to the L2's, and a clean one in the L2 to the memory's.
CopiesAgree ==
    CASE model = "plain" -> Plain!Agree
      [] model = "backcache" -> Back!Agree
      [] model = "smtcache" -> Smt!Agree

\* The nested calls find what they need: no L2 eviction reaches the listener
\* while flush_slice has the slices borrowed, which would panic.
FlushIsNotReentered == model = "smtcache" => ~hier.panicked

DirtyInFront(l) == \E n \in Copies : n.line = l /\ n.dirty

\* What the victim of an L2 miss loses: it was dirty in front of the L2, and
\* after the call it is nowhere but in memory.
BackInvalidatedDirty(l) ==
    /\ DirtyInFront(l)
    /\ \A n \in Copies' : n.line # l
    /\ ~L2!Cached(hier'.l2, l)

StoreTo(l, o, v) ==
    CASE model = "plain" -> Plain!Store(l, o, v)
      [] model = "backcache" -> Back!Store(l, o, v)
      [] model = "smtcache" -> Smt!Store(l, o, v)

\* A call changes no line but the one it stores to, with one exception: a line
\* that the L2 evicts while a newer copy of it is in front.
OnlyBackInvalidationLoses ==
    [][\A l \in DOMAIN View :
        View'[l] # View[l] =>
            \/ \E o \in Offset, v \in Byte :
                    StoreTo(l, o, v) /\ View'[l] = [View[l] EXCEPT ![o] = v]
            \/ BackInvalidatedDirty(l)]_hierarchyVars

\* No copy of line l is newer than the memory.
Clean(l) ==
    /\ ~DirtyInFront(l)
    /\ L2!Cached(hier.l2, l) => ~L2!CopyOf(hier.l2, l).dirty

\* A line that is dirty nowhere stays so, and the memory is not written at it,
\* until it is stored to: no eviction, flush, resize or nested write-back of
\* another line touches it.  So a fetch that bypasses the caches and reads the
\* memory (fetch_instruction_u32 in the experiments) finds the code that was
\* loaded, until a program stores to that very code.
CleanUntilStored ==
    [][\A l \in DOMAIN View :
        Clean(l) =>
            \/ Clean(l)' /\ hier'.mem[l] = hier.mem[l]
            \/ \E o \in Offset, v \in Byte : StoreTo(l, o, v)]_hierarchyVars
=============================================================================
