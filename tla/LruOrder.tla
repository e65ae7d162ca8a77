------------------------------ MODULE LruOrder ------------------------------
(***************************************************************************)
(* What "least recently used" promises of the contents of a                *)
(* set-associative cache, without ways and without use counters: the lines *)
(* that are there, and which of two lines of a set was used longer ago.    *)
(* When a line comes to a set that has Assoc others, the one used longest  *)
(* ago gives way.  An invalidation takes one line out.                     *)
(***************************************************************************)
EXTENDS Naturals, FiniteSets

CONSTANTS
    NumSets,    \* sets of the cache
    Assoc       \* ways of each set

VARIABLES
    lines,      \* the lines in the cache
    older       \* the pairs of lines of a set, the first used longer ago

Init == lines = {} /\ older = {}

\* The lines in the set of line l.
Peers(l) == {m \in lines : m % NumSets = l % NumSets}

\* The one among them whose last use is longest ago.
Oldest(l) == {m \in Peers(l) : \A n \in Peers(l) \ {m} : <<m, n>> \in older}

\* The line that gives way to line l, if one has to.
Displaced(l) ==
    IF l \notin lines /\ Cardinality(Peers(l)) = Assoc THEN Oldest(l) ELSE {}

\* The lines of ms stay, their order too.
Keep(ms) == older \cap (ms \X ms)

Access(l) ==
    LET kept == lines \ (Displaced(l) \cup {l}) IN
    /\ lines' = kept \cup {l}
    /\ older' = Keep(kept) \cup ((kept \cap Peers(l)) \X {l})

Drop(l) ==
    /\ lines' = lines \ {l}
    /\ older' = Keep(lines \ {l})
=============================================================================
