-------------------------- MODULE CacheArrayLemmas --------------------------
(***************************************************************************)
(* Facts about the array of CacheArray that the proofs about the caches    *)
(* rest on.                                                                *)
(***************************************************************************)
EXTENDS CacheArray, TLAPS

\* The set a line selects is one of the sets.
LEMMA SetIndexInSets == \A l \in Line : SetIndex(l) \in Sets
BY GeometryAssumption DEF SetIndex, Sets

\* Touching a way keeps the ranks of its set in range.
LEMMA TouchInRanks ==
    ASSUME NEW r \in Ranks, NEW s \in Sets, NEW w \in Ways
    PROVE  Touch(r, s, w) \in Ranks
<1>1. ASSUME NEW v \in Ways
      PROVE  (IF v = w THEN Assoc - 1
              ELSE IF r[s][v] > r[s][w] THEN r[s][v] - 1
              ELSE r[s][v]) \in Ways
  <2>1. r[s][v] \in Ways /\ r[s][w] \in Ways
    BY DEF Ranks
  <2>2. QED
    BY <2>1, GeometryAssumption DEF Ways
<1>2. QED
  BY <1>1 DEF Touch, Ranks

\* The slot that holds a line is the one CopyOf names.
LEMMA CopyIsTheSlot ==
    ASSUME NEW c, Unique(c), NEW l \in Line, NEW w \in Ways, Holds(c, l, w)
    PROVE  Cached(c, l) /\ CopyOf(c, l) = c[SetIndex(l)][w]
BY DEF Unique, Cached, CopyOf

\* Putting line l into a slot of its set, when that slot held l or l was
\* nowhere: the array stays well formed, and no other line is disturbed but
\* the one that was in the slot.
LEMMA PutLine ==
    ASSUME NEW c \in Array, Placed(c), Unique(c),
           NEW l \in Line, NEW w \in Ways, NEW n \in CacheLine, n.line = l,
           Holds(c, l, w) \/ ~Cached(c, l)
    PROVE  LET d == Put(c, l, w, n) IN
           /\ d \in Array
           /\ d[SetIndex(l)][w] = n
           /\ \A s \in Sets, v \in Ways :
                  <<s, v>> # <<SetIndex(l), w>> => d[s][v] = c[s][v]
           /\ Holds(d, l, w)
           /\ \A m \in Line, v \in Ways :
                  m # l => (Holds(d, m, v) <=>
                              Holds(c, m, v) /\ <<SetIndex(m), v>> # <<SetIndex(l), w>>)
           /\ Placed(d)
           /\ Unique(d)
<1> DEFINE d == Put(c, l, w, n)
<1> USE SetIndexInSets
<1>1. d \in Array
  BY DEF Array, Put
<1>2. d[SetIndex(l)][w] = n
  BY DEF Array, Put
<1>3. \A s \in Sets, v \in Ways :
        <<s, v>> # <<SetIndex(l), w>> => d[s][v] = c[s][v]
  BY DEF Array, Put
<1> HIDE DEF d
<1>4. Holds(d, l, w)
  BY <1>2, GeometryAssumption DEF Holds
<1>5. \A m \in Line, v \in Ways :
        m # l => (Holds(d, m, v) <=>
                    Holds(c, m, v) /\ <<SetIndex(m), v>> # <<SetIndex(l), w>>)
  BY <1>2, <1>3, GeometryAssumption DEF Holds
<1>6. Placed(d)
  BY <1>2, <1>3 DEF Placed
<1>7. \A v \in Ways : Holds(d, l, v) => v = w
  <2> SUFFICES ASSUME NEW v \in Ways, Holds(d, l, v), v # w
               PROVE  FALSE
    OBVIOUS
  <2>1. Holds(c, l, v)
    BY <1>3 DEF Holds
  <2>2. QED
    BY <2>1 DEF Unique, Cached
<1>8. Unique(d)
  <2> SUFFICES ASSUME NEW m \in Line, NEW u \in Ways, NEW v \in Ways,
                      Holds(d, m, u), Holds(d, m, v)
               PROVE  u = v
    BY DEF Unique
  <2>1. CASE m = l
    BY <1>7, <2>1
  <2>2. CASE m # l
    BY <1>5, <2>2 DEF Unique
  <2>3. QED
    BY <2>1, <2>2
<1>9. QED
  BY <1>1, <1>2, <1>3, <1>4, <1>5, <1>6, <1>8 DEF d

\* Emptying the slot of line l takes out l and nothing else.
LEMMA DropLine ==
    ASSUME NEW c \in Array, Placed(c), Unique(c),
           NEW l \in Line, NEW w \in Ways, Holds(c, l, w)
    PROVE  LET d == Drop(c, l, w) IN
           /\ d \in Array
           /\ d[SetIndex(l)][w] = None
           /\ \A s \in Sets, v \in Ways :
                  <<s, v>> # <<SetIndex(l), w>> => d[s][v] = c[s][v]
           /\ ~Cached(d, l)
           /\ \A m \in Line, v \in Ways :
                  m # l => (Holds(d, m, v) <=> Holds(c, m, v))
           /\ Placed(d)
           /\ Unique(d)
<1> DEFINE d == Drop(c, l, w)
<1> USE SetIndexInSets
<1>1. d \in Array
  BY DEF Array, Drop
<1>2. d[SetIndex(l)][w] = None
  BY DEF Array, Drop
<1>3. \A s \in Sets, v \in Ways :
        <<s, v>> # <<SetIndex(l), w>> => d[s][v] = c[s][v]
  BY DEF Array, Drop
<1> HIDE DEF d
<1>4. \A m \in Line, v \in Ways :
        Holds(d, m, v) <=> Holds(c, m, v) /\ <<SetIndex(m), v>> # <<SetIndex(l), w>>
  BY <1>2, <1>3 DEF Holds
<1>5. ~Cached(d, l)
  BY <1>4 DEF Cached, Unique
<1>6. \A m \in Line, v \in Ways :
        m # l => (Holds(d, m, v) <=> Holds(c, m, v))
  BY <1>4 DEF Holds
<1>7. Placed(d)
  BY <1>2, <1>3 DEF Placed
<1>8. Unique(d)
  BY <1>4 DEF Unique
<1>9. QED
  BY <1>1, <1>2, <1>3, <1>5, <1>6, <1>7, <1>8 DEF d

\* No two ways of a set were used at the same time.
Ordered(r) == \A s \in Sets, u, v \in Ways : r[s][u] = r[s][v] => u = v

\* Touching a way makes it the newest of its set and keeps the order of the
\* others, in that set and in the other sets.
LEMMA TouchOrder ==
    ASSUME NEW r \in Ranks, Ordered(r), NEW s \in Sets, NEW w \in Ways
    PROVE  LET q == Touch(r, s, w) IN
           /\ q \in Ranks
           /\ Ordered(q)
           /\ \A u \in Ways : u # w => q[s][u] < q[s][w]
           /\ \A t \in Sets, u, v \in Ways :
                  t # s \/ (u # w /\ v # w)
                      => (q[t][u] < q[t][v] <=> r[t][u] < r[t][v])
<1> DEFINE q == Touch(r, s, w)
<1>1. q \in Ranks
  BY TouchInRanks
<1>2. \A t \in Sets : t # s => q[t] = r[t]
  BY DEF Touch, Ranks
<1>3. \A v \in Ways : q[s][v] = IF v = w THEN Assoc - 1
                                 ELSE IF r[s][v] > r[s][w] THEN r[s][v] - 1
                                 ELSE r[s][v]
  BY DEF Touch, Ranks
<1>4. \A t \in Sets, v \in Ways : r[t][v] \in 0..(Assoc - 1)
  BY DEF Ranks, Ways
<1>5. \A u, v \in Ways : u # v => r[s][u] # r[s][v]
  BY DEF Ordered
<1> HIDE DEF q
<1>6. \A u \in Ways : u # w => q[s][u] < q[s][w]
  <2> SUFFICES ASSUME NEW u \in Ways, u # w PROVE q[s][u] < q[s][w]
    OBVIOUS
  <2>1. r[s][u] # r[s][w]
    BY <1>5
  <2>2. q[s][w] = Assoc - 1
    BY <1>3
  <2>3. q[s][u] = IF r[s][u] > r[s][w] THEN r[s][u] - 1 ELSE r[s][u]
    BY <1>3
  <2>4. r[s][u] \in 0..(Assoc - 1) /\ r[s][w] \in 0..(Assoc - 1)
    BY <1>4
  <2>5. QED
    BY <2>1, <2>2, <2>3, <2>4, GeometryAssumption
<1>7. ASSUME NEW u \in Ways, NEW v \in Ways, u # w, v # w
      PROVE  /\ q[s][u] < q[s][v] <=> r[s][u] < r[s][v]
             /\ q[s][u] = q[s][v] => u = v
  <2>1. /\ r[s][u] # r[s][w] /\ r[s][v] # r[s][w]
        /\ u # v => r[s][u] # r[s][v]
    BY <1>5, <1>7
  <2>2. /\ q[s][u] = IF r[s][u] > r[s][w] THEN r[s][u] - 1 ELSE r[s][u]
        /\ q[s][v] = IF r[s][v] > r[s][w] THEN r[s][v] - 1 ELSE r[s][v]
    BY <1>3, <1>7
  <2>3. /\ r[s][u] \in 0..(Assoc - 1) /\ r[s][v] \in 0..(Assoc - 1)
        /\ r[s][w] \in 0..(Assoc - 1)
    BY <1>4
  <2>4. QED
    BY <2>1, <2>2, <2>3, GeometryAssumption
<1>8. Ordered(q)
  <2> SUFFICES ASSUME NEW t \in Sets, NEW u \in Ways, NEW v \in Ways,
                      q[t][u] = q[t][v]
               PROVE  u = v
    BY DEF Ordered
  <2>1. CASE t # s
    BY <2>1, <1>2 DEF Ordered
  <2>2. CASE t = s /\ (u = w \/ v = w)
    <3>1. q[s][u] \in Ways /\ q[s][v] \in Ways
      BY <1>1 DEF Ranks
    <3>2. q[s][u] \in Nat /\ q[s][v] \in Nat
      BY <3>1 DEF Ways
    <3>3. q[s][u] = q[s][v]
      BY <2>2
    <3>4. QED
      BY <2>2, <3>2, <3>3, <1>6
  <2>3. CASE t = s /\ u # w /\ v # w
    BY <2>3, <1>7
  <2>4. QED
    BY <2>1, <2>2, <2>3
<1>9. QED
  BY <1>1, <1>2, <1>6, <1>7, <1>8 DEF q
=============================================================================
