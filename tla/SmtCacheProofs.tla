--------------------------- MODULE SmtCacheProofs ----------------------------
(***************************************************************************)
(* SmtCacheMemory is well formed, its slices are private, the classes do   *)
(* not disturb each other when each has a slice, and the cache is          *)
(* transparent, for every number of slices, every geometry and every set   *)
(* of lines and values.                                                    *)
(*                                                                         *)
(* An access may flush a slice before it looks the line up, so what the    *)
(* slices hold is stated for any family a of arrays, indexed by I, over    *)
(* any memory m; the state itself is the family Arrays over mem.           *)
(***************************************************************************)
EXTENDS SmtCacheMemory, CacheArrayLemmas

Backed(c, m) ==
    \A s \in Sets, w \in Ways :
        c[s][w] # None /\ ~c[s][w].dirty => c[s][w].data = m[c[s][w].line]

\* The arrays are well formed, agree with the memory where they are clean, and
\* no line is in two of them.
Fine(I, a, m) ==
    /\ a \in [I -> Array]
    /\ m \in [Line -> Data]
    /\ \A i \in I : Placed(a[i]) /\ Unique(a[i]) /\ Backed(a[i], m)
    /\ \A l \in Line : \A i, j \in I : Cached(a[i], l) /\ Cached(a[j], l) => i = j

ViewOf(I, a, m) ==
    [l \in Line |->
        LET copies == {i \in I : Cached(a[i], l)}
        IN  IF copies = {} THEN m[l]
            ELSE CopyOf(a[CHOOSE i \in copies : TRUE], l).data]

-----------------------------------------------------------------------------
(* What the flat memory says.                                              *)

\* Of a line that is in an array.
LEMMA ViewOfHeld ==
    ASSUME NEW I, NEW a, NEW m, Fine(I, a, m),
           NEW l \in Line, NEW i \in I, NEW w \in Ways, Holds(a[i], l, w)
    PROVE  ViewOf(I, a, m)[l] = a[i][SetIndex(l)][w].data
<1> DEFINE copies == {j \in I : Cached(a[j], l)}
<1>1. Cached(a[i], l) /\ CopyOf(a[i], l) = a[i][SetIndex(l)][w]
  BY CopyIsTheSlot DEF Fine
<1>2. copies = {i}
  BY <1>1 DEF Fine
<1>3. (CHOOSE j \in copies : TRUE) = i
  BY <1>2
<1>4. QED
  BY <1>1, <1>2, <1>3 DEF ViewOf

\* Of a line that is in none.
LEMMA ViewOfAbsent ==
    ASSUME NEW I, NEW a, NEW m, NEW l \in Line, \A i \in I : ~Cached(a[i], l)
    PROVE  ViewOf(I, a, m)[l] = m[l]
BY DEF ViewOf

\* The slot of a line holds a line of the right type.
LEMMA SlotType ==
    ASSUME NEW c \in Array, NEW s \in Sets, NEW w \in Ways
    PROVE  c[s][w] # None => /\ c[s][w] \in CacheLine
                             /\ c[s][w].line \in Line
                             /\ c[s][w].data \in Data
                             /\ c[s][w].dirty \in BOOLEAN
BY DEF Array, CacheLine

\* It is a flat memory.
LEMMA ViewType ==
    ASSUME NEW I, NEW a, NEW m, Fine(I, a, m)
    PROVE  ViewOf(I, a, m) \in [Line -> Data]
<1> SUFFICES ASSUME NEW l \in Line PROVE ViewOf(I, a, m)[l] \in Data
  BY DEF ViewOf
<1>1. CASE \A i \in I : ~Cached(a[i], l)
  BY <1>1, ViewOfAbsent DEF Fine
<1>2. ASSUME NEW i \in I, Cached(a[i], l)
      PROVE  ViewOf(I, a, m)[l] \in Data
  <2>1. PICK w \in Ways : Holds(a[i], l, w)
    BY <1>2 DEF Cached
  <2>2. QED
    BY <2>1, ViewOfHeld, SlotType, SetIndexInSets DEF Fine, Holds
<1>3. QED
  BY <1>1, <1>2

\* It is determined by what it says of each line.
LEMMA ViewIsPointwise ==
    ASSUME NEW I, NEW a, NEW m, NEW f, f = [l \in Line |-> f[l]],
           \A l \in Line : ViewOf(I, a, m)[l] = f[l]
    PROVE  ViewOf(I, a, m) = f
<1>1. ViewOf(I, a, m) = [l \in Line |-> ViewOf(I, a, m)[l]]
  BY DEF ViewOf
<1>2. QED
  BY <1>1

-----------------------------------------------------------------------------
(* A line goes into an array.                                              *)

\* Line n for l takes way w of array i, where l was or which it now gets, and
\* the memory has what was in the way: the family stays fine and only l
\* changes, to the data of n.
LEMMA PutFine ==
    ASSUME NEW I, NEW a, NEW m, Fine(I, a, m),
           NEW i \in I, NEW l \in Line, NEW w \in Ways,
           NEW n \in CacheLine, n.line = l,
           \A j \in I : j # i => ~Cached(a[j], l),
           Holds(a[i], l, w) \/ ~Cached(a[i], l),
           NEW mm \in [Line -> Data],
           \A x \in Line : x # l =>
               mm[x] = IF a[i][SetIndex(l)][w] # None /\ x = a[i][SetIndex(l)][w].line
                       THEN a[i][SetIndex(l)][w].data ELSE m[x],
           n.dirty \/ n.data = mm[l]
    PROVE  LET b == [a EXCEPT ![i] = Put(a[i], l, w, n)] IN
           /\ Fine(I, b, mm)
           /\ ViewOf(I, b, mm) = [ViewOf(I, a, m) EXCEPT ![l] = n.data]
<1> DEFINE s == SetIndex(l)
           old == a[i][s][w]
           c == Put(a[i], l, w, n)
           b == [a EXCEPT ![i] = c]
<1>0. /\ a \in [I -> Array] /\ m \in [Line -> Data] /\ s \in Sets
      /\ \A j \in I : Placed(a[j]) /\ Unique(a[j]) /\ Backed(a[j], m)
      /\ \A x \in Line : \A j, k \in I : Cached(a[j], x) /\ Cached(a[k], x) => j = k
  BY SetIndexInSets DEF Fine
<1>1. /\ c \in Array
      /\ c[s][w] = n
      /\ \A t \in Sets, v \in Ways : <<t, v>> # <<s, w>> => c[t][v] = a[i][t][v]
      /\ Holds(c, l, w)
      /\ \A x \in Line, v \in Ways :
            x # l => (Holds(c, x, v) <=>
                        Holds(a[i], x, v) /\ <<SetIndex(x), v>> # <<s, w>>)
      /\ Placed(c)
      /\ Unique(c)
  BY <1>0, PutLine
<1> HIDE DEF c
<1>2. b \in [I -> Array] /\ \A j \in I : b[j] = IF j = i THEN c ELSE a[j]
  BY <1>0, <1>1
<1> HIDE DEF b
<1>3. old # None => /\ old.line \in Line
                    /\ SetIndex(old.line) = s
                    /\ Holds(a[i], old.line, w)
  <2> SUFFICES ASSUME old # None
               PROVE  /\ old.line \in Line /\ SetIndex(old.line) = s
                      /\ Holds(a[i], old.line, w)
    OBVIOUS
  <2>1. old.line \in Line /\ SetIndex(old.line) = s
    BY <1>0, SlotType DEF Placed
  <2>2. QED
    BY <2>1 DEF Holds
<1>4. \A j \in I : \A x \in Line : Cached(b[j], x) => Cached(a[j], x) \/ (j = i /\ x = l)
  BY <1>1, <1>2 DEF Cached
<1>5. \A x \in Line : \A j, k \in I : Cached(b[j], x) /\ Cached(b[k], x) => j = k
  BY <1>0, <1>4
<1>6. ASSUME NEW j \in I PROVE Backed(b[j], mm)
  <2> SUFFICES ASSUME NEW t \in Sets, NEW v \in Ways,
                      b[j][t][v] # None, ~b[j][t][v].dirty
               PROVE  b[j][t][v].data = mm[b[j][t][v].line]
    BY DEF Backed
  <2>1. CASE j = i /\ <<t, v>> = <<s, w>>
    BY <2>1, <1>1, <1>2
  <2>2. CASE ~(j = i /\ <<t, v>> = <<s, w>>)
    <3> DEFINE x == a[j][t][v].line
    <3>1. b[j][t][v] = a[j][t][v] /\ a[j] \in Array
      BY <2>2, <1>0, <1>1, <1>2
    <3>2. x \in Line /\ t = SetIndex(x) /\ a[j][t][v].data = m[x] /\ Holds(a[j], x, v)
      <4>1. x \in Line
        BY <3>1, SlotType
      <4>2. t = SetIndex(x) /\ a[j][t][v].data = m[x]
        BY <3>1, <1>0 DEF Placed, Backed
      <4>3. QED
        BY <4>1, <4>2, <3>1 DEF Holds
    <3>3. Holds(b[j], x, v)
      BY <3>1, <3>2 DEF Holds
    <3>4. x # l
      <4> SUFFICES ASSUME x = l PROVE FALSE
        OBVIOUS
      <4>1. j = i
        BY <3>2 DEF Cached
      <4>2. v = w
        BY <4>1, <3>3, <3>2, <1>1, <1>2 DEF Unique
      <4>3. QED
        BY <4>1, <4>2, <3>2, <2>2
    <3>5. old # None => x # old.line
      <4> SUFFICES ASSUME old # None, x = old.line PROVE FALSE
        OBVIOUS
      <4>1. j = i
        BY <3>2, <1>0, <1>3 DEF Cached
      <4>2. v = w
        BY <4>1, <3>2, <1>0, <1>3 DEF Unique
      <4>3. QED
        BY <4>1, <4>2, <3>2, <1>3, <2>2
    <3>6. QED
      BY <3>1, <3>2, <3>4, <3>5
  <2>3. QED
    BY <2>1, <2>2
<1>7. Fine(I, b, mm)
  BY <1>0, <1>1, <1>2, <1>5, <1>6 DEF Fine
<1>8. ViewOf(I, b, mm)[l] = n.data
  BY <1>1, <1>2, <1>7, ViewOfHeld
<1>9. ASSUME NEW x \in Line, x # l
      PROVE  ViewOf(I, b, mm)[x] = ViewOf(I, a, m)[x]
  <2>1. CASE old # None /\ x = old.line
    <3>1. ViewOf(I, a, m)[x] = old.data
      BY <2>1, <1>3, ViewOfHeld
    <3>2. \A j \in I : ~Cached(b[j], x)
      <4> SUFFICES ASSUME NEW j \in I, NEW v \in Ways, Holds(b[j], x, v)
                   PROVE  FALSE
        BY DEF Cached
      <4>1. Cached(a[j], x) /\ Cached(a[i], x)
        BY <2>1, <1>3, <1>4, <1>9 DEF Cached
      <4>2. j = i
        BY <4>1, <1>0
      <4>3. Holds(a[i], x, v) /\ <<SetIndex(x), v>> # <<s, w>>
        BY <4>2, <1>1, <1>2, <1>9
      <4>4. v = w
        BY <4>3, <2>1, <1>3, <1>0 DEF Unique
      <4>5. QED
        BY <4>3, <4>4, <2>1, <1>3
    <3>3. QED
      BY <3>1, <3>2, <2>1, <1>9, ViewOfAbsent
  <2>2. ASSUME old = None \/ x # old.line,
               NEW j \in I, NEW v \in Ways, Holds(a[j], x, v)
        PROVE  ViewOf(I, b, mm)[x] = ViewOf(I, a, m)[x]
    <3>1. ~(j = i /\ <<SetIndex(x), v>> = <<s, w>>)
      BY <2>2 DEF Holds
    <3>2. Holds(b[j], x, v) /\ b[j][SetIndex(x)][v] = a[j][SetIndex(x)][v]
      BY <2>2, <3>1, <1>1, <1>2, <1>9, SetIndexInSets
    <3>3. QED
      BY <2>2, <3>2, <1>7, ViewOfHeld
  <2>3. CASE (old = None \/ x # old.line) /\ \A j \in I : ~Cached(a[j], x)
    <3>1. \A j \in I : ~Cached(b[j], x)
      BY <2>3, <1>4, <1>9
    <3>2. QED
      BY <2>3, <3>1, <1>9, ViewOfAbsent
  <2>4. QED
    BY <2>1, <2>2, <2>3 DEF Cached
<1>10. ViewOf(I, b, mm) = [ViewOf(I, a, m) EXCEPT ![l] = n.data]
  <2> DEFINE f == [ViewOf(I, a, m) EXCEPT ![l] = n.data]
  <2>1. ViewOf(I, a, m) \in [Line -> Data]
    BY ViewType
  <2>2. /\ f = [x \in Line |-> f[x]]
        /\ \A x \in Line : f[x] = IF x = l THEN n.data ELSE ViewOf(I, a, m)[x]
    BY <2>1
  <2> HIDE DEF f
  <2>3. ViewOf(I, b, mm) = f
    BY <2>2, <1>8, <1>9, ViewIsPointwise
  <2>4. QED
    BY <2>3 DEF f
<1>11. QED
  BY <1>7, <1>10 DEF b, c

-----------------------------------------------------------------------------
(* Lines go out.                                                           *)

\* Any lines may leave the arrays if the memory ends with their data: the
\* family stays fine and says the same of every line.
LEMMA TakeOutFine ==
    ASSUME NEW I, NEW a, NEW m, Fine(I, a, m),
           NEW b \in [I -> Array], NEW mm \in [Line -> Data],
           \A i \in I : \A s \in Sets, w \in Ways : b[i][s][w] \in {None, a[i][s][w]},
           \A i \in I : \A l \in Line, w \in Ways :
               Holds(a[i], l, w) /\ ~Holds(b[i], l, w)
                   => mm[l] = a[i][SetIndex(l)][w].data,
           \A l \in Line : (\A i \in I : ~Cached(a[i], l)) => mm[l] = m[l],
           \A i \in I : \A l \in Line, w \in Ways :
               Holds(b[i], l, w) => mm[l] = m[l]
    PROVE  Fine(I, b, mm) /\ ViewOf(I, b, mm) = ViewOf(I, a, m)
<1>0. /\ a \in [I -> Array] /\ m \in [Line -> Data]
      /\ \A j \in I : Placed(a[j]) /\ Unique(a[j]) /\ Backed(a[j], m)
      /\ \A x \in Line : \A j, k \in I : Cached(a[j], x) /\ Cached(a[k], x) => j = k
  BY DEF Fine
<1>1. \A j \in I : \A x \in Line, w \in Ways :
         Holds(b[j], x, w) => /\ Holds(a[j], x, w)
                              /\ b[j][SetIndex(x)][w] = a[j][SetIndex(x)][w]
  BY SetIndexInSets DEF Holds
<1>2. ASSUME NEW j \in I
      PROVE  Placed(b[j]) /\ Unique(b[j]) /\ Backed(b[j], mm)
  <2>1. Placed(b[j])
    BY <1>0 DEF Placed
  <2>2. Unique(b[j])
    BY <1>0, <1>1 DEF Unique
  <2>3. Backed(b[j], mm)
    <3> SUFFICES ASSUME NEW s \in Sets, NEW w \in Ways,
                        b[j][s][w] # None, ~b[j][s][w].dirty
                 PROVE  b[j][s][w].data = mm[b[j][s][w].line]
      BY DEF Backed
    <3> DEFINE x == b[j][s][w].line
    <3>1. b[j][s][w] = a[j][s][w] /\ x \in Line
      BY SlotType
    <3>2. a[j][s][w].data = m[x]
      BY <1>0, <3>1 DEF Backed
    <3>3. Holds(b[j], x, w)
      BY <2>1 DEF Holds, Placed
    <3>4. QED
      BY <3>1, <3>2, <3>3
  <2>4. QED
    BY <2>1, <2>2, <2>3
<1>3. \A x \in Line : \A j, k \in I : Cached(b[j], x) /\ Cached(b[k], x) => j = k
  BY <1>0, <1>1 DEF Cached
<1>4. Fine(I, b, mm)
  BY <1>2, <1>3 DEF Fine
<1>5. ASSUME NEW x \in Line
      PROVE  ViewOf(I, b, mm)[x] = ViewOf(I, a, m)[x]
  <2>1. ASSUME NEW j \in I, NEW w \in Ways, Holds(b[j], x, w)
        PROVE  ViewOf(I, b, mm)[x] = ViewOf(I, a, m)[x]
    BY <2>1, <1>1, <1>4, ViewOfHeld
  <2>2. ASSUME \A k \in I : ~Cached(b[k], x), NEW j \in I, NEW w \in Ways, Holds(a[j], x, w)
        PROVE  ViewOf(I, b, mm)[x] = ViewOf(I, a, m)[x]
    <3>1. ViewOf(I, a, m)[x] = a[j][SetIndex(x)][w].data
      BY <2>2, ViewOfHeld
    <3>2. ~Holds(b[j], x, w)
      BY <2>2 DEF Cached
    <3>3. QED
      BY <2>2, <3>1, <3>2, ViewOfAbsent
  <2>3. CASE (\A k \in I : ~Cached(b[k], x)) /\ \A k \in I : ~Cached(a[k], x)
    BY <2>3, ViewOfAbsent
  <2>4. QED
    BY <2>1, <2>2, <2>3 DEF Cached
<1>6. ViewOf(I, a, m) = [x \in Line |-> ViewOf(I, a, m)[x]]
  BY DEF ViewOf
<1>7. QED
  BY <1>4, <1>5, <1>6, ViewIsPointwise

\* A flush empties one array into the memory.
LEMMA FlushFine ==
    ASSUME NEW I, NEW a, NEW m, Fine(I, a, m), NEW i \in I
    PROVE  LET b == [a EXCEPT ![i] = NoLines]
               mm == FlushedTo(m, a[i])
           IN  Fine(I, b, mm) /\ ViewOf(I, b, mm) = ViewOf(I, a, m)
<1> DEFINE b == [a EXCEPT ![i] = NoLines]
           mm == FlushedTo(m, a[i])
<1>0. /\ a \in [I -> Array] /\ m \in [Line -> Data]
      /\ \A j \in I : Placed(a[j]) /\ Unique(a[j]) /\ Backed(a[j], m)
      /\ \A x \in Line : \A j, k \in I : Cached(a[j], x) /\ Cached(a[k], x) => j = k
  BY DEF Fine
<1>1. NoLines \in Array /\ \A s \in Sets, w \in Ways : NoLines[s][w] = None
  BY DEF NoLines, Array
<1>2. b \in [I -> Array] /\ \A j \in I : b[j] = IF j = i THEN NoLines ELSE a[j]
  BY <1>0, <1>1
<1>3. ASSUME NEW x \in Line, NEW w \in Ways, Holds(a[i], x, w)
      PROVE  mm[x] = a[i][SetIndex(x)][w].data
  <2>1. Cached(a[i], x) /\ CopyOf(a[i], x) = a[i][SetIndex(x)][w]
    BY <1>0, <1>3, CopyIsTheSlot
  <2>2. mm[x] = IF a[i][SetIndex(x)][w].dirty THEN a[i][SetIndex(x)][w].data ELSE m[x]
    BY <2>1 DEF FlushedTo
  <2>3. ~a[i][SetIndex(x)][w].dirty => a[i][SetIndex(x)][w].data = m[x]
    BY <1>0, <1>3, SetIndexInSets DEF Backed, Holds
  <2>4. QED
    BY <2>2, <2>3
<1>4. \A x \in Line : ~Cached(a[i], x) => mm[x] = m[x]
  BY DEF FlushedTo
<1>5. mm \in [Line -> Data]
  <2>1. mm = [x \in Line |-> mm[x]]
    BY DEF FlushedTo
  <2>2. \A x \in Line : mm[x] \in Data
    <3> SUFFICES ASSUME NEW x \in Line PROVE mm[x] \in Data
      OBVIOUS
    <3>1. CASE ~Cached(a[i], x)
      BY <3>1, <1>0, <1>4
    <3>2. ASSUME NEW w \in Ways, Holds(a[i], x, w)
          PROVE  mm[x] \in Data
      BY <3>2, <1>0, <1>3, SlotType, SetIndexInSets DEF Holds
    <3>3. QED
      BY <3>1, <3>2 DEF Cached
  <2> HIDE DEF mm
  <2>3. QED
    BY <2>1, <2>2
<1> HIDE DEF b, mm
<1>6. \A j \in I : \A s \in Sets, w \in Ways : b[j][s][w] \in {None, a[j][s][w]}
  BY <1>1, <1>2
<1>7. \A j \in I : \A x \in Line, w \in Ways :
         Holds(a[j], x, w) /\ ~Holds(b[j], x, w) => mm[x] = a[j][SetIndex(x)][w].data
  BY <1>2, <1>3
<1>8. \A j \in I : \A x \in Line, w \in Ways : Holds(b[j], x, w) => mm[x] = m[x]
  <2> SUFFICES ASSUME NEW j \in I, NEW x \in Line, NEW w \in Ways, Holds(b[j], x, w)
               PROVE  mm[x] = m[x]
    OBVIOUS
  <2>1. j # i /\ Cached(a[j], x)
    BY <1>1, <1>2, SetIndexInSets DEF Holds, Cached
  <2>2. QED
    BY <2>1, <1>0, <1>4
<1>9. Fine(I, b, mm) /\ ViewOf(I, b, mm) = ViewOf(I, a, m)
  BY <1>2, <1>4, <1>5, <1>6, <1>7, <1>8, TakeOutFine
<1>10. QED
  BY <1>9 DEF b, mm

\* An array without the ways that hold a line.
LEMMA PurgedArray ==
    ASSUME NEW c \in Array, Placed(c), NEW l \in Line
    PROVE  /\ Purged(c, l) \in Array
           /\ \A s \in Sets, w \in Ways :
                 Purged(c, l)[s][w] = IF s = SetIndex(l) /\ Holds(c, l, w) THEN None
                                      ELSE c[s][w]
           /\ ~Cached(Purged(c, l), l)
           /\ \A x \in Line, w \in Ways :
                 x # l => (Holds(Purged(c, l), x, w) <=> Holds(c, x, w))
<1> DEFINE d == Purged(c, l)
<1>1. SetIndex(l) \in Sets
  BY SetIndexInSets
<1>2. /\ d \in Array
      /\ \A s \in Sets, w \in Ways :
            d[s][w] = IF s = SetIndex(l) /\ Holds(c, l, w) THEN None ELSE c[s][w]
  BY <1>1 DEF Purged, Array
<1> HIDE DEF d
<1>3. ~Cached(d, l)
  BY <1>1, <1>2 DEF Cached, Holds
<1>4. \A x \in Line, w \in Ways : x # l => (Holds(d, x, w) <=> Holds(c, x, w))
  BY <1>2, SetIndexInSets DEF Holds
<1>5. QED
  BY <1>2, <1>3, <1>4 DEF d

\* What an invalidation of line l leaves in the memory: every array but one
\* lacks the line.
PurgedInto(I, a, m, l) ==
    LET dirty == {i \in I : Cached(a[i], l) /\ CopyOf(a[i], l).dirty}
    IN  IF dirty = {} THEN m
        ELSE [m EXCEPT ![l] = CopyOf(a[CHOOSE i \in dirty : TRUE], l).data]

\* An invalidation takes one line out of every array, into the memory.
LEMMA PurgeFine ==
    ASSUME NEW I, NEW a, NEW m, Fine(I, a, m), NEW l \in Line,
           NEW b, b = [i \in I |-> Purged(a[i], l)]
    PROVE  /\ Fine(I, b, PurgedInto(I, a, m, l))
           /\ ViewOf(I, b, PurgedInto(I, a, m, l)) = ViewOf(I, a, m)
<1> DEFINE dirty == {i \in I : Cached(a[i], l) /\ CopyOf(a[i], l).dirty}
           mm == PurgedInto(I, a, m, l)
<1>0. /\ a \in [I -> Array] /\ m \in [Line -> Data] /\ SetIndex(l) \in Sets
      /\ \A j \in I : Placed(a[j]) /\ Unique(a[j]) /\ Backed(a[j], m)
      /\ \A x \in Line : \A j, k \in I : Cached(a[j], x) /\ Cached(a[k], x) => j = k
  BY SetIndexInSets DEF Fine
<1>1. \A i \in I : b[i] = Purged(a[i], l)
  OBVIOUS
<1>2. mm = IF dirty = {} THEN m
           ELSE [m EXCEPT ![l] = CopyOf(a[CHOOSE i \in dirty : TRUE], l).data]
  BY DEF PurgedInto
<1> HIDE DEF mm
<1>3. /\ b \in [I -> Array]
      /\ \A i \in I : \A s \in Sets, w \in Ways :
            b[i][s][w] = IF s = SetIndex(l) /\ Holds(a[i], l, w) THEN None
                         ELSE a[i][s][w]
      /\ \A i \in I : ~Cached(b[i], l)
      /\ \A i \in I : \A x \in Line, w \in Ways :
            x # l => (Holds(b[i], x, w) <=> Holds(a[i], x, w))
  BY <1>0, <1>1, PurgedArray
<1>4. ASSUME NEW i \in I, NEW w \in Ways, Holds(a[i], l, w)
      PROVE  /\ mm \in [Line -> Data]
             /\ mm[l] = a[i][SetIndex(l)][w].data
             /\ \A x \in Line : x # l => mm[x] = m[x]
  <2> DEFINE n == a[i][SetIndex(l)][w]
  <2>1. /\ Cached(a[i], l) /\ CopyOf(a[i], l) = n
        /\ n # None /\ n.data \in Data
    BY <1>0, <1>4, CopyIsTheSlot, SlotType DEF Holds
  <2>2. CASE n.dirty
    <3>1. dirty = {i}
      BY <2>1, <2>2, <1>0
    <3>2. (CHOOSE j \in dirty : TRUE) = i
      BY <3>1
    <3>3. mm = [m EXCEPT ![l] = n.data]
      BY <1>2, <2>1, <3>1, <3>2
    <3>4. QED
      BY <3>3, <2>1, <1>0
  <2>3. CASE ~n.dirty
    <3>1. dirty = {}
      BY <2>1, <2>3, <1>0
    <3>2. mm = m
      BY <1>2, <3>1
    <3>3. n.data = m[l]
      BY <2>1, <2>3, <1>0, <1>4 DEF Backed, Holds
    <3>4. QED
      BY <3>2, <3>3, <1>0
  <2>4. QED
    BY <2>2, <2>3
<1>5. (\A i \in I : ~Cached(a[i], l)) => mm = m
  <2>1. (\A i \in I : ~Cached(a[i], l)) => dirty = {}
    OBVIOUS
  <2>2. QED
    BY <1>2, <2>1
<1>6. mm \in [Line -> Data] /\ \A x \in Line : x # l => mm[x] = m[x]
  BY <1>0, <1>4, <1>5 DEF Cached
<1>7. \A i \in I : \A s \in Sets, w \in Ways : b[i][s][w] \in {None, a[i][s][w]}
  BY <1>3
<1>8. \A i \in I : \A x \in Line, w \in Ways :
         Holds(a[i], x, w) /\ ~Holds(b[i], x, w) => mm[x] = a[i][SetIndex(x)][w].data
  BY <1>3, <1>4
<1>9. \A i \in I : \A x \in Line, w \in Ways : Holds(b[i], x, w) => mm[x] = m[x]
  BY <1>3, <1>6 DEF Cached
<1>10. \A x \in Line : (\A i \in I : ~Cached(a[i], x)) => mm[x] = m[x]
  BY <1>5, <1>6
<1>11. Fine(I, b, mm) /\ ViewOf(I, b, mm) = ViewOf(I, a, m)
  BY <1>3, <1>6, <1>7, <1>8, <1>9, <1>10, TakeOutFine
<1>12. QED
  BY <1>11 DEF mm

-----------------------------------------------------------------------------
(* The state.                                                              *)

Arrays == [i \in Slices |-> slices[i].cache]

Inv == TypeOK /\ SlicesArePrivate /\ Fine(Slices, Arrays, mem)

Replies ==
    [op : {"none"}] \cup [op : {"load"}, line : Line, off : Offset, val : Value]

\* The slices are numbered from zero, and there is one.
LEMMA SlicesType ==
    ASSUME TypeOK
    PROVE  /\ slices = [i \in Slices |-> slices[i]]
           /\ \A i \in Slices : slices[i] \in SliceState
           /\ Slices \subseteq Nat /\ 0 \in Slices
<1>1. PICK n \in SliceCounts : slices \in [0..(n - 1) -> SliceState]
  BY DEF TypeOK
<1>2. Slices = 0..(n - 1) /\ n \in Nat \ {0}
  BY <1>1, SmtCacheAssumption DEF Slices
<1>3. QED
  BY <1>1, <1>2

\* The flat memory of some slices is that of the family of their arrays.
LEMMA ViewOfSlices ==
    ASSUME NEW ss, NEW m
    PROVE  [l \in Line |->
              LET copies == {i \in DOMAIN ss : Cached(ss[i].cache, l)}
              IN  IF copies = {} THEN m[l]
                  ELSE CopyOf(ss[CHOOSE i \in copies : TRUE].cache, l).data]
           = ViewOf(DOMAIN ss, [i \in DOMAIN ss |-> ss[i].cache], m)
<1> DEFINE a == [i \in DOMAIN ss |-> ss[i].cache]
           copies(l) == {i \in DOMAIN ss : Cached(ss[i].cache, l)}
           says(l) == IF copies(l) = {} THEN m[l]
                      ELSE CopyOf(ss[CHOOSE i \in copies(l) : TRUE].cache, l).data
<1>1. ASSUME NEW l \in Line PROVE says(l) = ViewOf(DOMAIN ss, a, m)[l]
  <2>1. \A i \in DOMAIN ss : a[i] = ss[i].cache
    OBVIOUS
  <2>2. copies(l) = {i \in DOMAIN ss : Cached(a[i], l)}
    BY <2>1
  <2>3. CASE copies(l) = {}
    BY <2>2, <2>3 DEF ViewOf
  <2>4. CASE copies(l) # {}
    <3> DEFINE held == {i \in DOMAIN ss : Cached(a[i], l)}
               j == CHOOSE i \in copies(l) : TRUE
    <3>1. j \in DOMAIN ss
      BY <2>4
    <3>2. a[j] = ss[j].cache
      BY <2>1, <3>1
    <3>3. copies(l) = held
      BY <2>2
    <3>4. ViewOf(DOMAIN ss, a, m)[l] =
             IF held = {} THEN m[l] ELSE CopyOf(a[CHOOSE i \in held : TRUE], l).data
      BY DEF ViewOf
    <3> HIDE DEF a, held, copies
    <3>5. QED
      BY <2>4, <3>2, <3>3, <3>4
  <2>5. QED
    BY <2>3, <2>4
<1>2. ViewOf(DOMAIN ss, a, m) = [l \in Line |-> ViewOf(DOMAIN ss, a, m)[l]]
  BY DEF ViewOf
<1>3. [l \in Line |-> says(l)] = ViewOf(DOMAIN ss, a, m)
  BY <1>1, <1>2
<1>4. QED
  BY <1>3

\* So for the slices of the state, before a step and after it.
LEMMA ViewIsViewOf ==
    /\ View = ViewOf(Slices, Arrays, mem)
    /\ View' = ViewOf(Slices', Arrays', mem')
<1>1. View = ViewOf(Slices, Arrays, mem)
  BY ViewOfSlices DEF View, Slices, Arrays
<1>2. View' = ViewOf(Slices', Arrays', mem')
  BY ViewOfSlices DEF View, Slices, Arrays
<1>3. QED
  BY <1>1, <1>2

\* A line belongs to one class.
LEMMA LinesArePrivate ==
    ASSUME NEW d \in Domains, NEW e \in Domains, d # e
    PROVE  LinesOf(d) \subseteq Line /\ LinesOf(d) \cap LinesOf(e) = {}
BY SmtCacheAssumption DEF LinesOf, Domains

\* A line that is in a slice belongs to the slice's owner.
LEMMA CachedIsOwners ==
    ASSUME Inv, NEW i \in Slices, NEW l \in Line, Cached(slices[i].cache, l)
    PROVE  slices[i].owner \in Domains /\ l \in LinesOf(slices[i].owner)
<1>1. PICK w \in Ways : Holds(slices[i].cache, l, w)
  BY DEF Cached
<1>2. slices[i].owner # None /\ l \in LinesOf(slices[i].owner)
  BY <1>1, SetIndexInSets DEF Inv, SlicesArePrivate, Holds
<1>3. slices[i].owner \in Domains \cup {None}
  BY SlicesType DEF Inv, SliceState
<1>4. QED
  BY <1>2, <1>3

\* The slice an access goes to: flushed if it was another class's, it holds
\* lines of the class alone, which has no other slice; the flush has kept the
\* flat memory.
LEMMA ActiveFinds ==
    ASSUME Inv, NEW i \in Slices, Active(i)
    PROVE  LET a == [Arrays EXCEPT ![i] = ArrayOf(i)] IN
           /\ Fine(Slices, a, MemoryFor(i))
           /\ ViewOf(Slices, a, MemoryFor(i)) = View
           /\ \A j \in Slices : j # i => slices[j].owner # domain
           /\ \A s \in Sets, w \in Ways :
                 ArrayOf(i)[s][w] # None => ArrayOf(i)[s][w].line \in LinesOf(domain)
           /\ slices[i].owner \in {domain, None} \/ Reassigned(i)
<1>0. /\ TypeOK /\ Fine(Slices, Arrays, mem) /\ View = ViewOf(Slices, Arrays, mem)
      /\ domain \in Domains /\ domain # None
      /\ Arrays[i] = slices[i].cache
      /\ \A s \in Sets, w \in Ways :
            slices[i].cache[s][w] # None
               => /\ slices[i].owner # None
                  /\ slices[i].cache[s][w].line \in LinesOf(slices[i].owner)
  BY ViewIsViewOf, SmtCacheAssumption
  DEF Inv, TypeOK, Arrays, SlicesArePrivate
<1>1. CASE Reassigned(i)
  <2>1. ArrayOf(i) = NoLines /\ MemoryFor(i) = FlushedTo(mem, Arrays[i])
    BY <1>0, <1>1 DEF ArrayOf, MemoryFor
  <2>2. \A s \in Sets, w \in Ways : NoLines[s][w] = None
    BY DEF NoLines
  <2>3. \A j \in Slices : slices[j].owner # domain
    BY <1>1 DEF Reassigned
  <2>4. QED
    BY <1>0, <1>1, <2>1, <2>2, <2>3, FlushFine
<1>2. CASE ~Reassigned(i)
  <2>1. ArrayOf(i) = slices[i].cache /\ MemoryFor(i) = mem
    BY <1>2 DEF ArrayOf, MemoryFor
  <2>2. [Arrays EXCEPT ![i] = ArrayOf(i)] = Arrays
    BY <1>0, <2>1 DEF Arrays
  <2>3. Owned(i) \/ Claimed(i)
    BY <1>2 DEF Active
  <2>4. slices[i].owner \in {domain, None}
    BY <2>3 DEF Owned, Claimed
  <2>5. \A j \in Slices : j # i => slices[j].owner # domain
    BY <2>3, <1>0 DEF Owned, Claimed, Inv, SlicesArePrivate
  <2>6. \A s \in Sets, w \in Ways :
           ArrayOf(i)[s][w] # None => ArrayOf(i)[s][w].line \in LinesOf(domain)
    BY <1>0, <2>1, <2>4
  <2>7. QED
    BY <1>0, <2>1, <2>2, <2>4, <2>5, <2>6
<1>3. QED
  BY <1>1, <1>2

\* No other slice holds a line of the class.
LEMMA OthersLack ==
    ASSUME Inv, NEW i \in Slices, Active(i), NEW l \in LinesOf(domain)
    PROVE  /\ l \in Line
           /\ \A j \in Slices : j # i => ~Cached(slices[j].cache, l)
<1>0. domain \in Domains /\ l \in Line
  BY SmtCacheAssumption DEF Inv, TypeOK, LinesOf
<1> SUFFICES ASSUME NEW j \in Slices, j # i, Cached(slices[j].cache, l)
             PROVE  FALSE
  BY <1>0
<1>1. slices[j].owner \in Domains /\ l \in LinesOf(slices[j].owner)
  BY <1>0, CachedIsOwners
<1>2. slices[j].owner # domain
  BY ActiveFinds
<1>3. QED
  BY <1>0, <1>1, <1>2, LinesArePrivate

\* An access ends with line n for l in way w of the active slice: the state
\* stays well formed, and l alone changes, to the data of n.
LEMMA KeepEffect ==
    ASSUME Inv, NEW i \in Slices, Active(i),
           NEW l \in LinesOf(domain), NEW w \in Ways,
           NEW n \in CacheLine, n.line = l,
           Holds(ArrayOf(i), l, w) \/ ~Cached(ArrayOf(i), l),
           mem' \in [Line -> Data],
           \A x \in Line : x # l =>
               mem'[x] = IF LineIn(i, l, w) # None /\ x = LineIn(i, l, w).line
                         THEN LineIn(i, l, w).data ELSE MemoryFor(i)[x],
           n.dirty \/ n.data = mem'[l],
           Keep(i, l, w, n), domain' = domain, reply' \in Replies
    PROVE  Inv' /\ View' = [View EXCEPT ![l] = n.data]
<1> DEFINE a == [Arrays EXCEPT ![i] = ArrayOf(i)]
           c == Put(ArrayOf(i), l, w, n)
           r == Touch(slices[i].rank, SetIndex(l), w)
           b == [a EXCEPT ![i] = Put(a[i], l, w, n)]
<1>0. /\ TypeOK /\ SlicesArePrivate /\ domain \in Domains /\ domain # None
      /\ slices = [j \in Slices |-> slices[j]]
      /\ \A j \in Slices : slices[j] \in SliceState
      /\ l \in Line /\ SetIndex(l) \in Sets
      /\ Arrays = [j \in Slices |-> slices[j].cache]
  <2>1. TypeOK /\ SlicesArePrivate /\ domain \in Domains
    BY DEF Inv, TypeOK
  <2>2. LinesOf(domain) \subseteq Line
    BY <2>1, SmtCacheAssumption DEF LinesOf
  <2>3. QED
    BY <2>1, <2>2, SlicesType, SetIndexInSets, SmtCacheAssumption DEF Arrays
<1>1. /\ Fine(Slices, a, MemoryFor(i))
      /\ ViewOf(Slices, a, MemoryFor(i)) = View
      /\ \A j \in Slices : j # i => slices[j].owner # domain
      /\ \A s \in Sets, v \in Ways :
            ArrayOf(i)[s][v] # None => ArrayOf(i)[s][v].line \in LinesOf(domain)
  BY ActiveFinds
<1>2. a[i] = ArrayOf(i) /\ \A j \in Slices : j # i => a[j] = slices[j].cache
  BY <1>0
<1>3. ArrayOf(i) \in Array /\ Placed(ArrayOf(i)) /\ Unique(ArrayOf(i))
  BY <1>1, <1>2 DEF Fine
<1>4. \A j \in Slices : j # i => ~Cached(a[j], l)
  BY <1>2, OthersLack
<1>5. a[i][SetIndex(l)][w] = LineIn(i, l, w)
  BY <1>2 DEF LineIn
<1> HIDE DEF a
<1>6. /\ Fine(Slices, b, mem')
      /\ ViewOf(Slices, b, mem') = [View EXCEPT ![l] = n.data]
  <2> DEFINE mm == mem'
  <2>1. /\ Holds(a[i], l, w) \/ ~Cached(a[i], l)
        /\ mm \in [Line -> Data]
        /\ \A x \in Line : x # l =>
              mm[x] = IF a[i][SetIndex(l)][w] # None /\ x = a[i][SetIndex(l)][w].line
                      THEN a[i][SetIndex(l)][w].data ELSE MemoryFor(i)[x]
        /\ n.dirty \/ n.data = mm[l]
    BY <1>2, <1>5
  <2> HIDE DEF mm
  <2>2. /\ Fine(Slices, a, MemoryFor(i)) /\ l \in Line /\ n.line = l
        /\ \A j \in Slices : j # i => ~Cached(a[j], l)
    BY <1>0, <1>1, <1>4
  <2>3. /\ Fine(Slices, b, mm)
        /\ ViewOf(Slices, b, mm) = [ViewOf(Slices, a, MemoryFor(i)) EXCEPT ![l] = n.data]
    BY ONLY <2>1, <2>2, PutFine, i \in Slices, w \in Ways, n \in CacheLine
  <2>4. QED
    BY <1>1, <2>3 DEF mm
<1>7. /\ c \in Array
      /\ \A s \in Sets, v \in Ways :
            c[s][v] = IF <<s, v>> = <<SetIndex(l), w>> THEN n ELSE ArrayOf(i)[s][v]
      /\ r \in Ranks
  <2>1. c \in Array
    BY <1>0, <1>3, PutLine
  <2>2. \A s \in Sets, v \in Ways :
           c[s][v] = IF <<s, v>> = <<SetIndex(l), w>> THEN n ELSE ArrayOf(i)[s][v]
    BY <1>0, <1>3, PutLine
  <2>3. r \in Ranks
    BY <1>0, TouchInRanks DEF SliceState
  <2>4. QED
    BY <2>1, <2>2, <2>3
<1>8. b = [a EXCEPT ![i] = c]
  BY <1>2
<1>9. /\ slices' = [slices EXCEPT ![i] = [owner |-> domain, cache |-> c, rank |-> r]]
      /\ slices' = [j \in Slices |-> IF j = i THEN [owner |-> domain, cache |-> c, rank |-> r]
                                     ELSE slices[j]]
  BY <1>0 DEF Keep
<1> HIDE DEF b, c, r
<1>10. /\ Slices' = Slices
       /\ slices'[i] = [owner |-> domain, cache |-> c, rank |-> r]
       /\ \A j \in Slices : j # i => slices'[j] = slices[j]
  BY <1>9 DEF Slices
<1>11. Arrays' = b
  <2>1. Arrays' = [j \in Slices |-> slices'[j].cache]
    BY <1>10 DEF Arrays
  <2>2. b = [j \in Slices |-> IF j = i THEN c ELSE a[j]]
    BY <1>1, <1>8 DEF Fine
  <2>3. \A j \in Slices : slices'[j].cache = IF j = i THEN c ELSE a[j]
    BY <1>2, <1>10
  <2>4. QED
    BY <2>1, <2>2, <2>3
<1>12. TypeOK'
  <2>1. PICK k \in SliceCounts : slices \in [0..(k - 1) -> SliceState]
    BY <1>0 DEF TypeOK
  <2>2. [owner |-> domain, cache |-> c, rank |-> r] \in SliceState
    BY <1>0, <1>7 DEF SliceState
  <2>3. slices' \in [0..(k - 1) -> SliceState]
    BY <2>1, <2>2, <1>9
  <2>4. QED
    BY <2>3, <1>0 DEF TypeOK, Replies
<1>13. SlicesArePrivate'
  <2>1. \A j, k \in Slices :
           slices'[j].owner = slices'[k].owner /\ slices'[j].owner # None => j = k
    BY <1>0, <1>1, <1>10 DEF SlicesArePrivate
  <2>2. ASSUME NEW j \in Slices, NEW s \in Sets, NEW v \in Ways,
               slices'[j].cache[s][v] # None
        PROVE  /\ slices'[j].owner # None
               /\ slices'[j].cache[s][v].line \in LinesOf(slices'[j].owner)
    <3>1. CASE j = i
      BY <2>2, <3>1, <1>0, <1>1, <1>7, <1>10
    <3>2. CASE j # i
      BY <2>2, <3>2, <1>0, <1>10 DEF SlicesArePrivate
    <3>3. QED
      BY <3>1, <3>2
  <2>3. QED
    BY <2>1, <2>2, <1>10 DEF SlicesArePrivate, LinesOf
<1>14. View' = ViewOf(Slices, b, mem')
  BY ViewIsViewOf, <1>10, <1>11
<1>15. Fine(Slices', Arrays', mem')
  BY <1>6, <1>10, <1>11
<1>16. QED
  BY <1>6, <1>12, <1>13, <1>14, <1>15 DEF Inv

-----------------------------------------------------------------------------
(* The calls: each keeps Inv and is a step of the flat memory.             *)

\* A hit: the line has what the flat memory says.
LEMMA HitFinds ==
    ASSUME Inv, NEW i \in Slices, NEW l \in LinesOf(domain), NEW w \in Ways,
           Hit(i, l, w)
    PROVE  /\ Holds(ArrayOf(i), l, w)
           /\ LineIn(i, l, w) \in CacheLine
           /\ LineIn(i, l, w).line = l
           /\ LineIn(i, l, w).data = View[l]
           /\ MemoryFor(i) \in [Line -> Data]
           /\ LineIn(i, l, w).dirty \/ LineIn(i, l, w).data = MemoryFor(i)[l]
<1> DEFINE a == [Arrays EXCEPT ![i] = ArrayOf(i)]
<1>1. Active(i) /\ Holds(ArrayOf(i), l, w)
  BY DEF Hit, HitWay
<1>2. /\ Fine(Slices, a, MemoryFor(i))
      /\ ViewOf(Slices, a, MemoryFor(i)) = View
      /\ l \in Line /\ SetIndex(l) \in Sets
  BY <1>1, ActiveFinds, OthersLack, SetIndexInSets
<1>3. a[i] = ArrayOf(i)
  BY DEF Arrays
<1> HIDE DEF a
<1>4. /\ ArrayOf(i) \in Array /\ MemoryFor(i) \in [Line -> Data]
      /\ Backed(ArrayOf(i), MemoryFor(i))
  BY <1>2, <1>3 DEF Fine
<1>5. View[l] = LineIn(i, l, w).data
  BY <1>1, <1>2, <1>3, ViewOfHeld DEF LineIn
<1>6. LineIn(i, l, w) # None /\ LineIn(i, l, w).line = l
  BY <1>1 DEF Holds, LineIn
<1>7. /\ LineIn(i, l, w) \in CacheLine
      /\ LineIn(i, l, w).dirty \/ LineIn(i, l, w).data = MemoryFor(i)[l]
  BY <1>2, <1>4, <1>6, SlotType DEF LineIn, Backed
<1>8. QED
  BY <1>1, <1>4, <1>5, <1>6, <1>7

\* A miss: the memory has the line that makes room, and for the requested one
\* what the flat memory says.
LEMMA MissFinds ==
    ASSUME Inv, NEW i \in Slices, NEW l \in LinesOf(domain), NEW w \in Ways,
           Active(i), ~Cached(ArrayOf(i), l)
    PROVE  /\ Evicted(i, l, w) \in [Line -> Data]
           /\ Evicted(i, l, w)[l] = View[l]
           /\ \A x \in Line : x # l =>
                 Evicted(i, l, w)[x] =
                     IF LineIn(i, l, w) # None /\ x = LineIn(i, l, w).line
                     THEN LineIn(i, l, w).data ELSE MemoryFor(i)[x]
<1> DEFINE a == [Arrays EXCEPT ![i] = ArrayOf(i)]
           m == MemoryFor(i)
           old == LineIn(i, l, w)
           mm == Evicted(i, l, w)
<1>1. /\ Fine(Slices, a, m)
      /\ ViewOf(Slices, a, m) = View
      /\ l \in Line /\ SetIndex(l) \in Sets
      /\ \A j \in Slices : j # i => ~Cached(slices[j].cache, l)
  BY ActiveFinds, OthersLack, SetIndexInSets
<1>2. a[i] = ArrayOf(i) /\ \A j \in Slices : j # i => a[j] = slices[j].cache
  BY DEF Arrays
<1> HIDE DEF a
<1>3. /\ ArrayOf(i) \in Array /\ m \in [Line -> Data]
      /\ Placed(ArrayOf(i)) /\ Backed(ArrayOf(i), m)
  BY <1>1, <1>2 DEF Fine
<1>4. old = ArrayOf(i)[SetIndex(l)][w] /\ mm = WriteBack(m, old)
  BY DEF LineIn, Evicted
<1> HIDE DEF m, old, mm
<1>5. old # None => /\ old \in CacheLine /\ old.line \in Line /\ old.data \in Data
                    /\ old.dirty \in BOOLEAN
                    /\ old.line # l
                    /\ ~old.dirty => old.data = m[old.line]
  <2>1. old # None => /\ old \in CacheLine /\ old.line \in Line /\ old.data \in Data
                      /\ old.dirty \in BOOLEAN
                      /\ ~old.dirty => old.data = m[old.line]
    BY <1>1, <1>3, <1>4, SlotType DEF Backed
  <2>2. old # None => old.line # l
    BY <1>4 DEF Cached, Holds
  <2>3. QED
    BY <2>1, <2>2
<1>6. CASE old # None /\ old.dirty
  <2>1. mm = [m EXCEPT ![old.line] = old.data]
    BY <1>4, <1>6 DEF WriteBack
  <2>2. /\ mm \in [Line -> Data] /\ mm[l] = m[l]
        /\ \A x \in Line : mm[x] = IF x = old.line THEN old.data ELSE m[x]
    BY <2>1, <1>1, <1>3, <1>5, <1>6
  <2>3. m[l] = View[l]
    BY <1>1, <1>2, ViewOfAbsent
  <2>4. QED
    BY <2>2, <2>3, <1>6 DEF m, old, mm
<1>7. CASE ~(old # None /\ old.dirty)
  <2>1. mm = m
    BY <1>4, <1>7 DEF WriteBack
  <2>2. m[l] = View[l]
    BY <1>1, <1>2, ViewOfAbsent
  <2>3. QED
    BY <2>1, <2>2, <1>3, <1>5, <1>7 DEF m, old, mm
<1>8. QED
  BY <1>6, <1>7

\* A line with one byte stored is a dirty line.
LEMMA StoredType ==
    ASSUME NEW n \in CacheLine, NEW o \in Offset, NEW v \in Value
    PROVE  /\ Stored(n, o, v) \in CacheLine
           /\ Stored(n, o, v).line = n.line
           /\ Stored(n, o, v).data = [n.data EXCEPT ![o] = v]
           /\ Stored(n, o, v).dirty
BY DEF Stored, CacheLine, Data

\* The line read for a miss is clean, with what the memory holds.
LEMMA RefillType ==
    ASSUME NEW i, NEW l \in Line, NEW w, Evicted(i, l, w) \in [Line -> Data]
    PROVE  /\ Refill(i, l, w) \in CacheLine
           /\ Refill(i, l, w).line = l
           /\ Refill(i, l, w).data = Evicted(i, l, w)[l]
BY DEF Refill, NewLine, CacheLine

\* The answer of a load is well typed, and it is the flat memory's.
LEMMA AnswerIsFlat ==
    ASSUME Inv, NEW l \in Line, NEW o \in Offset,
           reply' = Answer(l, o, View[l][o])
    PROVE  /\ reply' \in Replies
           /\ View' = View => Flat!Load(l, o)
<1>1. View \in [Line -> Data]
  BY ViewIsViewOf, ViewType DEF Inv
<1>2. View[l][o] \in Value
  BY <1>1 DEF Data
<1>3. QED
  BY <1>2 DEF Answer, Replies, Flat!Load, Flat!LoadReply

\* A load, served by the class's slice or by the memory.
LEMMA LoadStep ==
    ASSUME Inv, NEW l \in LinesOf(domain), NEW o \in Offset,
           Load(l, o), domain' = domain
    PROVE  Inv' /\ Flat!Load(l, o)
<1>0. l \in Line /\ View \in [Line -> Data]
  BY SmtCacheAssumption, ViewIsViewOf, ViewType DEF Inv, TypeOK, LinesOf
<1>1. CASE LoadHit(l, o)
  <2>1. PICK i \in Slices, w \in Ways :
            /\ Hit(i, l, w)
            /\ Keep(i, l, w, LineIn(i, l, w))
            /\ reply' = Answer(l, o, LineIn(i, l, w).data[o])
            /\ mem' = MemoryFor(i)
    BY <1>1 DEF LoadHit
  <2> DEFINE n == LineIn(i, l, w)
  <2>2. /\ Active(i) /\ Holds(ArrayOf(i), l, w)
        /\ n \in CacheLine /\ n.line = l /\ n.data = View[l]
        /\ mem' \in [Line -> Data] /\ (n.dirty \/ n.data = mem'[l])
    BY <2>1, HitFinds DEF Hit
  <2>3. reply' = Answer(l, o, View[l][o])
    BY <2>1, <2>2
  <2>4. \A x \in Line : x # l =>
           mem'[x] = IF n # None /\ x = n.line THEN n.data ELSE MemoryFor(i)[x]
    BY <2>1, <2>2
  <2>5. reply' \in Replies
    BY <1>0, <2>3, AnswerIsFlat
  <2>6. Inv' /\ View' = [View EXCEPT ![l] = n.data]
    BY <2>1, <2>2, <2>4, <2>5, KeepEffect
  <2>7. View' = View
    BY <1>0, <2>2, <2>6
  <2>8. QED
    BY <1>0, <2>3, <2>6, <2>7, AnswerIsFlat
<1>2. CASE LoadMiss(l, o)
  <2>1. PICK i \in Slices, w \in Ways :
            /\ Active(i) /\ ~Cached(ArrayOf(i), l)
            /\ Keep(i, l, w, Refill(i, l, w))
            /\ reply' = Answer(l, o, Refill(i, l, w).data[o])
            /\ mem' = Evicted(i, l, w)
    BY <1>2 DEF LoadMiss, Miss
  <2> DEFINE n == Refill(i, l, w)
  <2>2. /\ mem' \in [Line -> Data] /\ mem'[l] = View[l]
        /\ \A x \in Line : x # l =>
              mem'[x] = IF LineIn(i, l, w) # None /\ x = LineIn(i, l, w).line
                        THEN LineIn(i, l, w).data ELSE MemoryFor(i)[x]
    BY <2>1, MissFinds
  <2>3. n \in CacheLine /\ n.line = l /\ n.data = mem'[l]
    BY <1>0, <2>1, <2>2, RefillType
  <2>4. reply' = Answer(l, o, View[l][o])
    BY <2>1, <2>2, <2>3
  <2>5. reply' \in Replies
    BY <1>0, <2>4, AnswerIsFlat
  <2>6. Keep(i, l, w, n)
    BY <2>1
  <2> HIDE DEF n
  <2>7. Inv' /\ View' = [View EXCEPT ![l] = n.data]
    BY <2>1, <2>2, <2>3, <2>5, <2>6, KeepEffect
  <2>8. View' = View
    BY <1>0, <2>2, <2>3, <2>7
  <2>9. QED
    BY <1>0, <2>4, <2>7, <2>8, AnswerIsFlat
<1>3. QED
  BY <1>1, <1>2 DEF Load

\* A store, into a line of the class's slice or one read for it.
LEMMA StoreStep ==
    ASSUME Inv, NEW l \in LinesOf(domain), NEW o \in Offset, NEW v \in Value,
           Store(l, o, v), domain' = domain
    PROVE  Inv' /\ Flat!Store(l, o, v)
<1>0. /\ l \in Line /\ View \in [Line -> Data]
      /\ reply' = [op |-> "none"] /\ reply' \in Replies
  BY SmtCacheAssumption, ViewIsViewOf, ViewType
  DEF Inv, TypeOK, LinesOf, Store, Replies
<1>1. Inv' /\ View' = [View EXCEPT ![l] = [View[l] EXCEPT ![o] = v]]
  <2>1. CASE StoreHit(l, o, v)
    <3>1. PICK i \in Slices, w \in Ways :
              /\ Hit(i, l, w)
              /\ Keep(i, l, w, Stored(LineIn(i, l, w), o, v))
              /\ mem' = MemoryFor(i)
      BY <2>1 DEF StoreHit
    <3> DEFINE n == Stored(LineIn(i, l, w), o, v)
    <3>2. /\ Active(i) /\ Holds(ArrayOf(i), l, w)
          /\ LineIn(i, l, w) \in CacheLine /\ LineIn(i, l, w).line = l
          /\ LineIn(i, l, w).data = View[l]
          /\ mem' \in [Line -> Data]
      BY <3>1, HitFinds DEF Hit
    <3>3. n \in CacheLine /\ n.line = l /\ n.dirty /\ n.data = [View[l] EXCEPT ![o] = v]
      BY <3>2, StoredType
    <3>4. \A x \in Line : x # l =>
             mem'[x] = IF LineIn(i, l, w) # None /\ x = LineIn(i, l, w).line
                       THEN LineIn(i, l, w).data ELSE MemoryFor(i)[x]
      BY <3>1, <3>2
    <3>5. Keep(i, l, w, n)
      BY <3>1
    <3> HIDE DEF n
    <3>6. Inv' /\ View' = [View EXCEPT ![l] = n.data]
      BY <1>0, <3>2, <3>3, <3>4, <3>5, KeepEffect
    <3>7. QED
      BY <3>3, <3>6
  <2>2. CASE StoreMiss(l, o, v)
    <3>1. PICK i \in Slices, w \in Ways :
              /\ Active(i) /\ ~Cached(ArrayOf(i), l)
              /\ Keep(i, l, w, Stored(Refill(i, l, w), o, v))
              /\ mem' = Evicted(i, l, w)
      BY <2>2 DEF StoreMiss, Miss
    <3> DEFINE n == Stored(Refill(i, l, w), o, v)
    <3>2. /\ mem' \in [Line -> Data] /\ mem'[l] = View[l]
          /\ \A x \in Line : x # l =>
                mem'[x] = IF LineIn(i, l, w) # None /\ x = LineIn(i, l, w).line
                          THEN LineIn(i, l, w).data ELSE MemoryFor(i)[x]
      BY <3>1, MissFinds
    <3>3. /\ Refill(i, l, w) \in CacheLine
          /\ Refill(i, l, w).line = l /\ Refill(i, l, w).data = View[l]
      BY <1>0, <3>1, <3>2, RefillType
    <3>4. n \in CacheLine /\ n.line = l /\ n.dirty /\ n.data = [View[l] EXCEPT ![o] = v]
      BY <3>3, StoredType
    <3>5. Keep(i, l, w, n)
      BY <3>1
    <3> HIDE DEF n
    <3>6. Inv' /\ View' = [View EXCEPT ![l] = n.data]
      BY <1>0, <3>1, <3>2, <3>4, <3>5, KeepEffect
    <3>7. QED
      BY <3>4, <3>6
  <2>3. QED
    BY <2>1, <2>2 DEF Store
<1>2. View' = [View EXCEPT ![l][o] = v]
  BY <1>0, <1>1
<1>3. QED
  BY <1>0, <1>1, <1>2 DEF Flat!Store, Flat!NoReply

\* An invalidation is a stutter of the flat memory.
LEMMA InvalidateStep ==
    ASSUME Inv, NEW l \in Line, InvalidateLine(l)
    PROVE  Inv' /\ UNCHANGED <<View, reply>>
<1> DEFINE b == [i \in Slices |-> Purged(Arrays[i], l)]
           dirty == {i \in Slices : Cached(Arrays[i], l) /\ CopyOf(Arrays[i], l).dirty}
           mm == PurgedInto(Slices, Arrays, mem, l)
<1>0. /\ TypeOK /\ SlicesArePrivate /\ Fine(Slices, Arrays, mem)
      /\ \A i \in Slices : Arrays[i] = slices[i].cache
      /\ \A i \in Slices : slices[i] \in SliceState
  BY SlicesType DEF Inv, Arrays
<1>1. Fine(Slices, b, mm) /\ ViewOf(Slices, b, mm) = View
  <2>1. Fine(Slices, b, mm) /\ ViewOf(Slices, b, mm) = ViewOf(Slices, Arrays, mem)
    BY <1>0, PurgeFine
  <2>2. QED
    BY <2>1, ViewIsViewOf
<1>2. /\ slices' = [i \in Slices |->
                       [slices[i] EXCEPT !.cache = Purged(slices[i].cache, l)]]
      /\ domain' = domain /\ reply' = reply
  BY DEF InvalidateLine
<1>3. Slices' = Slices
  BY <1>2 DEF Slices
<1>4. \A i \in Slices : slices'[i] = [slices[i] EXCEPT !.cache = Purged(slices[i].cache, l)]
  BY <1>2
<1>5. \A i \in Slices : /\ slices'[i].owner = slices[i].owner
                        /\ slices'[i].cache = Purged(slices[i].cache, l)
                        /\ slices'[i].rank = slices[i].rank
                        /\ slices'[i].cache \in Array
                        /\ slices'[i] \in SliceState
                        /\ \A s \in Sets, w \in Ways :
                              slices'[i].cache[s][w] \in {None, slices[i].cache[s][w]}
  <2> TAKE i \in Slices
  <2>1. slices[i].cache \in Array /\ Placed(slices[i].cache)
    BY <1>0 DEF SliceState, Fine
  <2>2. /\ Purged(slices[i].cache, l) \in Array
        /\ \A s \in Sets, w \in Ways :
              Purged(slices[i].cache, l)[s][w] \in {None, slices[i].cache[s][w]}
    BY <2>1, PurgedArray
  <2>3. slices[i] = [owner |-> slices[i].owner, cache |-> slices[i].cache,
                     rank |-> slices[i].rank]
    BY <1>0 DEF SliceState
  <2>4. slices'[i] = [owner |-> slices[i].owner, cache |-> Purged(slices[i].cache, l),
                      rank |-> slices[i].rank]
    BY <1>4, <2>3
  <2>5. slices[i].owner \in Domains \cup {None} /\ slices[i].rank \in Ranks
    BY <1>0 DEF SliceState
  <2>6. /\ slices'[i].owner = slices[i].owner
        /\ slices'[i].cache = Purged(slices[i].cache, l)
        /\ slices'[i].rank = slices[i].rank
        /\ slices'[i] \in SliceState
    BY <2>2, <2>4, <2>5 DEF SliceState
  <2>7. QED
    BY <2>2, <2>6
<1>6. Arrays' = b
  <2>1. Arrays' = [i \in Slices |-> slices'[i].cache]
    BY <1>3 DEF Arrays
  <2>2. \A i \in Slices : slices'[i].cache = Purged(Arrays[i], l)
    BY <1>0, <1>5
  <2>3. QED
    BY <2>1, <2>2
<1>7. mem' = mm
  <2> DEFINE soiled == {i \in Slices : Cached(slices[i].cache, l)
                                        /\ CopyOf(slices[i].cache, l).dirty}
  <2>1. soiled = dirty
    BY <1>0
  <2>2. mem' = IF soiled = {} THEN mem
               ELSE [mem EXCEPT ![l] =
                        CopyOf(slices[CHOOSE i \in soiled : TRUE].cache, l).data]
    BY DEF InvalidateLine
  <2>3. CASE soiled = {}
    BY <2>1, <2>2, <2>3 DEF PurgedInto
  <2>4. CASE soiled # {}
    <3> DEFINE j == CHOOSE i \in soiled : TRUE
    <3>1. j \in Slices
      BY <2>4
    <3>2. slices[j].cache = Arrays[j]
      BY <1>0, <3>1
    <3>3. mm = [mem EXCEPT ![l] = CopyOf(Arrays[j], l).data]
      BY <2>1, <2>4 DEF PurgedInto
    <3>4. mem' = [mem EXCEPT ![l] = CopyOf(slices[j].cache, l).data]
      BY <2>2, <2>4
    <3>5. QED
      BY <3>2, <3>3, <3>4
  <2>5. QED
    BY <2>3, <2>4
<1> HIDE DEF b, mm
<1>8. TypeOK'
  <2>1. PICK k \in SliceCounts : slices \in [0..(k - 1) -> SliceState]
    BY <1>0 DEF TypeOK
  <2>2. slices' \in [0..(k - 1) -> SliceState]
    <3>1. Slices = 0..(k - 1)
      BY <2>1 DEF Slices
    <3>2. slices' = [i \in Slices |-> slices'[i]]
      BY <1>2
    <3>3. QED
      BY <3>1, <3>2, <1>5
  <2>3. mem' \in [Line -> Data]
    BY <1>1, <1>7 DEF Fine
  <2>4. QED
    BY <1>0, <1>2, <2>2, <2>3 DEF TypeOK
<1>9. SlicesArePrivate'
  <2>1. \A i, j \in Slices :
           slices'[i].owner = slices'[j].owner /\ slices'[i].owner # None => i = j
    BY <1>0, <1>5 DEF SlicesArePrivate
  <2>2. \A i \in Slices : \A s \in Sets, w \in Ways :
           slices'[i].cache[s][w] # None
              => /\ slices'[i].owner # None
                 /\ slices'[i].cache[s][w].line \in LinesOf(slices'[i].owner)
    BY <1>0, <1>5 DEF SlicesArePrivate
  <2>3. QED
    BY <2>1, <2>2, <1>3 DEF SlicesArePrivate, LinesOf
<1>10. View' = View
  BY <1>1, <1>3, <1>6, <1>7, ViewIsViewOf
<1>11. Fine(Slices', Arrays', mem')
  BY <1>1, <1>3, <1>6, <1>7
<1>12. QED
  BY <1>2, <1>8, <1>9, <1>10, <1>11 DEF Inv

\* So is a step that changes the class alone, or nothing.
LEMMA OtherStep ==
    ASSUME Inv, slices' = slices, mem' = mem, reply' = reply, domain' \in Domains
    PROVE  Inv' /\ UNCHANGED <<View, reply>>
<1>1. Slices' = Slices /\ Arrays' = Arrays
  BY DEF Slices, Arrays
<1>2. TypeOK' /\ SlicesArePrivate'
  BY DEF Inv, TypeOK, SlicesArePrivate, LinesOf, Slices
<1>3. View' = View
  BY <1>1, ViewIsViewOf
<1>4. Fine(Slices', Arrays', mem')
  BY <1>1 DEF Inv
<1>5. QED
  BY <1>2, <1>3, <1>4 DEF Inv

\* Every step keeps Inv and is a step, or a stutter, of the flat memory.
LEMMA NextStep == Inv /\ [Next]_vars => Inv' /\ [Flat!Next]_(Flat!vars)
<1> SUFFICES ASSUME Inv, [Next]_vars
             PROVE  Inv' /\ [Flat!Next]_(Flat!vars)
  OBVIOUS
<1>0. domain \in Domains /\ LinesOf(domain) \subseteq Line
  BY SmtCacheAssumption DEF Inv, TypeOK, LinesOf
<1>1. ASSUME NEW l \in LinesOf(domain), NEW o \in Offset, Load(l, o), domain' = domain
      PROVE  Inv' /\ Flat!Next
  BY <1>0, <1>1, LoadStep DEF Flat!Next
<1>2. ASSUME NEW l \in LinesOf(domain), NEW o \in Offset, NEW v \in Value,
             Store(l, o, v), domain' = domain
      PROVE  Inv' /\ Flat!Next
  BY <1>0, <1>2, StoreStep DEF Flat!Next
<1>3. ASSUME NEW l \in Line, InvalidateLine(l)
      PROVE  Inv' /\ UNCHANGED Flat!vars
  BY <1>3, InvalidateStep DEF Flat!vars
<1>4. ASSUME NEW d \in Domains, SetRequester(d)
      PROVE  Inv' /\ UNCHANGED Flat!vars
  BY <1>4, OtherStep DEF SetRequester, Flat!vars
<1>5. CASE UNCHANGED vars
  <2>1. /\ slices' = slices /\ mem' = mem /\ reply' = reply /\ domain' \in Domains
    BY <1>0, <1>5 DEF vars
  <2>2. QED
    BY <2>1, OtherStep DEF Flat!vars
<1>6. QED
  BY <1>1, <1>2, <1>3, <1>4, <1>5 DEF Next

\* Initially nobody owns a slice, nothing is cached and the memory is zero.
LEMMA InitInv == Init => Inv /\ Flat!Init
<1> SUFFICES ASSUME Init PROVE Inv /\ Flat!Init
  OBVIOUS
<1> DEFINE fresh == [owner |-> None, cache |-> NoLines, rank |-> NoUses]
<1>1. PICK n \in SliceCounts : slices = [i \in 0..(n - 1) |-> fresh]
  BY DEF Init
<1>2. /\ NoLines \in Array
      /\ \A s \in Sets, w \in Ways : NoLines[s][w] = None
      /\ NoUses \in Ranks
      /\ fresh \in SliceState
  BY DEF NoLines, NoUses, Array, Ranks, SliceState
<1>3. TypeOK
  BY <1>1, <1>2, SmtCacheAssumption DEF Init, TypeOK, Data, Domains
<1>4. /\ Slices = 0..(n - 1)
      /\ \A i \in Slices : slices[i].owner = None /\ slices[i].cache = NoLines
      /\ Arrays \in [Slices -> Array]
      /\ \A i \in Slices : Arrays[i] = NoLines
  BY <1>1, <1>2 DEF Slices, Arrays
<1>5. SlicesArePrivate
  BY <1>2, <1>4 DEF SlicesArePrivate
<1>6. \A l \in Line : ~Cached(NoLines, l)
  BY <1>2, SetIndexInSets DEF Cached, Holds
<1>7. Placed(NoLines) /\ Unique(NoLines) /\ Backed(NoLines, mem)
  BY <1>2, <1>6 DEF Placed, Unique, Backed, Cached
<1>8. Fine(Slices, Arrays, mem)
  BY <1>3, <1>4, <1>6, <1>7 DEF Fine, TypeOK
<1>9. View = mem
  <2>1. \A l \in Line : {i \in Slices : Cached(slices[i].cache, l)} = {}
    BY <1>4, <1>6
  <2>2. mem = [l \in Line |-> mem[l]]
    BY <1>3 DEF TypeOK
  <2>3. QED
    BY <2>1, <2>2 DEF View
<1>10. Flat!Init
  BY <1>9 DEF Init, Flat!Init, Flat!ZeroLine, Flat!NoReply
<1>11. QED
  BY <1>3, <1>5, <1>8, <1>10 DEF Inv

\* With two slices a step leaves the slices of the other class alone, but for
\* an invalidation.
LEMMA UndisturbedStep ==
    ASSUME Inv, [Next]_vars, NEW i \in Slices, 1 \in Slices,
           slices'[i] # slices[i], \A l \in Line : ~InvalidateLine(l)
    PROVE  slices[i].owner \in {domain, None} /\ slices'[i].owner = domain
<1>0. /\ TypeOK /\ SlicesArePrivate /\ 0 \in Slices
      /\ domain \in Domains
      /\ \A j \in Slices : slices[j].owner \in Domains \cup {None}
  BY SlicesType DEF Inv, TypeOK, SliceState
<1>1. PICK l \in LinesOf(domain), o \in Offset :
          Load(l, o) \/ \E v \in Value : Store(l, o, v)
  BY DEF Next, vars, SetRequester
<1>2. PICK j \in Slices, w \in Ways : Active(j) /\ \E n : Keep(j, l, w, n)
  BY <1>1 DEF Load, Store, LoadHit, LoadMiss, StoreHit, StoreMiss, Hit, Miss
<1>3. j = i /\ slices'[i].owner = domain
  <2>0. PICK n : Keep(j, l, w, n)
    BY <1>2
  <2> DEFINE kept == [owner |-> domain,
                      cache |-> Put(ArrayOf(j), l, w, n),
                      rank |-> Touch(slices[j].rank, SetIndex(l), w)]
  <2>1. slices' = [slices EXCEPT ![j] = kept] /\ kept.owner = domain
    BY <2>0 DEF Keep
  <2> HIDE DEF kept
  <2>2. j = i
    BY <2>1 DEF Slices
  <2>3. QED
    BY <2>1, <2>2 DEF Slices
<1>4. ~Reassigned(i)
  <2> SUFFICES ASSUME Reassigned(i) PROVE FALSE
    OBVIOUS
  <2>1. /\ slices[0].owner \in Domains /\ slices[0].owner # domain
        /\ slices[1].owner \in Domains /\ slices[1].owner # domain
        /\ slices[0].owner # None
    BY <1>0 DEF Reassigned
  <2>2. slices[0].owner = slices[1].owner
    BY <1>0, <2>1 DEF Domains
  <2>3. QED
    BY <1>0, <2>1, <2>2 DEF SlicesArePrivate
<1>5. slices[i].owner \in {domain, None}
  BY <1>2, <1>3, <1>4, ActiveFinds
<1>6. QED
  BY <1>3, <1>5

-----------------------------------------------------------------------------

\* The cache is well formed in every reachable state.
THEOREM SmtCacheInvariant == Spec => []Inv
<1>1. Inv /\ [Next]_vars => Inv'
  BY NextStep
<1>2. Init => Inv
  BY InitInv
<1>3. QED
  BY <1>1, <1>2, PTL DEF Spec

\* In particular no class owns two slices, and a slice holds only lines of its
\* owner's, also after it was taken from the other class (active_slice_index,
\* flush_slice).
THEOREM SmtCacheSafety == Spec => [](TypeOK /\ SlicesArePrivate)
BY SmtCacheInvariant, PTL DEF Inv

\* In particular every slice stays an array with ranks, owned by a class or by
\* nobody, through every flush.
THEOREM SmtCacheTypes == Spec => []TypeOK
BY SmtCacheInvariant, PTL DEF Inv

\* With a slice for each class nothing a class does touches the slice of the
\* other one, its replacement order included.
THEOREM SmtCacheIsolation == Spec => OthersUndisturbed
<1>1. Inv /\ [Next]_vars =>
         [\A i \in Slices :
             1 \in Slices /\ slices'[i] # slices[i] =>
                 \/ slices[i].owner \in {domain, None} /\ slices'[i].owner = domain
                 \/ \E l \in Line : InvalidateLine(l)]_vars
  BY UndisturbedStep
<1>2. QED
  BY <1>1, SmtCacheInvariant, PTL DEF Spec, OthersUndisturbed

\* SmtCacheMemory over a flat memory implements a flat memory, whichever class
\* uses it and however often slices change hands.
THEOREM SmtCacheImplementsMemory == Spec => ImplementsMemory
<1>1. Init => Flat!Init
  BY InitInv
<1>2. Inv /\ [Next]_vars => [Flat!Next]_(Flat!vars)
  BY NextStep
<1>3. QED
  BY <1>1, <1>2, SmtCacheInvariant, PTL DEF Spec, Flat!Spec, ImplementsMemory
=============================================================================
