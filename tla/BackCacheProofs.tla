-------------------------- MODULE BackCacheProofs ---------------------------
(***************************************************************************)
(* BackCacheMemory is well formed, its resizes keep to the policy, what    *)
(* the primary gives up stays in the backup, and it is transparent, for    *)
(* every geometry, every policy and every set of lines and values.         *)
(*                                                                         *)
(* An access goes through states in the middle of an eviction or a resize, *)
(* so what the lines hold is stated for any primary p, backup b and memory *)
(* m, and relative to the flat memory d that they amount to: a line may    *)
(* have two copies, and it is d that says what both must hold.             *)
(***************************************************************************)
EXTENDS BackCacheMemory, CacheArrayLemmas, FiniteSetTheorems

Backups == [Slot -> BackupSlot]

\* A disabled slot is empty, and no line is in two slots.
Tidy(b) ==
    /\ \A s \in Slot : b[s].entry # None => b[s].enabled
    /\ \A s, t \in Slot :
          b[s].entry # None /\ b[t].entry # None /\ b[s].entry.line = b[t].entry.line
              => s = t

\* A copy, if there is one, holds what d says of its line, and may be clean
\* only if the memory has that too.
Faithful(n, m, d) ==
    n # None => /\ n.data = d[n.line]
                /\ n.dirty \/ m[n.line] = d[n.line]

\* Primary p, backup b and memory m amount to the flat memory d.
Amounts(p, b, m, d) ==
    /\ p \in Array /\ Placed(p) /\ Unique(p)
    /\ b \in Backups /\ Tidy(b)
    /\ m \in [Line -> Data] /\ d \in [Line -> Data]
    /\ \A s \in Sets, w \in Ways : Faithful(p[s][w], m, d)
    /\ \A s \in Slot : Faithful(b[s].entry, m, d)
    /\ \A l \in Line : Cached(p, l) \/ InBackup(b, l) \/ m[l] = d[l]

Inv == TypeOK /\ ResizesWithinPolicy /\ Amounts(primary, backup, mem, View)

ViewOf(p, b, m) ==
    LET inPrimary == {p[s][w] : s \in Sets, w \in Ways} \ {None}
        inBackup == {b[s].entry : s \in Enabled(b)} \ {None}
        of(S, l) == {n.data : n \in {n \in S : n.line = l}}
    IN  [l \in Line |->
            IF of(inPrimary, l) # {} THEN CHOOSE x \in of(inPrimary, l) : TRUE
            ELSE IF of(inBackup, l) # {} THEN CHOOSE x \in of(inBackup, l) : TRUE
            ELSE m[l]]

-----------------------------------------------------------------------------
(* What is in a slot, and what the flat memory is.                         *)

\* A slot of the primary holds a line.
LEMMA PrimaryType ==
    ASSUME NEW p \in Array, NEW s \in Sets, NEW w \in Ways, p[s][w] # None
    PROVE  /\ p[s][w] \in CacheLine
           /\ p[s][w].line \in Line
           /\ p[s][w].data \in Data
           /\ p[s][w].dirty \in BOOLEAN
BY DEF Array, CacheLine

\* And so does a slot of the backup.
LEMMA EntryType ==
    ASSUME NEW b \in Backups, NEW s \in Slot, b[s].entry # None
    PROVE  /\ b[s].entry \in BackupLine
           /\ b[s].entry.line \in Line
           /\ b[s].entry.data \in Data
           /\ b[s].entry.dirty \in BOOLEAN
BY DEF Backups, BackupSlot, BackupLine

\* A slot of the backup is a record of its two fields.
LEMMA SlotType ==
    ASSUME NEW b \in Backups, NEW s \in Slot
    PROVE  /\ b[s].enabled \in BOOLEAN
           /\ b[s].entry \in BackupLine \cup {None}
           /\ b[s] = [enabled |-> b[s].enabled, entry |-> b[s].entry]
BY DEF Backups, BackupSlot

\* The slot when its entry changes.
LEMMA SlotExcept ==
    \A r \in BackupSlot, x \in BackupLine \cup {None} :
        /\ [r EXCEPT !.entry = x] \in BackupSlot
        /\ [r EXCEPT !.entry = x].entry = x
        /\ [r EXCEPT !.entry = x].enabled = r.enabled
BY DEF BackupSlot

\* The slot a line is found in is the one it is in.
LEMMA FoundSlot ==
    ASSUME NEW b \in Backups, Tidy(b), NEW l \in Line, NEW s \in Slot,
           b[s].entry # None, b[s].entry.line = l
    PROVE  InSlot(b, l, s) /\ InBackup(b, l) /\ SlotOf(b, l) = s
<1>1. InSlot(b, l, s)
  BY DEF InSlot, Enabled, Tidy
<1>2. \A t \in Slot : InSlot(b, l, t) => t = s
  BY DEF InSlot, Tidy
<1>3. QED
  BY <1>1, <1>2 DEF InBackup, SlotOf

\* A line the backup has is found in a slot that holds it.
LEMMA BackedUp ==
    ASSUME NEW b \in Backups, Tidy(b), NEW l \in Line, InBackup(b, l)
    PROVE  /\ SlotOf(b, l) \in Slot
           /\ b[SlotOf(b, l)].enabled
           /\ b[SlotOf(b, l)].entry # None
           /\ b[SlotOf(b, l)].entry.line = l
BY DEF InBackup, SlotOf, InSlot, Enabled

\* The flat memory is the one the copies agree on.
LEMMA ViewIs ==
    ASSUME NEW p, NEW b, NEW m, NEW d, Amounts(p, b, m, d)
    PROVE  ViewOf(p, b, m) = d
<1>1. ASSUME NEW l \in Line PROVE ViewOf(p, b, m)[l] = d[l]
  <2> DEFINE P == {n.data : n \in {n \in {p[s][w] : s \in Sets, w \in Ways} \ {None} :
                                      n.line = l}}
             B == {n.data : n \in {n \in {b[s].entry : s \in Enabled(b)} \ {None} :
                                      n.line = l}}
  <2>0. ViewOf(p, b, m)[l] =
            IF P # {} THEN CHOOSE x \in P : TRUE
            ELSE IF B # {} THEN CHOOSE x \in B : TRUE
            ELSE m[l]
    BY DEF ViewOf
  <2>1. \A x \in P : x = d[l]
    BY DEF Amounts, Faithful
  <2>2. \A x \in B : x = d[l]
    BY DEF Amounts, Faithful, Enabled
  <2>3. \A w \in Ways : Holds(p, l, w) => p[SetIndex(l)][w].data \in P
    BY SetIndexInSets DEF Holds
  <2>4. \A s \in Slot : InSlot(b, l, s) => b[s].entry.data \in B
    BY DEF InSlot
  <2> HIDE DEF P, B
  <2>5. CASE P # {}
    BY <2>0, <2>1, <2>5
  <2>6. CASE P = {} /\ B # {}
    BY <2>0, <2>2, <2>6
  <2>7. CASE P = {} /\ B = {}
    BY <2>0, <2>3, <2>4, <2>7 DEF Amounts, Cached, InBackup
  <2>8. QED
    BY <2>5, <2>6, <2>7
<1>2. ViewOf(p, b, m) = [l \in Line |-> ViewOf(p, b, m)[l]]
  BY DEF ViewOf
<1>3. d = [l \in Line |-> d[l]]
  BY DEF Amounts
<1>4. QED
  BY <1>1, <1>2, <1>3

-----------------------------------------------------------------------------
(* A slot of the backup changes.                                           *)

\* Backup b with entry x, or nothing, in slot t.
Filled(b, t, x) == [b EXCEPT ![t].entry = x]

\* Entry e goes into an enabled slot t that held its line, or its line was
\* nowhere: no other line is disturbed but the one that was in t.
LEMMA FillSlot ==
    ASSUME NEW b \in Backups, Tidy(b), NEW t \in Slot, b[t].enabled,
           NEW e \in BackupLine, NEW l \in Line, e.line = l,
           \/ b[t].entry # None /\ b[t].entry.line = l
           \/ ~InBackup(b, l)
    PROVE  LET c == Filled(b, t, e) IN
           /\ c \in Backups /\ Tidy(c)
           /\ c[t].entry = e
           /\ \A s \in Slot : s # t => c[s] = b[s]
           /\ Enabled(c) = Enabled(b)
           /\ InBackup(c, l)
           /\ \A k \in Line : InBackup(c, k) => InBackup(b, k) \/ k = l
           /\ \A k \in Line : InBackup(b, k) =>
                  \/ InBackup(c, k)
                  \/ b[t].entry # None /\ k = b[t].entry.line
<1> DEFINE c == Filled(b, t, e)
<1>0. e # None
  BY BackCacheAssumption
<1>1. /\ c \in [Slot -> BackupSlot]
      /\ c[t].entry = e /\ c[t].enabled
      /\ \A s \in Slot : s # t => c[s] = b[s]
  <2> DEFINE r == [b[t] EXCEPT !.entry = e]
  <2>1. r \in BackupSlot /\ r.entry = e /\ r.enabled = b[t].enabled
    BY SlotExcept DEF Backups
  <2>2. c = [s \in Slot |-> IF s = t THEN r ELSE b[s]]
    BY DEF Backups, Filled
  <2> HIDE DEF c, r
  <2>3. c[t] = r /\ \A s \in Slot : s # t => c[s] = b[s]
    BY <2>2
  <2>4. c \in [Slot -> BackupSlot]
    BY <2>1, <2>2 DEF Backups
  <2>5. QED
    BY <2>1, <2>3, <2>4
<1> HIDE DEF c
<1>2. \A s \in Slot : c[s].enabled <=> b[s].enabled
  BY <1>1
<1>3. Enabled(c) = Enabled(b)
  BY <1>2 DEF Enabled
<1>4. \A s \in Slot : s # t /\ b[s].entry # None => b[s].entry.line # l
  <2> SUFFICES ASSUME NEW s \in Slot, s # t, b[s].entry # None,
                      b[s].entry.line = l
               PROVE  FALSE
    OBVIOUS
  <2>1. InBackup(b, l)
    BY <1>0, FoundSlot
  <2>2. QED
    BY <2>1 DEF Tidy
<1>5. Tidy(c)
  BY <1>1, <1>4 DEF Tidy
<1>6. c \in Backups
  BY <1>1 DEF Backups
<1>7. InBackup(c, l)
  BY <1>0, <1>1, <1>5, <1>6, FoundSlot
<1>8. \A k \in Line : InBackup(c, k) => InBackup(b, k) \/ k = l
  BY <1>1, <1>3 DEF InBackup, InSlot
<1>9. \A k \in Line : InBackup(b, k) =>
          InBackup(c, k) \/ (b[t].entry # None /\ k = b[t].entry.line)
  BY <1>1, <1>3 DEF InBackup, InSlot
<1>10. QED
  BY <1>1, <1>3, <1>5, <1>6, <1>7, <1>8, <1>9 DEF c

\* A slot is emptied: its line is gone, and no other.
LEMMA EmptySlot ==
    ASSUME NEW b \in Backups, Tidy(b), NEW t \in Slot, b[t].entry # None
    PROVE  LET c == Filled(b, t, None) IN
           /\ c \in Backups /\ Tidy(c)
           /\ c[t].entry = None
           /\ \A s \in Slot : s # t => c[s] = b[s]
           /\ Enabled(c) = Enabled(b)
           /\ \A k \in Line : InBackup(c, k) <=> InBackup(b, k) /\ k # b[t].entry.line
<1> DEFINE c == Filled(b, t, None)
<1>1. /\ c \in [Slot -> BackupSlot]
      /\ c[t].entry = None
      /\ c[t].enabled = b[t].enabled
      /\ \A s \in Slot : s # t => c[s] = b[s]
  <2> DEFINE r == [b[t] EXCEPT !.entry = None]
  <2>1. r \in BackupSlot /\ r.entry = None /\ r.enabled = b[t].enabled
    BY SlotExcept DEF Backups
  <2>2. c = [s \in Slot |-> IF s = t THEN r ELSE b[s]]
    BY DEF Backups, Filled
  <2> HIDE DEF c, r
  <2>3. c[t] = r /\ \A s \in Slot : s # t => c[s] = b[s]
    BY <2>2
  <2>4. c \in [Slot -> BackupSlot]
    BY <2>1, <2>2 DEF Backups
  <2>5. QED
    BY <2>1, <2>3, <2>4
<1> HIDE DEF c
<1>2. Enabled(c) = Enabled(b)
  BY <1>1 DEF Enabled
<1>3. Tidy(c)
  BY <1>1 DEF Tidy
<1>4. \A k \in Line : InBackup(c, k) <=> InBackup(b, k) /\ k # b[t].entry.line
  BY <1>1, <1>2 DEF InBackup, InSlot, Tidy
<1>5. QED
  BY <1>1, <1>2, <1>3, <1>4 DEF c, Backups

\* An entry that is used is an entry.
LEMMA EntryUsed ==
    \A e \in BackupLine :
        /\ [e EXCEPT !.used = TRUE] \in BackupLine
        /\ [e EXCEPT !.used = TRUE].line = e.line
        /\ [e EXCEPT !.used = TRUE].data = e.data
        /\ [e EXCEPT !.used = TRUE].dirty = e.dirty
BY DEF BackupLine

\* And so is one that is stored to.
LEMMA EntryStored ==
    \A e \in BackupLine, o \in Offset, v \in Value :
        /\ [Stored(e, o, v) EXCEPT !.used = TRUE] \in BackupLine
        /\ [Stored(e, o, v) EXCEPT !.used = TRUE].line = e.line
        /\ [Stored(e, o, v) EXCEPT !.used = TRUE].data = [e.data EXCEPT ![o] = v]
        /\ [Stored(e, o, v) EXCEPT !.used = TRUE].dirty
BY DEF BackupLine, Stored, Data

\* The mark of use changes nothing that the flat memory shows.
LEMMA UsedEffect ==
    ASSUME NEW b \in Backups, Tidy(b), NEW l \in Line
    PROVE  LET c == UsedIn(b, l) IN
           /\ c \in Backups /\ Tidy(c)
           /\ Enabled(c) = Enabled(b)
           /\ \A k \in Line : InBackup(c, k) <=> InBackup(b, k)
           /\ \A s \in Slot :
                 /\ c[s].entry = None <=> b[s].entry = None
                 /\ b[s].entry # None =>
                       /\ c[s].entry.line = b[s].entry.line
                       /\ c[s].entry.data = b[s].entry.data
                       /\ c[s].entry.dirty = b[s].entry.dirty
<1>1. CASE ~InBackup(b, l)
  BY <1>1 DEF UsedIn
<1>2. CASE InBackup(b, l)
  <2> DEFINE t == SlotOf(b, l)
             e == [b[t].entry EXCEPT !.used = TRUE]
  <2>1. t \in Slot /\ b[t].enabled /\ b[t].entry # None /\ b[t].entry.line = l
    BY <1>2, BackedUp
  <2>2. b[t].entry \in BackupLine
    BY <2>1, EntryType
  <2>3. /\ e \in BackupLine /\ e.line = l /\ e.data = b[t].entry.data
        /\ e.dirty = b[t].entry.dirty
    <3> HIDE DEF t
    <3>1. e \in BackupLine /\ e.line = b[t].entry.line
          /\ e.data = b[t].entry.data /\ e.dirty = b[t].entry.dirty
      BY <2>2, EntryUsed
    <3>2. QED
      BY <2>1, <3>1
  <2> DEFINE c == Filled(b, t, e)
  <2>4. UsedIn(b, l) = c
    BY <1>2 DEF UsedIn, Filled
  <2> HIDE DEF e, t
  <2>5. /\ c \in Backups /\ Tidy(c)
        /\ c[t].entry = e
        /\ \A s \in Slot : s # t => c[s] = b[s]
        /\ Enabled(c) = Enabled(b)
        /\ InBackup(c, l)
        /\ \A k \in Line : InBackup(c, k) => InBackup(b, k) \/ k = l
        /\ \A k \in Line : InBackup(b, k) => InBackup(c, k) \/ k = l
    BY <2>1, <2>3, FillSlot
  <2>6. e # None
    BY <2>3, BackCacheAssumption
  <2> HIDE DEF c
  <2>7. QED
    BY <1>2, <2>1, <2>3, <2>4, <2>5, <2>6
<1>3. QED
  BY <1>1, <1>2

\* A store reaches the backup's copy, and no other entry.
LEMMA StoredEffect ==
    ASSUME NEW b \in Backups, Tidy(b),
           NEW l \in Line, NEW o \in Offset, NEW v \in Value
    PROVE  LET c == StoredIn(b, l, o, v) IN
           /\ c \in Backups /\ Tidy(c)
           /\ Enabled(c) = Enabled(b)
           /\ \A k \in Line : InBackup(c, k) <=> InBackup(b, k)
           /\ \A s \in Slot :
                 /\ c[s].entry = None <=> b[s].entry = None
                 /\ b[s].entry # None => c[s].entry.line = b[s].entry.line
                 /\ b[s].entry # None /\ b[s].entry.line # l =>
                       c[s].entry = b[s].entry
                 /\ b[s].entry # None /\ b[s].entry.line = l =>
                       /\ c[s].entry.data = [b[s].entry.data EXCEPT ![o] = v]
                       /\ c[s].entry.dirty
<1>1. CASE ~InBackup(b, l)
  BY <1>1, FoundSlot DEF StoredIn
<1>2. CASE InBackup(b, l)
  <2> DEFINE t == SlotOf(b, l)
             e == [Stored(b[t].entry, o, v) EXCEPT !.used = TRUE]
  <2>1. t \in Slot /\ b[t].enabled /\ b[t].entry # None /\ b[t].entry.line = l
    BY <1>2, BackedUp
  <2>2. b[t].entry \in BackupLine
    BY <2>1, EntryType
  <2>3. /\ e \in BackupLine /\ e.line = l
        /\ e.data = [b[t].entry.data EXCEPT ![o] = v] /\ e.dirty
    <3> HIDE DEF t
    <3>1. /\ e \in BackupLine /\ e.line = b[t].entry.line
          /\ e.data = [b[t].entry.data EXCEPT ![o] = v] /\ e.dirty
      BY <2>2, EntryStored
    <3>2. QED
      BY <2>1, <3>1
  <2> DEFINE c == Filled(b, t, e)
  <2>4. StoredIn(b, l, o, v) = c
    BY <1>2 DEF StoredIn, Filled
  <2> HIDE DEF e, t
  <2>5. /\ c \in Backups /\ Tidy(c)
        /\ c[t].entry = e
        /\ \A s \in Slot : s # t => c[s] = b[s]
        /\ Enabled(c) = Enabled(b)
        /\ InBackup(c, l)
        /\ \A k \in Line : InBackup(c, k) => InBackup(b, k) \/ k = l
        /\ \A k \in Line : InBackup(b, k) => InBackup(c, k) \/ k = l
    BY <2>1, <2>3, FillSlot
  <2>6. e # None
    BY <2>3, BackCacheAssumption
  <2>7. \A s \in Slot : s # t /\ b[s].entry # None => b[s].entry.line # l
    BY <2>1 DEF Tidy
  <2> HIDE DEF c
  <2>8. QED
    BY <1>2, <2>1, <2>3, <2>4, <2>5, <2>6, <2>7
<1>3. QED
  BY <1>1, <1>2

-----------------------------------------------------------------------------
(* Lines move.                                                             *)

\* The memory may get what the flat memory has, at any lines: what is faithful
\* stays faithful.
LEMMA MemoryCatchesUp ==
    ASSUME NEW m, NEW d, NEW mm, NEW n, n # None => n.line \in Line,
           \A k \in Line : mm[k] = m[k] \/ mm[k] = d[k],
           Faithful(n, m, d)
    PROVE  Faithful(n, mm, d)
BY DEF Faithful

\* In particular by the write-back of a copy, after which the copy is not
\* needed any more.
LEMMA WriteBackEffect ==
    ASSUME NEW m \in [Line -> Data], NEW d \in [Line -> Data], NEW n,
           n # None => n.line \in Line /\ n.data \in Data,
           Faithful(n, m, d)
    PROVE  /\ WriteBack(m, n) \in [Line -> Data]
           /\ \A k \in Line : WriteBack(m, n)[k] = m[k] \/ WriteBack(m, n)[k] = d[k]
           /\ n # None => WriteBack(m, n)[n.line] = d[n.line]
BY DEF WriteBack, Faithful

\* A line goes from the primary to the backup, and perhaps one from there to
\* the memory.
LEMMA EvictEffect ==
    ASSUME NEW p, NEW b, NEW m, NEW d, Amounts(p, b, m, d),
           NEW s \in Sets, NEW w \in Ways,
           NEW r \in Inserted(b, m, p[s][w])
    PROVE  LET q == [p EXCEPT ![s][w] = None] IN
           /\ Amounts(q, r.backup, r.mem, d)
           /\ \A k \in Line : Cached(q, k) => Cached(p, k)
           /\ Enabled(r.backup) = Enabled(b)
           /\ \A k \in Line : r.mem[k] = m[k] \/ r.mem[k] = d[k]
           /\ \A k \in Line :
                 InBackup(r.backup, k) => InBackup(b, k) \/ Cached(p, k)
           /\ Enabled(b) # {} => \A k \in Line :
                 Holds(p, k, w) /\ SetIndex(k) = s => InBackup(r.backup, k)
<1> DEFINE q == [p EXCEPT ![s][w] = None]
           n == p[s][w]
           c == r.backup
           mm == r.mem
<1>0. /\ p \in Array /\ Placed(p) /\ Unique(p)
      /\ b \in Backups /\ Tidy(b)
      /\ m \in [Line -> Data] /\ d \in [Line -> Data]
      /\ \A t \in Sets, v \in Ways : Faithful(p[t][v], m, d)
      /\ \A t \in Slot : Faithful(b[t].entry, m, d)
      /\ \A k \in Line : Cached(p, k) \/ InBackup(b, k) \/ m[k] = d[k]
  BY DEF Amounts
<1>1. CASE n = None
  <2>1. c = b /\ mm = m
    BY <1>1 DEF Inserted
  <2>2. q = p
    BY <1>0, <1>1 DEF Array
  <2>3. QED
    BY <1>0, <1>1, <2>1, <2>2 DEF Amounts, Holds
<1>2. CASE n # None
  <2> DEFINE l == n.line
  <2>0. n \in CacheLine /\ l \in Line /\ n.data \in Data /\ n.dirty \in BOOLEAN
    BY <1>0, <1>2, PrimaryType
  <2>1. Holds(p, l, w) /\ SetIndex(l) = s /\ Cached(p, l)
    BY <1>0, <1>2 DEF Placed, Holds, Cached
  <2>drop. q = Drop(p, l, w)
    BY <2>1 DEF Drop
  <2> HIDE DEF q
  <2>2. /\ q \in Array /\ Placed(q) /\ Unique(q)
        /\ q[s][w] = None
        /\ \A t \in Sets, v \in Ways : <<t, v>> # <<s, w>> => q[t][v] = p[t][v]
        /\ ~Cached(q, l)
        /\ \A k \in Line, v \in Ways : k # l => (Holds(q, k, v) <=> Holds(p, k, v))
    BY <1>0, <2>0, <2>1, <2>drop, DropLine
  <2>3. \A k \in Line : Cached(q, k) <=> Cached(p, k) /\ k # l
    BY <2>2 DEF Cached
  <2>4. \A k \in Line : Holds(p, k, w) /\ SetIndex(k) = s => k = l
    BY DEF Holds
  <2>5. Faithful(n, m, d) /\ n.data = d[l]
    BY <1>0, <1>2 DEF Faithful
  <2> DEFINE e == Entry(n, FALSE)
  <2>6. /\ e \in BackupLine /\ e # None
        /\ e.line = l /\ e.data = n.data /\ e.dirty = n.dirty
    <3>1. e \in BackupLine /\ e.line = l /\ e.data = n.data /\ e.dirty = n.dirty
      BY <2>0 DEF Entry, BackupLine
    <3>2. QED
      BY <3>1, BackCacheAssumption
  <2>copy. Faithful(e, m, d)
    <3>1. e.data = d[e.line]
      BY <2>5, <2>6
    <3>2. CASE n.dirty
      <4>1. e.dirty
        BY <2>6, <3>2
      <4>2. QED
        BY <3>1, <4>1 DEF Faithful
    <3>3. CASE ~n.dirty
      <4>1. m[l] = d[l]
        BY <1>2, <2>5, <3>3 DEF Faithful
      <4>2. QED
        BY <2>6, <3>1, <4>1 DEF Faithful
    <3>4. QED
      BY <3>2, <3>3
  <2>7. ASSUME c \in Backups, Tidy(c), mm \in [Line -> Data],
               \A k \in Line : mm[k] = m[k] \/ mm[k] = d[k],
               \A t \in Slot : Faithful(c[t].entry, mm, d),
               \A k \in Line : InBackup(b, k) => InBackup(c, k) \/ mm[k] = d[k],
               InBackup(c, l) \/ mm[l] = d[l]
        PROVE  Amounts(q, c, mm, d)
    <3>1. \A t \in Sets, v \in Ways : Faithful(q[t][v], mm, d)
      <4> SUFFICES ASSUME NEW t \in Sets, NEW v \in Ways, q[t][v] # None
                   PROVE  Faithful(q[t][v], mm, d)
        BY DEF Faithful
      <4>1. q[t][v] = p[t][v]
        BY <2>2
      <4>2. p[t][v].line \in Line
        BY <4>1, <1>0, PrimaryType
      <4>3. QED
        BY <4>1, <4>2, <1>0, <2>7, MemoryCatchesUp
    <3>2. \A k \in Line : Cached(q, k) \/ InBackup(c, k) \/ mm[k] = d[k]
      BY <1>0, <2>3, <2>7
    <3>3. QED
      BY <1>0, <2>2, <2>7, <3>1, <3>2 DEF Amounts
  <2>8. CASE InBackup(b, l)
    <3> DEFINE t == SlotOf(b, l)
    <3>1. t \in Slot /\ b[t].enabled /\ b[t].entry # None /\ b[t].entry.line = l
      BY <1>0, <2>0, <2>8, BackedUp
    <3>2. c = Filled(b, t, e) /\ mm = m
      BY <1>2, <2>8 DEF Inserted, Filled
    <3> HIDE DEF c, mm, t, e, l
    <3>3. /\ c \in Backups /\ Tidy(c)
          /\ c[t].entry = e
          /\ \A u \in Slot : u # t => c[u] = b[u]
          /\ Enabled(c) = Enabled(b)
          /\ InBackup(c, l)
          /\ \A k \in Line : InBackup(c, k) => InBackup(b, k) \/ k = l
          /\ \A k \in Line : InBackup(b, k) => InBackup(c, k) \/ k = l
      BY <1>0, <2>0, <2>6, <3>1, <3>2, FillSlot
    <3>4. \A u \in Slot : Faithful(c[u].entry, mm, d)
      BY <1>0, <2>copy, <3>2, <3>3
    <3>5. Amounts(q, c, mm, d)
      BY <1>0, <2>7, <3>2, <3>3, <3>4
    <3>6. QED
      BY <1>0, <2>1, <2>3, <2>4, <3>2, <3>3, <3>5 DEF c, mm, q, l
  <2>9. CASE ~InBackup(b, l) /\ Enabled(b) = {}
    <3>1. c = b /\ mm = WriteBack(m, n)
      BY <1>2, <2>9 DEF Inserted
    <3> HIDE DEF c, mm
    <3>2. /\ mm \in [Line -> Data]
          /\ \A k \in Line : mm[k] = m[k] \/ mm[k] = d[k]
          /\ mm[l] = d[l]
      BY <1>0, <1>2, <2>0, <2>5, <3>1, WriteBackEffect
    <3>3. \A u \in Slot : Faithful(c[u].entry, mm, d)
      <4> SUFFICES ASSUME NEW u \in Slot PROVE Faithful(c[u].entry, mm, d)
        OBVIOUS
      <4>1. c[u].entry # None => c[u].entry.line \in Line
        BY <1>0, <3>1, EntryType
      <4>2. QED
        BY <4>1, <1>0, <3>1, <3>2, MemoryCatchesUp
    <3>4. Amounts(q, c, mm, d)
      BY <1>0, <2>7, <3>1, <3>2, <3>3
    <3>5. QED
      BY <2>3, <2>9, <3>1, <3>2, <3>4 DEF c, mm, q
  <2>10. CASE ~InBackup(b, l) /\ Enabled(b) # {}
    <3>1. PICK t \in Slot : /\ Selected(b, {t})
                            /\ r = [backup |-> [b EXCEPT ![t].entry = Entry(n, FALSE)],
                                    mem |-> WriteBack(m, b[t].entry)]
      BY <1>2, <2>10 DEF Inserted
    <3>2. /\ b[t].enabled
          /\ c = Filled(b, t, e)
          /\ mm = WriteBack(m, b[t].entry)
      BY <3>1 DEF Selected, Enabled, Filled
    <3> HIDE DEF c, mm, e, l
    <3>3. /\ c \in Backups /\ Tidy(c)
          /\ c[t].entry = e
          /\ \A u \in Slot : u # t => c[u] = b[u]
          /\ Enabled(c) = Enabled(b)
          /\ InBackup(c, l)
          /\ \A k \in Line : InBackup(c, k) => InBackup(b, k) \/ k = l
          /\ \A k \in Line : InBackup(b, k) =>
                InBackup(c, k) \/ (b[t].entry # None /\ k = b[t].entry.line)
      BY <1>0, <2>0, <2>6, <2>10, <3>2, FillSlot
    <3>4. b[t].entry # None => b[t].entry.line \in Line /\ b[t].entry.data \in Data
      BY <1>0, EntryType
    <3>5. /\ mm \in [Line -> Data]
          /\ \A k \in Line : mm[k] = m[k] \/ mm[k] = d[k]
          /\ b[t].entry # None => mm[b[t].entry.line] = d[b[t].entry.line]
      BY <1>0, <3>2, <3>4, WriteBackEffect
    <3>6. \A u \in Slot : Faithful(c[u].entry, mm, d)
      <4> SUFFICES ASSUME NEW u \in Slot PROVE Faithful(c[u].entry, mm, d)
        OBVIOUS
      <4>1. CASE u = t
        BY <4>1, <2>0, <2>6, <2>copy, <3>3, <3>5, MemoryCatchesUp
      <4>2. CASE u # t
        <5>1. b[u].entry # None => b[u].entry.line \in Line
          BY <1>0, EntryType
        <5>2. QED
          BY <4>2, <5>1, <1>0, <3>3, <3>5, MemoryCatchesUp
      <4>3. QED
        BY <4>1, <4>2
    <3>7. Amounts(q, c, mm, d)
      BY <1>0, <2>7, <3>3, <3>5, <3>6
    <3>8. QED
      BY <2>1, <2>3, <2>4, <3>3, <3>5, <3>7 DEF c, mm, q, l
  <2>11. QED
    BY <2>8, <2>9, <2>10
<1>3. QED
  BY <1>1, <1>2

\* A line that was nowhere in the primary goes into an empty way, with data
\* that the flat memory then has; the backup's copy, if any, has it already.
LEMMA FillWay ==
    ASSUME NEW p, NEW b, NEW m, NEW d, Amounts(p, b, m, d),
           NEW n \in CacheLine, NEW l \in Line, n.line = l, NEW w \in Ways,
           ~Cached(p, l),
           NEW dd \in [Line -> Data], \A k \in Line : k # l => dd[k] = d[k],
           dd[l] = n.data,
           InBackup(b, l) => dd[l] = d[l],
           n.dirty \/ m[l] = dd[l],
           p[SetIndex(l)][w] = None
    PROVE  Amounts(Put(p, l, w, n), b, m, dd)
<1> DEFINE q == Put(p, l, w, n)
           s == SetIndex(l)
<1>0. /\ p \in Array /\ Placed(p) /\ Unique(p)
      /\ b \in Backups /\ Tidy(b)
      /\ m \in [Line -> Data] /\ d \in [Line -> Data]
      /\ \A t \in Sets, v \in Ways : Faithful(p[t][v], m, d)
      /\ \A t \in Slot : Faithful(b[t].entry, m, d)
      /\ \A k \in Line : Cached(p, k) \/ InBackup(b, k) \/ m[k] = d[k]
  BY DEF Amounts
<1>1. s \in Sets
  BY SetIndexInSets
<1>2. /\ q \in Array
      /\ q[s][w] = n
      /\ \A t \in Sets, v \in Ways : <<t, v>> # <<s, w>> => q[t][v] = p[t][v]
      /\ Holds(q, l, w)
      /\ \A k \in Line, v \in Ways :
            k # l => (Holds(q, k, v) <=>
                        Holds(p, k, v) /\ <<SetIndex(k), v>> # <<s, w>>)
      /\ Placed(q)
      /\ Unique(q)
  BY <1>0, PutLine
<1> HIDE DEF q
<1>3. \A k \in Line : Cached(p, k) => Cached(q, k)
  <2> SUFFICES ASSUME NEW k \in Line, NEW v \in Ways, Holds(p, k, v)
               PROVE  Cached(q, k)
    BY DEF Cached
  <2>1. k # l
    BY DEF Cached
  <2>2. <<SetIndex(k), v>> # <<s, w>>
    BY DEF Holds
  <2>3. QED
    BY <1>2, <2>1, <2>2 DEF Cached
<1>4. \A k \in Line : Cached(q, k) \/ InBackup(b, k) \/ m[k] = dd[k]
  BY <1>0, <1>2, <1>3 DEF Cached
<1>5. ASSUME NEW t \in Sets, NEW v \in Ways PROVE Faithful(q[t][v], m, dd)
  <2>1. CASE <<t, v>> = <<s, w>>
    BY <1>2, <2>1 DEF Faithful
  <2>2. CASE <<t, v>> # <<s, w>> /\ p[t][v] # None
    <3> DEFINE k == p[t][v].line
    <3>1. k \in Line
      BY <1>0, <2>2, PrimaryType
    <3>2. t = SetIndex(k) /\ Holds(p, k, v)
      BY <1>0, <2>2 DEF Placed, Holds
    <3>3. k # l
      BY <3>2 DEF Cached
    <3>4. dd[k] = d[k]
      BY <3>1, <3>3
    <3>5. QED
      BY <1>0, <1>2, <2>2, <3>4 DEF Faithful
  <2>3. CASE <<t, v>> # <<s, w>> /\ p[t][v] = None
    BY <1>2, <2>3 DEF Faithful
  <2>4. QED
    BY <2>1, <2>2, <2>3
<1>6. ASSUME NEW t \in Slot PROVE Faithful(b[t].entry, m, dd)
  <2> SUFFICES ASSUME b[t].entry # None
               PROVE  Faithful(b[t].entry, m, dd)
    BY DEF Faithful
  <2>1. b[t].entry.line \in Line
    BY <1>0, EntryType
  <2>2. InBackup(b, b[t].entry.line)
    BY <1>0, <2>1, FoundSlot
  <2>3. dd[b[t].entry.line] = d[b[t].entry.line]
    BY <2>1, <2>2
  <2>4. QED
    BY <1>0, <2>3 DEF Faithful
<1>7. QED
  BY <1>0, <1>2, <1>4, <1>5, <1>6 DEF Amounts, q

-----------------------------------------------------------------------------
(* A resize.                                                               *)

\* The policy allows at least one slot and no more than there are.
LEMMA PolicyBounds ==
    /\ Capacity \in Nat /\ 1 <= Capacity
    /\ MinEnabled \in Nat /\ MaxEnabled \in Nat
    /\ 1 <= MinEnabled /\ MinEnabled <= MaxEnabled /\ MaxEnabled <= Capacity
<1>1. Capacity \in Nat /\ 1 <= Capacity
  BY GeometryAssumption DEF Capacity
<1>2. MinEnabled \in Nat /\ 1 <= MinEnabled /\ MinEnabled <= Capacity
  BY <1>1, BackCacheAssumption DEF MinEnabled, Clamp
<1>3. QED
  BY <1>1, <1>2, BackCacheAssumption DEF MaxEnabled, Clamp

\* set_enabled_lines: what the disabled slots held is in the memory.
LEMMA ResizeEffect ==
    ASSUME NEW p, NEW b, NEW m, NEW d, Amounts(p, b, m, d), NEW n, Resize(b, m, n)
    PROVE  Amounts(p, backup', mem', d) /\ Cardinality(Enabled(backup')) = n
<1>1. PICK S \in SUBSET Slot :
          /\ Cardinality(S) = n
          /\ backup' = [s \in Slot |->
                IF b[s].enabled <=> s \in S THEN b[s]
                ELSE [enabled |-> s \in S, entry |-> None]]
          /\ mem' = Flushed(b, m, Enabled(b) \ S)
  BY DEF Resize
<1>0. /\ p \in Array /\ Placed(p) /\ Unique(p)
      /\ b \in Backups /\ Tidy(b)
      /\ m \in [Line -> Data] /\ d \in [Line -> Data]
      /\ \A t \in Sets, v \in Ways : Faithful(p[t][v], m, d)
      /\ \A t \in Slot : Faithful(b[t].entry, m, d)
      /\ \A k \in Line : Cached(p, k) \/ InBackup(b, k) \/ m[k] = d[k]
  BY DEF Amounts
<1> DEFINE c == backup'
           D == Enabled(b) \ S
<1>2. ASSUME NEW s \in Slot
      PROVE  /\ c[s] \in BackupSlot
             /\ c[s].enabled <=> s \in S
             /\ c[s].entry = None \/ (c[s].entry = b[s].entry /\ b[s].enabled)
             /\ s \in S => c[s].entry = b[s].entry
  <2>0. /\ b[s].enabled \in BOOLEAN /\ b[s].entry \in BackupLine \cup {None}
        /\ b[s] \in BackupSlot
    BY <1>0, SlotType DEF Backups
  <2>1. CASE b[s].enabled <=> s \in S
    <3>1. c[s] = b[s]
      BY <1>1, <2>1
    <3>2. c[s].entry = None \/ b[s].enabled
      BY <1>0, <3>1 DEF Tidy
    <3>3. QED
      BY <2>0, <2>1, <3>1, <3>2
  <2>2. CASE ~(b[s].enabled <=> s \in S)
    <3>1. PICK e \in BOOLEAN : e <=> s \in S
      OBVIOUS
    <3>2. /\ c[s] \in BackupSlot /\ c[s].entry = None
          /\ c[s].enabled <=> s \in S
      <4>1. c[s] = [enabled |-> s \in S, entry |-> None]
        BY <1>1, <2>2
      <4>2. c[s] = [enabled |-> e, entry |-> None]
        BY <3>1, <4>1
      <4>3. QED
        BY <3>1, <4>2 DEF BackupSlot
    <3>3. s \in S => b[s].entry = None
      BY <1>0, <2>0, <2>2 DEF Tidy
    <3>4. QED
      BY <3>2, <3>3
  <2>3. QED
    BY <2>1, <2>2
<1>3. c \in Backups
  BY <1>1, <1>2 DEF Backups
<1>4. Enabled(c) = S
  BY <1>2 DEF Enabled
<1>5. Tidy(c)
  <2>1. \A s \in Slot : c[s].entry # None => c[s].enabled /\ c[s].entry = b[s].entry
    <3> SUFFICES ASSUME NEW s \in Slot, c[s].entry # None
                 PROVE  c[s].enabled /\ c[s].entry = b[s].entry
      OBVIOUS
    <3>1. c[s].entry = b[s].entry /\ b[s].enabled
      BY <1>2
    <3>2. CASE s \in S
      BY <1>2, <3>1, <3>2
    <3>3. CASE s \notin S
      <4>1. c[s] = [enabled |-> s \in S, entry |-> None]
        BY <1>1, <3>1, <3>3
      <4>2. QED
        BY <4>1
    <3>4. QED
      BY <3>2, <3>3
  <2>2. QED
    BY <1>0, <2>1 DEF Tidy
<1>6. ASSUME NEW k \in Line
      PROVE  /\ mem'[k] \in Data
             /\ mem'[k] = m[k] \/ mem'[k] = d[k]
             /\ (\E s \in D : InSlot(b, k, s)) => mem'[k] = d[k]
  <2> DEFINE dirty == {s \in D : InSlot(b, k, s) /\ b[s].entry.dirty}
  <2>1. mem'[k] = IF dirty = {} THEN m[k] ELSE b[CHOOSE s \in dirty : TRUE].entry.data
    BY <1>1 DEF Flushed
  <2>2. \A s \in Slot : InSlot(b, k, s) =>
            b[s].entry.data = d[k] /\ (b[s].entry.dirty \/ m[k] = d[k])
    BY <1>0 DEF InSlot, Faithful
  <2>3. CASE dirty = {}
    BY <1>0, <2>1, <2>2, <2>3 DEF Enabled
  <2>4. CASE dirty # {}
    <3>1. PICK s \in dirty : mem'[k] = b[s].entry.data
      BY <2>1, <2>4
    <3>2. QED
      BY <1>0, <2>2, <3>1 DEF Enabled
  <2>5. QED
    BY <2>3, <2>4
<1>7. mem' \in [Line -> Data]
  BY <1>1, <1>6 DEF Flushed
<1>8. \A t \in Sets, v \in Ways : Faithful(p[t][v], mem', d)
  <2> SUFFICES ASSUME NEW t \in Sets, NEW v \in Ways
               PROVE  Faithful(p[t][v], mem', d)
    OBVIOUS
  <2>1. p[t][v] # None => p[t][v].line \in Line
    BY <1>0, PrimaryType
  <2>2. QED
    BY <1>0, <1>6, <2>1, MemoryCatchesUp
<1>9. \A t \in Slot : Faithful(c[t].entry, mem', d)
  <2> SUFFICES ASSUME NEW t \in Slot, c[t].entry # None
               PROVE  Faithful(c[t].entry, mem', d)
    BY DEF Faithful
  <2>1. c[t].entry = b[t].entry
    BY <1>2
  <2>2. c[t].entry.line \in Line
    BY <1>3, EntryType
  <2>3. QED
    BY <1>0, <1>6, <2>1, <2>2, MemoryCatchesUp
<1>10. ASSUME NEW k \in Line PROVE Cached(p, k) \/ InBackup(c, k) \/ mem'[k] = d[k]
  <2>1. CASE ~InBackup(b, k)
    BY <1>0, <1>6, <2>1
  <2>2. CASE InBackup(b, k)
    <3>1. PICK s \in Slot : InSlot(b, k, s)
      BY <2>2 DEF InBackup
    <3>2. CASE s \in S
      <4>1. c[s].entry = b[s].entry
        BY <1>2, <3>2
      <4>2. QED
        BY <1>4, <3>1, <3>2, <4>1 DEF InBackup, InSlot
    <3>3. CASE s \notin S
      BY <1>6, <3>1, <3>3 DEF InSlot
    <3>4. QED
      BY <3>2, <3>3
  <2>3. QED
    BY <2>1, <2>2
<1>11. QED
  BY <1>0, <1>1, <1>3, <1>4, <1>5, <1>7, <1>8, <1>9, <1>10 DEF Amounts

\* The enabled slots of b, and the count of accesses left, are within bounds.
Policed(b) == Cardinality(Enabled(b)) \in MinEnabled..MaxEnabled

\* access_complete: whether or not it resizes.
LEMMA CompleteEffect ==
    ASSUME NEW p, NEW b, NEW m, NEW d, Amounts(p, b, m, d), Policed(b),
           countdown \in 1..Cardinality(Enabled(b)), AccessComplete(b, m)
    PROVE  /\ Amounts(p, backup', mem', d)
           /\ Policed(backup')
           /\ countdown' \in 1..Cardinality(Enabled(backup'))
           /\ countdown # 1 => backup' = b
<1>0. Cardinality(Enabled(b)) \in Nat
  BY PolicyBounds DEF Policed
<1>1. CASE countdown > 1
  <2>1. countdown' = countdown - 1 /\ backup' = b /\ mem' = m
    BY <1>0, <1>1 DEF AccessComplete
  <2>2. QED
    BY <1>0, <1>1, <2>1
<1>2. CASE countdown <= 1
  <2>1. PICK n \in MinEnabled..MaxEnabled : countdown' = n /\ Resize(b, m, n)
    BY <1>0, <1>2 DEF AccessComplete
  <2>2. Amounts(p, backup', mem', d) /\ Cardinality(Enabled(backup')) = n
    BY <2>1, ResizeEffect
  <2>3. QED
    BY <1>0, <1>2, <2>1, <2>2, PolicyBounds DEF Policed
<1>3. QED
  BY <1>0, <1>1, <1>2

-----------------------------------------------------------------------------
(* The calls.                                                              *)

\* Every line of the primary is there after the step, or in the backup, or the
\* step was the last before a resize.
Kept ==
    \A k \in Line :
        Cached(primary, k) => Cached(primary', k) \/ InBackup(backup', k) \/ countdown = 1

\* A miss of the primary: n is installed over backup b, which has been marked
\* or stored to; the flat memory is then dd.
LEMMA InstallEffect ==
    ASSUME NEW b, NEW d, Amounts(primary, b, mem, d), Policed(b),
           countdown \in 1..Cardinality(Enabled(b)),
           NEW n \in CacheLine, NEW l \in Line, n.line = l, ~Cached(primary, l),
           NEW dd \in [Line -> Data], \A k \in Line : k # l => dd[k] = d[k],
           dd[l] = n.data,
           InBackup(b, l) => dd[l] = d[l],
           n.dirty \/ (mem[l] = dd[l] /\ dd[l] = d[l]),
           Install(n, b)
    PROVE  /\ Amounts(primary', backup', mem', dd)
           /\ Policed(backup')
           /\ countdown' \in 1..Cardinality(Enabled(backup'))
           /\ Kept
<1>1. PICK w \in Ways :
          /\ primary' = Put(primary, l, w, n)
          /\ \E r \in Inserted(b, mem, primary[SetIndex(l)][w]) :
                AccessComplete(r.backup, r.mem)
  BY DEF Install
<1> DEFINE s == SetIndex(l)
           q == [primary EXCEPT ![s][w] = None]
<1>2. PICK r \in Inserted(b, mem, primary[s][w]) : AccessComplete(r.backup, r.mem)
  BY <1>1
<1>3. s \in Sets
  BY SetIndexInSets
<1>4. /\ Amounts(q, r.backup, r.mem, d)
      /\ \A k \in Line : Cached(q, k) => Cached(primary, k)
      /\ Enabled(r.backup) = Enabled(b)
      /\ \A k \in Line : r.mem[k] = mem[k] \/ r.mem[k] = d[k]
      /\ \A k \in Line : InBackup(r.backup, k) => InBackup(b, k) \/ Cached(primary, k)
      /\ Enabled(b) # {} => \A k \in Line :
            Holds(primary, k, w) /\ SetIndex(k) = s => InBackup(r.backup, k)
  BY <1>3, EvictEffect
<1>5. primary \in Array
  BY DEF Amounts
<1>6. q[s][w] = None
  BY <1>3, <1>5 DEF Array
<1>7. Put(q, l, w, n) = primary'
  BY <1>1, <1>3, <1>5 DEF Put, Array
<1> HIDE DEF q
<1>8. Amounts(primary', r.backup, r.mem, dd)
  <2>1. Amounts(Put(q, l, w, n), r.backup, r.mem, dd)
    <3>1. n.dirty \/ r.mem[l] = dd[l]
      BY <1>4
    <3>2. InBackup(r.backup, l) => dd[l] = d[l]
      BY <1>4
    <3>3. ~Cached(q, l)
      BY <1>4
    <3>4. QED
      BY <1>4, <1>6, <3>1, <3>2, <3>3, FillWay
  <2>2. QED
    BY <1>7, <2>1
<1>9. Policed(r.backup) /\ countdown \in 1..Cardinality(Enabled(r.backup))
  BY <1>4 DEF Policed
<1>10. /\ Amounts(primary', backup', mem', dd)
       /\ Policed(backup')
       /\ countdown' \in 1..Cardinality(Enabled(backup'))
       /\ countdown # 1 => backup' = r.backup
  BY <1>2, <1>8, <1>9, CompleteEffect
<1>11. Kept
  <2> SUFFICES ASSUME NEW k \in Line, Cached(primary, k), ~Cached(primary', k),
                      countdown # 1
               PROVE  InBackup(backup', k)
    BY DEF Kept
  <2>1. PICK v \in Ways : Holds(primary, k, v)
    BY DEF Cached
  <2>2. v = w /\ SetIndex(k) = s
    <3> SUFFICES ASSUME <<SetIndex(k), v>> # <<s, w>> PROVE FALSE
      OBVIOUS
    <3>1. SetIndex(k) \in Sets
      BY SetIndexInSets
    <3>2. primary'[SetIndex(k)][v] = primary[SetIndex(k)][v]
      BY <1>1, <1>3, <1>5, <3>1 DEF Put, Array
    <3>3. Holds(primary', k, v)
      BY <2>1, <3>2 DEF Holds
    <3>4. QED
      BY <3>3 DEF Cached
  <2>3. Enabled(b) # {}
    <3> SUFFICES ASSUME Enabled(b) = {} PROVE FALSE
      OBVIOUS
    <3>1. Cardinality(Enabled(b)) = 0
      BY FS_EmptySet
    <3>2. QED
      BY <3>1
  <2>4. QED
    BY <1>4, <1>10, <2>1, <2>2, <2>3
<1>12. QED
  BY <1>10, <1>11

\* The stamps stay in range.
LEMMA StampedType ==
    ASSUME age \in [Line -> Ages], NEW l \in Line
    PROVE  Stamped(l) \in [Line -> Ages]
<1>1. Cardinality(Line) \in Nat /\ Cardinality(Line) # 0
  BY BackCacheAssumption, FS_CardinalityType, FS_EmptySet
<1>2. ASSUME NEW k \in Line
      PROVE  (IF k = l THEN Cardinality(Line) - 1
              ELSE IF age[k] > age[l] THEN age[k] - 1 ELSE age[k]) \in Ages
  <2>1. age[k] \in Ages /\ age[l] \in Ages
    OBVIOUS
  <2>2. QED
    BY <1>1, <2>1 DEF Ages
<1>3. QED
  BY <1>2 DEF Stamped

\* The flat memory that a state amounts to is its View.
LEMMA ViewNow ==
    ASSUME NEW d, Amounts(primary, backup, mem, d)
    PROVE  View = d
<1>1. ViewOf(primary, backup, mem) = d
  BY ViewIs
<1>2. QED
  BY <1>1 DEF View, ViewOf

\* And so is View of the next state.
LEMMA ViewNext ==
    ASSUME NEW d, Amounts(primary', backup', mem', d)
    PROVE  View' = d
<1>1. ViewOf(primary', backup', mem') = d
  BY ViewIs
<1>2. QED
  BY <1>1 DEF View, ViewOf

\* What an access has to leave.
LEMMA AccessKeepsInv ==
    ASSUME NEW d, Amounts(primary', backup', mem', d),
           Policed(backup'), countdown' \in 1..Cardinality(Enabled(backup')),
           age' \in [Line -> Ages],
           reply' \in [op : {"none"}]
              \cup [op : {"load"}, line : Line, off : Offset, val : Value]
    PROVE  Inv' /\ View' = d
<1>1. View' = d
  BY ViewNext
<1>2. Cardinality(Enabled(backup')) \in MinEnabled..MaxEnabled
  BY DEF Policed
<1>3. countdown' \in 1..Capacity
  BY <1>2, PolicyBounds
<1>4. TypeOK'
  BY <1>3 DEF TypeOK, Amounts, Backups
<1>5. ResizesWithinPolicy'
  <2>1. \A s \in Slot \ Enabled(backup') : backup'[s].entry = None
    BY DEF Amounts, Tidy, Enabled
  <2>2. QED
    BY <1>2, <2>1 DEF ResizesWithinPolicy, Enabled
<1>6. QED
  BY <1>1, <1>4, <1>5 DEF Inv

\* Marking the backup's copy as used changes nothing that the flat memory shows.
LEMMA MarkUsed ==
    ASSUME NEW p, NEW b, NEW m, NEW d, Amounts(p, b, m, d), NEW l \in Line
    PROVE  /\ Amounts(p, UsedIn(b, l), m, d)
           /\ Enabled(UsedIn(b, l)) = Enabled(b)
<1> DEFINE c == UsedIn(b, l)
<1>0. b \in Backups /\ Tidy(b) /\ \A s \in Slot : Faithful(b[s].entry, m, d)
  BY DEF Amounts
<1>1. /\ c \in Backups /\ Tidy(c)
      /\ Enabled(c) = Enabled(b)
      /\ \A k \in Line : InBackup(c, k) <=> InBackup(b, k)
      /\ \A s \in Slot :
            /\ c[s].entry = None <=> b[s].entry = None
            /\ b[s].entry # None =>
                  /\ c[s].entry.line = b[s].entry.line
                  /\ c[s].entry.data = b[s].entry.data
                  /\ c[s].entry.dirty = b[s].entry.dirty
  BY <1>0, UsedEffect
<1> HIDE DEF c
<1>2. ASSUME NEW s \in Slot PROVE Faithful(c[s].entry, m, d)
  <2>1. CASE c[s].entry = None
    BY <2>1 DEF Faithful
  <2>2. CASE c[s].entry # None
    <3>1. /\ b[s].entry # None
          /\ c[s].entry.line = b[s].entry.line
          /\ c[s].entry.data = b[s].entry.data
          /\ c[s].entry.dirty = b[s].entry.dirty
      BY <1>1, <2>2
    <3>2. /\ b[s].entry.data = d[b[s].entry.line]
          /\ b[s].entry.dirty \/ m[b[s].entry.line] = d[b[s].entry.line]
      BY <1>0, <3>1 DEF Faithful
    <3>3. b[s].entry.dirty => c[s].entry.dirty
      BY <3>1
    <3>4. QED
      BY <3>1, <3>2, <3>3 DEF Faithful
  <2>3. QED
    BY <2>1, <2>2
<1>3. Amounts(p, c, m, d)
  BY <1>1, <1>2 DEF Amounts
<1>4. QED
  BY <1>1, <1>3 DEF c

\* A store to the backup's copy, of a line that is not in the primary or goes
\* on to be stored to there: what the backup says of the new flat memory.
LEMMA StoredEntries ==
    ASSUME NEW b \in Backups, Tidy(b), NEW m, NEW d \in [Line -> Data],
           \A s \in Slot : Faithful(b[s].entry, m, d),
           NEW l \in Line, NEW o \in Offset, NEW v \in Value, NEW s \in Slot
    PROVE  Faithful(StoredIn(b, l, o, v)[s].entry, m, [d EXCEPT ![l][o] = v])
<1> DEFINE c == StoredIn(b, l, o, v)
           dd == [d EXCEPT ![l][o] = v]
<1>1. /\ c[s].entry = None <=> b[s].entry = None
      /\ b[s].entry # None => c[s].entry.line = b[s].entry.line
      /\ b[s].entry # None /\ b[s].entry.line # l => c[s].entry = b[s].entry
      /\ b[s].entry # None /\ b[s].entry.line = l =>
            /\ c[s].entry.data = [b[s].entry.data EXCEPT ![o] = v]
            /\ c[s].entry.dirty
  BY StoredEffect
<1>2. dd[l] = [d[l] EXCEPT ![o] = v] /\ \A k \in Line : k # l => dd[k] = d[k]
  OBVIOUS
<1> HIDE DEF c, dd
<1>3. CASE b[s].entry = None
  BY <1>1, <1>3 DEF Faithful, c
<1>4. CASE b[s].entry # None /\ b[s].entry.line = l
  <2>1. c[s].entry.data = dd[l] /\ c[s].entry.line = l /\ c[s].entry.dirty
    BY <1>1, <1>2, <1>4 DEF Faithful
  <2>2. QED
    BY <2>1 DEF Faithful, c, dd
<1>5. CASE b[s].entry # None /\ b[s].entry.line # l
  <2>1. b[s].entry.line \in Line
    BY <1>5, EntryType
  <2>2. c[s].entry = b[s].entry /\ dd[b[s].entry.line] = d[b[s].entry.line]
    BY <1>1, <1>2, <1>5, <2>1
  <2>3. Faithful(c[s].entry, m, dd)
    BY <2>2 DEF Faithful
  <2>4. QED
    BY <2>3 DEF c, dd
<1>6. QED
  BY <1>3, <1>4, <1>5

\* A line of the primary with one byte stored.
LEMMA StoredType ==
    \A n \in CacheLine, o \in Offset, v \in Value :
        /\ Stored(n, o, v) \in CacheLine
        /\ Stored(n, o, v).line = n.line
        /\ Stored(n, o, v).data = [n.data EXCEPT ![o] = v]
        /\ Stored(n, o, v).dirty
BY DEF Stored, CacheLine, Data

\* A store that finds its line in the primary.
LEMMA StoreBoth ==
    ASSUME NEW p, NEW b, NEW m, NEW d, Amounts(p, b, m, d),
           NEW l \in Line, NEW o \in Offset, NEW v \in Value,
           NEW w \in Ways, Holds(p, l, w)
    PROVE  LET q == Put(p, l, w, Stored(p[SetIndex(l)][w], o, v)) IN
           /\ Amounts(q, StoredIn(b, l, o, v), m, [d EXCEPT ![l][o] = v])
           /\ \A k \in Line : Cached(p, k) => Cached(q, k)
<1> DEFINE s == SetIndex(l)
           n == Stored(p[s][w], o, v)
           q == Put(p, l, w, n)
           c == StoredIn(b, l, o, v)
           dd == [d EXCEPT ![l][o] = v]
<1>0. /\ p \in Array /\ Placed(p) /\ Unique(p)
      /\ b \in Backups /\ Tidy(b)
      /\ m \in [Line -> Data] /\ d \in [Line -> Data]
      /\ \A t \in Sets, u \in Ways : Faithful(p[t][u], m, d)
      /\ \A t \in Slot : Faithful(b[t].entry, m, d)
      /\ \A k \in Line : Cached(p, k) \/ InBackup(b, k) \/ m[k] = d[k]
  BY DEF Amounts
<1>1. s \in Sets
  BY SetIndexInSets
<1>2. p[s][w] \in CacheLine /\ p[s][w].line = l /\ p[s][w].data = d[l]
  <2>1. p[s][w] # None /\ p[s][w].line = l
    BY DEF Holds
  <2>2. p[s][w] \in CacheLine
    BY <1>0, <1>1, <2>1, PrimaryType
  <2>3. QED
    BY <1>0, <1>1, <2>1, <2>2 DEF Faithful
<1>3. n \in CacheLine /\ n.line = l /\ n.data = [d[l] EXCEPT ![o] = v] /\ n.dirty
  BY <1>2, StoredType
<1> HIDE DEF n
<1>4. /\ q \in Array
      /\ q[s][w] = n
      /\ \A t \in Sets, u \in Ways : <<t, u>> # <<s, w>> => q[t][u] = p[t][u]
      /\ Holds(q, l, w)
      /\ \A k \in Line, u \in Ways :
            k # l => (Holds(q, k, u) <=>
                        Holds(p, k, u) /\ <<SetIndex(k), u>> # <<s, w>>)
      /\ Placed(q)
      /\ Unique(q)
  BY <1>0, <1>3, PutLine
<1> HIDE DEF q
<1>5. /\ dd \in [Line -> Data]
      /\ dd[l] = [d[l] EXCEPT ![o] = v]
      /\ \A k \in Line : k # l => dd[k] = d[k]
  BY <1>0 DEF Data
<1>6. /\ c \in Backups /\ Tidy(c)
      /\ \A k \in Line : InBackup(c, k) <=> InBackup(b, k)
  BY <1>0, StoredEffect
<1>7. \A t \in Slot : Faithful(c[t].entry, m, dd)
  BY <1>0, StoredEntries
<1> HIDE DEF c, dd
<1>8. ASSUME NEW k \in Line, Cached(p, k) PROVE Cached(q, k)
  <2>1. CASE k = l
    BY <1>4, <2>1 DEF Cached
  <2>2. CASE k # l
    <3>1. PICK u \in Ways : Holds(p, k, u)
      BY <1>8 DEF Cached
    <3>2. <<SetIndex(k), u>> # <<s, w>>
      BY <1>2, <2>2, <3>1 DEF Holds
    <3>3. QED
      BY <1>4, <2>2, <3>1, <3>2 DEF Cached
  <2>3. QED
    BY <2>1, <2>2
<1>9. ASSUME NEW t \in Sets, NEW u \in Ways PROVE Faithful(q[t][u], m, dd)
  <2>1. CASE <<t, u>> = <<s, w>>
    BY <1>3, <1>4, <1>5, <2>1 DEF Faithful
  <2>2. CASE <<t, u>> # <<s, w>> /\ p[t][u] # None
    <3> DEFINE k == p[t][u].line
    <3>1. k \in Line
      BY <1>0, <2>2, PrimaryType
    <3>2. t = SetIndex(k) /\ Holds(p, k, u)
      BY <1>0, <2>2 DEF Placed, Holds
    <3>3. k # l
      BY <1>0, <2>2, <3>2 DEF Unique
    <3>4. dd[k] = d[k]
      BY <1>5, <3>1, <3>3
    <3>5. QED
      BY <1>0, <1>4, <2>2, <3>4 DEF Faithful
  <2>3. CASE <<t, u>> # <<s, w>> /\ p[t][u] = None
    BY <1>4, <2>3 DEF Faithful
  <2>4. QED
    BY <2>1, <2>2, <2>3
<1>10. \A k \in Line : Cached(q, k) \/ InBackup(c, k) \/ m[k] = dd[k]
  <2> SUFFICES ASSUME NEW k \in Line, ~Cached(q, k), ~InBackup(c, k)
               PROVE  m[k] = dd[k]
    OBVIOUS
  <2>1. k # l
    BY <1>4 DEF Cached
  <2>2. QED
    BY <1>0, <1>5, <1>6, <1>8, <2>1
<1>11. Amounts(q, c, m, dd)
  BY <1>0, <1>4, <1>5, <1>6, <1>7, <1>9, <1>10 DEF Amounts
<1>12. QED
  BY <1>8, <1>11 DEF q, n, c, dd

\* A store that finds its line in the backup alone, before it is installed.
LEMMA StoreBackup ==
    ASSUME NEW p, NEW b, NEW m, NEW d, Amounts(p, b, m, d),
           NEW l \in Line, NEW o \in Offset, NEW v \in Value,
           ~Cached(p, l), InBackup(b, l)
    PROVE  Amounts(p, StoredIn(b, l, o, v), m, [d EXCEPT ![l][o] = v])
<1> DEFINE c == StoredIn(b, l, o, v)
           dd == [d EXCEPT ![l][o] = v]
<1>0. /\ p \in Array /\ Placed(p) /\ Unique(p)
      /\ b \in Backups /\ Tidy(b)
      /\ m \in [Line -> Data] /\ d \in [Line -> Data]
      /\ \A t \in Sets, u \in Ways : Faithful(p[t][u], m, d)
      /\ \A t \in Slot : Faithful(b[t].entry, m, d)
      /\ \A k \in Line : Cached(p, k) \/ InBackup(b, k) \/ m[k] = d[k]
  BY DEF Amounts
<1>1. dd \in [Line -> Data] /\ \A k \in Line : k # l => dd[k] = d[k]
  BY <1>0 DEF Data
<1>2. /\ c \in Backups /\ Tidy(c)
      /\ \A k \in Line : InBackup(c, k) <=> InBackup(b, k)
  BY <1>0, StoredEffect
<1>3. \A t \in Slot : Faithful(c[t].entry, m, dd)
  BY <1>0, StoredEntries
<1> HIDE DEF c, dd
<1>4. ASSUME NEW t \in Sets, NEW u \in Ways PROVE Faithful(p[t][u], m, dd)
  <2> SUFFICES ASSUME p[t][u] # None PROVE Faithful(p[t][u], m, dd)
    BY DEF Faithful
  <2>1. p[t][u].line \in Line
    BY <1>0, PrimaryType
  <2>2. Cached(p, p[t][u].line)
    BY <1>0, <2>1 DEF Placed, Cached, Holds
  <2>3. dd[p[t][u].line] = d[p[t][u].line]
    BY <1>1, <2>1, <2>2
  <2>4. QED
    BY <1>0, <2>3 DEF Faithful
<1>5. \A k \in Line : Cached(p, k) \/ InBackup(c, k) \/ m[k] = dd[k]
  BY <1>0, <1>1, <1>2
<1>6. Amounts(p, c, m, dd)
  BY <1>0, <1>1, <1>2, <1>3, <1>4, <1>5 DEF Amounts
<1>7. QED
  BY <1>6 DEF c, dd

-----------------------------------------------------------------------------
(* Each call keeps Inv, is a step of the flat memory and loses no victim.  *)

\* What Inv says of the parts an access starts from.
LEMMA InvParts ==
    ASSUME Inv
    PROVE  /\ Amounts(primary, backup, mem, View)
           /\ primary \in Array /\ backup \in Backups /\ Tidy(backup)
           /\ mem \in [Line -> Data] /\ View \in [Line -> Data]
           /\ Policed(backup)
           /\ countdown \in 1..Cardinality(Enabled(backup))
           /\ age \in [Line -> Ages]
BY DEF Inv, Amounts, ResizesWithinPolicy, TypeOK, Policed

\* A line of the primary holds what the flat memory has.
LEMMA PrimaryHolds ==
    ASSUME Inv, NEW l \in Line, NEW w \in Ways, Holds(primary, l, w)
    PROVE  /\ primary[SetIndex(l)][w] \in CacheLine
           /\ primary[SetIndex(l)][w].line = l
           /\ primary[SetIndex(l)][w].data = View[l]
<1>1. SetIndex(l) \in Sets
  BY SetIndexInSets
<1>2. primary[SetIndex(l)][w] # None /\ primary[SetIndex(l)][w].line = l
  BY DEF Holds
<1>3. primary[SetIndex(l)][w] \in CacheLine
  BY <1>1, <1>2, InvParts, PrimaryType
<1>4. Faithful(primary[SetIndex(l)][w], mem, View)
  BY <1>1, InvParts DEF Amounts
<1>5. QED
  BY <1>2, <1>3, <1>4 DEF Faithful

\* And so does one that is taken from the backup to the primary.
LEMMA BackupHolds ==
    ASSUME Inv, NEW l \in Line, InBackup(backup, l)
    PROVE  LET entry == backup[SlotOf(backup, l)].entry
               n == PrimaryLine(entry)
           IN  /\ entry # None /\ entry.line = l /\ entry.data = View[l]
               /\ n \in CacheLine /\ n.line = l /\ n.data = View[l]
               /\ n.dirty \/ mem[l] = View[l]
<1> DEFINE t == SlotOf(backup, l)
           entry == backup[t].entry
           n == PrimaryLine(entry)
<1>1. t \in Slot /\ entry # None /\ entry.line = l
  BY InvParts, BackedUp
<1>2. entry \in BackupLine
  BY <1>1, InvParts, EntryType
<1>3. Faithful(entry, mem, View)
  BY <1>1, InvParts DEF Amounts
<1> HIDE DEF t, entry
<1>4. /\ n \in CacheLine /\ n.line = entry.line
      /\ n.data = entry.data /\ n.dirty = entry.dirty
  BY <1>2 DEF PrimaryLine, CacheLine, BackupLine
<1>5. entry.data = View[l] /\ (entry.dirty \/ mem[l] = View[l])
  BY <1>1, <1>3 DEF Faithful
<1>6. n.dirty \/ mem[l] = View[l]
  BY <1>4, <1>5
<1>7. QED
  BY <1>1, <1>4, <1>5, <1>6 DEF entry, t

\* A line that is in neither is in the memory as it should be.
LEMMA AbsentIsBacked ==
    ASSUME Inv, NEW l \in Line, ~Cached(primary, l), ~InBackup(backup, l)
    PROVE  /\ mem[l] = View[l]
           /\ NewLine(l, mem[l]) \in CacheLine
           /\ NewLine(l, mem[l]).line = l
           /\ NewLine(l, mem[l]).data = View[l]
<1>1. mem[l] = View[l] /\ mem[l] \in Data
  BY InvParts DEF Amounts
<1>2. QED
  BY <1>1 DEF NewLine, CacheLine

\* A load that answers what the flat memory has, and leaves it, keeps Inv.
LEMMA LoadEnds ==
    ASSUME Inv, NEW l \in Line, NEW o \in Offset, age' = Stamped(l),
           reply' = Answer(l, o, View[l][o]),
           Amounts(primary', backup', mem', View),
           Policed(backup'), countdown' \in 1..Cardinality(Enabled(backup'))
    PROVE  Inv' /\ Flat!Load(l, o)
<1>1. View[l][o] \in Value
  BY InvParts DEF Data
<1>2. reply' \in [op : {"none"}]
          \cup [op : {"load"}, line : Line, off : Offset, val : Value]
  BY <1>1 DEF Answer
<1>3. age' \in [Line -> Ages]
  BY InvParts, StampedType
<1>4. Inv' /\ View' = View
  BY <1>2, <1>3, AccessKeepsInv
<1>5. QED
  BY <1>4 DEF Answer, Flat!Load, Flat!LoadReply

\* A load, from the primary, the backup or the memory.
LEMMA LoadStep ==
    ASSUME Inv, NEW l \in Line, NEW o \in Offset, Load(l, o)
    PROVE  Inv' /\ Flat!Load(l, o) /\ Kept
<1>0. age' = Stamped(l)
  BY DEF Load
<1>1. CASE LoadPrimaryHit(l, o)
  <2>1. PICK w \in Ways :
            /\ Holds(primary, l, w)
            /\ reply' = Answer(l, o, primary[SetIndex(l)][w].data[o])
            /\ AccessComplete(UsedIn(backup, l), mem)
            /\ primary' = primary
    BY <1>1 DEF LoadPrimaryHit, HitWay
  <2>2. reply' = Answer(l, o, View[l][o])
    BY <2>1, PrimaryHolds
  <2>3. /\ Amounts(primary, UsedIn(backup, l), mem, View)
        /\ Enabled(UsedIn(backup, l)) = Enabled(backup)
    BY InvParts, MarkUsed
  <2>4. /\ Policed(UsedIn(backup, l))
        /\ countdown \in 1..Cardinality(Enabled(UsedIn(backup, l)))
    BY <2>3, InvParts DEF Policed
  <2>5. /\ Amounts(primary', backup', mem', View)
        /\ Policed(backup')
        /\ countdown' \in 1..Cardinality(Enabled(backup'))
    BY <2>1, <2>3, <2>4, CompleteEffect
  <2>6. Kept
    BY <2>1 DEF Kept
  <2>7. QED
    BY <1>0, <2>2, <2>5, <2>6, LoadEnds
<1>2. CASE LoadBackupHit(l, o)
  <2> DEFINE entry == backup[SlotOf(backup, l)].entry
             n == PrimaryLine(entry)
             b == UsedIn(backup, l)
  <2>1. /\ ~Cached(primary, l) /\ InBackup(backup, l)
        /\ reply' = Answer(l, o, entry.data[o])
        /\ Install(n, b)
    BY <1>2 DEF LoadBackupHit
  <2>2. /\ entry.data = View[l]
        /\ n \in CacheLine /\ n.line = l /\ n.data = View[l]
        /\ n.dirty \/ mem[l] = View[l]
    BY <2>1, BackupHolds
  <2>3. Amounts(primary, b, mem, View) /\ Enabled(b) = Enabled(backup)
    BY InvParts, MarkUsed
  <2>4. Policed(b) /\ countdown \in 1..Cardinality(Enabled(b))
    BY <2>3, InvParts DEF Policed
  <2>5. reply' = Answer(l, o, View[l][o])
    BY <2>1, <2>2
  <2> HIDE DEF n, b, entry
  <2>6. /\ Amounts(primary', backup', mem', View)
        /\ Policed(backup')
        /\ countdown' \in 1..Cardinality(Enabled(backup'))
        /\ Kept
    BY <2>1, <2>2, <2>3, <2>4, InvParts, InstallEffect
  <2>7. QED
    BY <1>0, <2>5, <2>6, LoadEnds
<1>3. CASE LoadMiss(l, o)
  <2> DEFINE n == NewLine(l, mem[l])
  <2>1. /\ ~Cached(primary, l) /\ ~InBackup(backup, l)
        /\ reply' = Answer(l, o, mem[l][o])
        /\ Install(n, backup)
    BY <1>3 DEF LoadMiss
  <2>2. /\ mem[l] = View[l]
        /\ n \in CacheLine /\ n.line = l /\ n.data = View[l]
    BY <2>1, AbsentIsBacked
  <2> HIDE DEF n
  <2>3. /\ Amounts(primary', backup', mem', View)
        /\ Policed(backup')
        /\ countdown' \in 1..Cardinality(Enabled(backup'))
        /\ Kept
    BY <2>1, <2>2, InvParts, InstallEffect
  <2>4. QED
    BY <1>0, <2>1, <2>2, <2>3, LoadEnds
<1>4. QED
  BY <1>1, <1>2, <1>3 DEF Load

\* A store, to the primary, to the backup or to a line read for it.
LEMMA StoreStep ==
    ASSUME Inv, NEW l \in Line, NEW o \in Offset, NEW v \in Value, Store(l, o, v)
    PROVE  Inv' /\ Flat!Store(l, o, v) /\ Kept
<1> DEFINE dd == [View EXCEPT ![l][o] = v]
           b == StoredIn(backup, l, o, v)
<1>0. age' = Stamped(l) /\ reply' = [op |-> "none"]
  BY DEF Store
<1>1. /\ dd \in [Line -> Data]
      /\ dd[l] = [View[l] EXCEPT ![o] = v]
      /\ \A k \in Line : k # l => dd[k] = View[k]
  BY InvParts DEF Data
<1>2. Enabled(b) = Enabled(backup) /\ \A k \in Line : InBackup(b, k) <=> InBackup(backup, k)
  BY InvParts, StoredEffect
<1>3. Policed(b) /\ countdown \in 1..Cardinality(Enabled(b))
  BY <1>2, InvParts DEF Policed
<1>4. /\ Amounts(primary', backup', mem', dd)
      /\ Policed(backup')
      /\ countdown' \in 1..Cardinality(Enabled(backup'))
      /\ Kept
  <2>1. CASE StorePrimaryHit(l, o, v)
    <3>1. PICK w \in Ways :
              /\ Holds(primary, l, w)
              /\ primary' = Put(primary, l, w, Stored(primary[SetIndex(l)][w], o, v))
              /\ AccessComplete(b, mem)
      BY <2>1 DEF StorePrimaryHit, HitWay
    <3>2. /\ Amounts(primary', b, mem, dd)
          /\ \A k \in Line : Cached(primary, k) => Cached(primary', k)
      BY <3>1, InvParts, StoreBoth
    <3> HIDE DEF b, dd
    <3>3. /\ Amounts(primary', backup', mem', dd)
          /\ Policed(backup')
          /\ countdown' \in 1..Cardinality(Enabled(backup'))
      BY <1>3, <3>1, <3>2, CompleteEffect
    <3>4. QED
      BY <3>2, <3>3 DEF Kept
  <2>2. CASE StoreBackupHit(l, o, v)
    <3> DEFINE old == PrimaryLine(backup[SlotOf(backup, l)].entry)
               n == Stored(old, o, v)
    <3>1. ~Cached(primary, l) /\ InBackup(backup, l) /\ Install(n, b)
      BY <2>2 DEF StoreBackupHit
    <3>2. old \in CacheLine /\ old.line = l /\ old.data = View[l]
      BY <3>1, BackupHolds
    <3> HIDE DEF old
    <3>3. n \in CacheLine /\ n.line = l /\ n.data = dd[l] /\ n.dirty
      BY <1>1, <3>2, StoredType
    <3>4. Amounts(primary, b, mem, dd)
      BY <3>1, InvParts, StoreBackup
    <3> HIDE DEF n, b, dd
    <3>5. QED
      BY <1>1, <1>3, <3>1, <3>3, <3>4, InstallEffect
  <2>3. CASE StoreMiss(l, o, v)
    <3> DEFINE n == Stored(NewLine(l, mem[l]), o, v)
    <3>1. ~Cached(primary, l) /\ ~InBackup(backup, l) /\ Install(n, backup)
      BY <2>3 DEF StoreMiss
    <3>2. /\ NewLine(l, mem[l]) \in CacheLine
          /\ NewLine(l, mem[l]).line = l
          /\ NewLine(l, mem[l]).data = View[l]
      BY <3>1, AbsentIsBacked
    <3>3. n \in CacheLine /\ n.line = l /\ n.data = dd[l] /\ n.dirty
      BY <1>1, <3>2, StoredType
    <3> HIDE DEF n, b, dd
    <3>4. /\ Amounts(primary, backup, mem, View) /\ Policed(backup)
          /\ countdown \in 1..Cardinality(Enabled(backup))
      BY InvParts
    <3>5. QED
      BY ONLY <1>1, <3>1, <3>3, <3>4, l \in Line, InstallEffect
  <2>4. QED
    BY <2>1, <2>2, <2>3 DEF Store
<1>5. age' \in [Line -> Ages]
  BY <1>0, InvParts, StampedType
<1>6. Inv' /\ View' = dd
  BY <1>0, <1>4, <1>5, AccessKeepsInv
<1>7. QED
  BY <1>0, <1>4, <1>6 DEF Flat!Store, Flat!NoReply

\* A switch of programs takes the marks of use off the backup.
LEMMA SwitchStep ==
    ASSUME Inv, OnContextSwitch
    PROVE  Inv' /\ UNCHANGED <<View, reply>> /\ Kept
<1>1. /\ backup' = [s \in Slot |->
              IF backup[s].entry = None THEN backup[s]
              ELSE [backup[s] EXCEPT !.entry.used = FALSE]]
      /\ primary' = primary /\ age' = age /\ countdown' = countdown
      /\ mem' = mem /\ reply' = reply
  BY DEF OnContextSwitch
<1>2. \A x \in BackupSlot : x.entry # None =>
          /\ [x EXCEPT !.entry.used = FALSE] \in BackupSlot
          /\ [x EXCEPT !.entry.used = FALSE].enabled = x.enabled
          /\ [x EXCEPT !.entry.used = FALSE].entry \in BackupLine
          /\ [x EXCEPT !.entry.used = FALSE].entry.line = x.entry.line
          /\ [x EXCEPT !.entry.used = FALSE].entry.data = x.entry.data
          /\ [x EXCEPT !.entry.used = FALSE].entry.dirty = x.entry.dirty
  BY DEF BackupSlot, BackupLine
<1>3. ASSUME NEW s \in Slot
      PROVE  /\ backup'[s] \in BackupSlot
             /\ backup'[s].enabled = backup[s].enabled
             /\ backup'[s].entry = None <=> backup[s].entry = None
             /\ backup[s].entry # None =>
                   /\ backup'[s].entry.line = backup[s].entry.line
                   /\ backup'[s].entry.data = backup[s].entry.data
                   /\ backup'[s].entry.dirty = backup[s].entry.dirty
  <2>0. backup[s] \in BackupSlot
    BY InvParts DEF Backups
  <2>1. CASE backup[s].entry = None
    <3>1. backup'[s] = backup[s]
      BY <1>1, <2>1
    <3>2. QED
      BY <2>0, <2>1, <3>1
  <2>2. CASE backup[s].entry # None
    <3> DEFINE x == [backup[s] EXCEPT !.entry.used = FALSE]
    <3>1. backup'[s] = x
      BY <1>1, <2>2
    <3>2. /\ x \in BackupSlot /\ x.enabled = backup[s].enabled
          /\ x.entry \in BackupLine
          /\ x.entry.line = backup[s].entry.line
          /\ x.entry.data = backup[s].entry.data
          /\ x.entry.dirty = backup[s].entry.dirty
      BY <1>2, <2>0, <2>2
    <3> HIDE DEF x
    <3>3. x.entry # None
      BY <3>2, BackCacheAssumption
    <3>4. QED
      BY <2>2, <3>1, <3>2, <3>3
  <2>3. QED
    BY <2>1, <2>2
<1>4. backup' \in Backups
  BY <1>1, <1>3 DEF Backups
<1>5. Enabled(backup') = Enabled(backup)
  BY <1>3 DEF Enabled
<1>6. Tidy(backup')
  BY <1>3, InvParts DEF Tidy
<1>7. \A k \in Line : InBackup(backup', k) <=> InBackup(backup, k)
  BY <1>3, <1>5 DEF InBackup, InSlot
<1>8. ASSUME NEW s \in Slot PROVE Faithful(backup'[s].entry, mem, View)
  <2>1. CASE backup[s].entry = None
    BY <1>3, <2>1 DEF Faithful
  <2>2. CASE backup[s].entry # None
    <3>1. Faithful(backup[s].entry, mem, View)
      BY InvParts DEF Amounts
    <3>2. /\ backup'[s].entry.line = backup[s].entry.line
          /\ backup'[s].entry.data = backup[s].entry.data
          /\ backup[s].entry.dirty => backup'[s].entry.dirty
      BY <1>3, <2>2
    <3>3. QED
      BY <2>2, <3>1, <3>2 DEF Faithful
  <2>3. QED
    BY <2>1, <2>2
<1>9. Amounts(primary, backup', mem, View)
  BY <1>4, <1>6, <1>7, <1>8, InvParts DEF Amounts
<1>10. Amounts(primary', backup', mem', View)
  BY <1>1, <1>9
<1>11. Policed(backup') /\ countdown' \in 1..Cardinality(Enabled(backup'))
  BY <1>1, <1>5, InvParts DEF Policed
<1>12. Inv' /\ View' = View
  BY <1>1, <1>10, <1>11, InvParts, AccessKeepsInv DEF Inv, TypeOK
<1>13. QED
  BY <1>1, <1>12 DEF Kept

\* An invalidation takes the line out of both, and the memory has it then.
LEMMA InvalidateStep ==
    ASSUME Inv, NEW l \in Line, InvalidateLine(l)
    PROVE  /\ Inv' /\ UNCHANGED <<View, reply>>
           /\ \A k \in Line : k # l /\ Cached(primary, k) => Cached(primary', k)
<1> DEFINE slot == IF Cached(primary, l) THEN CopyOf(primary, l) ELSE None
           t == SlotOf(backup, l)
           entry == IF InBackup(backup, l) THEN backup[t].entry ELSE None
           once == WriteBack(mem, slot)
           q == primary'
           c == backup'
           mm == mem'
<1>0. /\ primary \in Array /\ Placed(primary) /\ Unique(primary)
      /\ backup \in Backups /\ Tidy(backup)
      /\ mem \in [Line -> Data] /\ View \in [Line -> Data]
      /\ \A s \in Sets, w \in Ways : Faithful(primary[s][w], mem, View)
      /\ \A s \in Slot : Faithful(backup[s].entry, mem, View)
      /\ \A k \in Line : Cached(primary, k) \/ InBackup(backup, k) \/ mem[k] = View[k]
  BY InvParts DEF Amounts
<1>1. /\ slot # None \/ entry # None
      /\ mm = WriteBack(once, entry)
      /\ q = IF slot = None THEN primary
             ELSE Drop(primary, l, CHOOSE w \in Ways : HitWay(primary, l, w))
      /\ c = IF entry = None THEN backup ELSE Filled(backup, t, None)
      /\ age' = age /\ countdown' = countdown /\ reply' = reply
  BY DEF InvalidateLine, Filled
<1>2. \A w \in Ways : Holds(primary, l, w) =>
          /\ Cached(primary, l)
          /\ slot = primary[SetIndex(l)][w]
          /\ w = CHOOSE v \in Ways : HitWay(primary, l, v)
  <2> SUFFICES ASSUME NEW w \in Ways, Holds(primary, l, w)
               PROVE  /\ Cached(primary, l)
                      /\ slot = primary[SetIndex(l)][w]
                      /\ w = CHOOSE v \in Ways : HitWay(primary, l, v)
    OBVIOUS
  <2>1. Cached(primary, l) /\ CopyOf(primary, l) = primary[SetIndex(l)][w]
    BY <1>0, CopyIsTheSlot
  <2>2. \A v \in Ways : Holds(primary, l, v) => v = w
    BY <1>0 DEF Unique
  <2>3. HitWay(primary, l, w)
    BY <2>2, GeometryAssumption DEF HitWay, Ways
  <2>4. \A v \in Ways : HitWay(primary, l, v) => v = w
    BY <2>2 DEF HitWay
  <2>5. QED
    BY <2>1, <2>3, <2>4
<1>3. slot = None \/ (/\ slot \in CacheLine /\ slot.line = l /\ slot.data \in Data
                      /\ Faithful(slot, mem, View))
  <2> SUFFICES ASSUME slot # None
               PROVE  /\ slot \in CacheLine /\ slot.line = l /\ slot.data \in Data
                      /\ Faithful(slot, mem, View)
    OBVIOUS
  <2>1. PICK w \in Ways : Holds(primary, l, w)
    BY DEF Cached
  <2>2. slot = primary[SetIndex(l)][w]
    BY <1>2, <2>1
  <2> HIDE DEF slot
  <2>3. slot.line = l
    BY <2>1, <2>2 DEF Holds
  <2>4. slot \in CacheLine /\ slot.data \in Data
    BY <1>0, <2>2, SetIndexInSets, PrimaryType
  <2>5. QED
    BY <1>0, <2>2, <2>3, <2>4, SetIndexInSets
<1>4. entry = None \/ (/\ t \in Slot /\ entry = backup[t].entry
                       /\ entry.line = l /\ entry.data \in Data
                       /\ Faithful(entry, mem, View))
  <2> SUFFICES ASSUME entry # None
               PROVE  /\ t \in Slot /\ entry = backup[t].entry
                      /\ entry.line = l /\ entry.data \in Data
                      /\ Faithful(entry, mem, View)
    OBVIOUS
  <2>1. InBackup(backup, l)
    OBVIOUS
  <2>2. t \in Slot /\ entry = backup[t].entry /\ entry.line = l
    BY <1>0, <2>1, BackedUp
  <2> HIDE DEF entry, t
  <2>3. entry.data \in Data
    BY <1>0, <2>2, EntryType
  <2>4. QED
    BY <1>0, <2>2, <2>3
<1>5. InBackup(backup, l) => entry # None
  BY <1>0, BackedUp
<1>6. Cached(primary, l) => slot # None
  <2> SUFFICES ASSUME NEW w \in Ways, Holds(primary, l, w) PROVE slot # None
    BY DEF Cached
  <2>1. slot = primary[SetIndex(l)][w]
    BY <1>2
  <2> HIDE DEF slot
  <2>2. QED
    BY <2>1 DEF Holds
<1>7. slot # None => \E w \in Ways :
          Holds(primary, l, w) /\ q = Drop(primary, l, w)
  <2> SUFFICES ASSUME slot # None
               PROVE  \E w \in Ways : Holds(primary, l, w) /\ q = Drop(primary, l, w)
    OBVIOUS
  <2>1. PICK w \in Ways : Holds(primary, l, w)
    BY DEF Cached
  <2>2. w = CHOOSE v \in Ways : HitWay(primary, l, v)
    BY <1>2, <2>1
  <2>3. q = Drop(primary, l, CHOOSE v \in Ways : HitWay(primary, l, v))
    BY <1>1
  <2>4. QED
    BY <2>1, <2>2, <2>3
<1>held. Cached(primary, l) <=> slot # None
  BY <1>6
<1> HIDE DEF slot, entry, t
<1>8. /\ once \in [Line -> Data]
      /\ \A k \in Line : once[k] = mem[k] \/ once[k] = View[k]
      /\ slot # None => once[l] = View[l]
  <2>1. Faithful(slot, mem, View)
    BY <1>3 DEF Faithful
  <2>2. slot # None => slot.line \in Line /\ slot.data \in Data /\ slot.line = l
    BY <1>3
  <2>3. QED
    BY <1>0, <2>1, <2>2, WriteBackEffect
<1>9. /\ mm \in [Line -> Data]
      /\ \A k \in Line : mm[k] = once[k] \/ mm[k] = View[k]
      /\ entry # None => mm[l] = View[l]
  <2>1. Faithful(entry, once, View)
    <3>1. entry # None => entry.line \in Line
      BY <1>4
    <3>2. Faithful(entry, mem, View)
      BY <1>4 DEF Faithful
    <3> HIDE DEF once
    <3>3. QED
      BY <1>8, <3>1, <3>2, MemoryCatchesUp
  <2>2. entry # None => entry.line \in Line /\ entry.data \in Data /\ entry.line = l
    BY <1>4
  <2>3. mm = WriteBack(once, entry)
    BY <1>1
  <2> HIDE DEF once, mm
  <2>4. QED
    BY <1>0, <1>8, <2>1, <2>2, <2>3, WriteBackEffect
<1>10. /\ \A k \in Line : mm[k] = mem[k] \/ mm[k] = View[k]
       /\ mm[l] = View[l]
  <2> HIDE DEF once, mm
  <2>1. \A k \in Line : mm[k] = mem[k] \/ mm[k] = View[k]
    BY <1>8, <1>9
  <2>2. mm[l] = View[l]
    BY <1>1, <1>8, <1>9
  <2>3. QED
    BY <2>1, <2>2
<1>11. /\ q \in Array /\ Placed(q) /\ Unique(q)
       /\ ~Cached(q, l)
       /\ \A k \in Line : k # l => (Cached(q, k) <=> Cached(primary, k))
       /\ \A s \in Sets, w \in Ways : q[s][w] = None \/ q[s][w] = primary[s][w]
  <2>1. CASE slot = None
    <3>1. q = primary
      BY <1>1, <2>1
    <3>2. QED
      BY <1>0, <1>held, <2>1, <3>1
  <2>2. CASE slot # None
    <3>1. PICK w \in Ways : Holds(primary, l, w) /\ q = Drop(primary, l, w)
      BY <1>7, <2>2
    <3>2. /\ q \in Array /\ Placed(q) /\ Unique(q)
          /\ q[SetIndex(l)][w] = None
          /\ \A s \in Sets, v \in Ways :
                <<s, v>> # <<SetIndex(l), w>> => q[s][v] = primary[s][v]
          /\ ~Cached(q, l)
          /\ \A k \in Line, v \in Ways : k # l => (Holds(q, k, v) <=> Holds(primary, k, v))
      BY <1>0, <3>1, DropLine
    <3>3. QED
      BY <3>2 DEF Cached
  <2>3. QED
    BY <2>1, <2>2
<1>12. /\ c \in Backups /\ Tidy(c)
       /\ Enabled(c) = Enabled(backup)
       /\ \A k \in Line : k # l => (InBackup(c, k) <=> InBackup(backup, k))
       /\ \A s \in Slot : c[s].entry = None \/ c[s].entry = backup[s].entry
  <2>1. CASE entry = None
    BY <1>0, <1>1, <2>1
  <2>2. CASE entry # None
    <3>1. c = Filled(backup, t, None) /\ t \in Slot /\ backup[t].entry # None
          /\ backup[t].entry.line = l
      BY <1>1, <1>4, <2>2
    <3>2. /\ c \in Backups /\ Tidy(c)
          /\ c[t].entry = None
          /\ \A s \in Slot : s # t => c[s] = backup[s]
          /\ Enabled(c) = Enabled(backup)
          /\ \A k \in Line : InBackup(c, k) <=> InBackup(backup, k) /\ k # backup[t].entry.line
      BY <1>0, <3>1, EmptySlot
    <3>3. QED
      BY <3>1, <3>2
  <2>3. QED
    BY <2>1, <2>2
<1> HIDE DEF q, c, mm, once
<1>13. \A s \in Sets, w \in Ways : Faithful(q[s][w], mm, View)
  <2> SUFFICES ASSUME NEW s \in Sets, NEW w \in Ways, q[s][w] # None
               PROVE  Faithful(q[s][w], mm, View)
    BY DEF Faithful
  <2>1. q[s][w] = primary[s][w] /\ q[s][w].line \in Line
    BY <1>11, PrimaryType
  <2>2. QED
    BY <1>0, <1>10, <2>1, MemoryCatchesUp
<1>14. \A s \in Slot : Faithful(c[s].entry, mm, View)
  <2> SUFFICES ASSUME NEW s \in Slot, c[s].entry # None
               PROVE  Faithful(c[s].entry, mm, View)
    BY DEF Faithful
  <2>1. c[s].entry = backup[s].entry /\ c[s].entry.line \in Line
    BY <1>12, EntryType
  <2>2. QED
    BY <1>0, <1>10, <2>1, MemoryCatchesUp
<1>15. \A k \in Line : Cached(q, k) \/ InBackup(c, k) \/ mm[k] = View[k]
  BY <1>0, <1>10, <1>11, <1>12
<1>16. Amounts(q, c, mm, View)
  BY <1>0, <1>9, <1>11, <1>12, <1>13, <1>14, <1>15 DEF Amounts
<1>17. Policed(c) /\ countdown' \in 1..Cardinality(Enabled(c))
  BY <1>1, <1>12, InvParts DEF Policed
<1>18. Inv' /\ View' = View
  BY <1>1, <1>16, <1>17, InvParts, AccessKeepsInv DEF Inv, TypeOK, q, c, mm
<1>19. QED
  BY <1>1, <1>11, <1>18 DEF q

\* The memory starts as zeros, with nothing cached.
LEMMA InitInv == Init => Inv /\ Flat!Init
<1> SUFFICES ASSUME Init PROVE Inv /\ Flat!Init
  OBVIOUS
<1> DEFINE d == [l \in Line |-> [o \in Offset |-> Zero]]
<1>1. PICK n \in MinEnabled..MaxEnabled, S \in SUBSET Slot :
          /\ Cardinality(S) = n
          /\ backup = [s \in Slot |-> [enabled |-> s \in S, entry |-> None]]
          /\ countdown = n
  BY DEF Init
<1>2. /\ primary = NoLines /\ mem = d /\ reply = [op |-> "none"]
      /\ age \in [Line -> Ages]
  BY DEF Init
<1>3. d \in [Line -> Data]
  BY BackCacheAssumption DEF Data
<1> HIDE DEF d
<1>4. ASSUME NEW s \in Slot
      PROVE  /\ backup[s] \in BackupSlot /\ backup[s].entry = None
             /\ backup[s].enabled <=> s \in S
  <2>1. PICK e \in BOOLEAN : e <=> s \in S
    OBVIOUS
  <2>2. backup[s] = [enabled |-> s \in S, entry |-> None]
    BY <1>1
  <2>3. backup[s] = [enabled |-> e, entry |-> None]
    BY <2>1, <2>2
  <2>4. QED
    BY <2>1, <2>3 DEF BackupSlot
<1>5. backup \in Backups /\ Tidy(backup)
  BY <1>1, <1>4 DEF Backups, Tidy
<1>6. Enabled(backup) = S
  BY <1>4 DEF Enabled
<1>7. \A s \in Sets, w \in Ways : primary[s][w] = None
  BY <1>2 DEF NoLines
<1>8. primary \in Array
  BY <1>2 DEF NoLines, Array
<1>9. Placed(primary) /\ Unique(primary)
  BY <1>7, SetIndexInSets DEF Placed, Unique, Holds
<1>10. Amounts(primary, backup, mem, d)
  BY <1>2, <1>3, <1>4, <1>5, <1>7, <1>8, <1>9 DEF Amounts, Faithful
<1>11. View = d
  BY <1>10, ViewNow
<1>12. countdown \in 1..Capacity
  BY <1>1, PolicyBounds
<1>13. TypeOK
  BY <1>2, <1>3, <1>5, <1>8, <1>12 DEF TypeOK, Backups
<1>14. ResizesWithinPolicy
  BY <1>1, <1>4, <1>6, PolicyBounds DEF ResizesWithinPolicy
<1>15. Flat!Init
  BY <1>2, <1>11 DEF Flat!Init, Flat!ZeroLine, Flat!NoReply, d
<1>16. QED
  BY <1>10, <1>11, <1>13, <1>14, <1>15 DEF Inv

\* What a step may do to a line of the primary, as VictimsStay says it.
VictimStep ==
    \A l \in Line :
        Cached(primary, l) /\ ~Cached(primary', l) =>
            InvalidateLine(l) \/ countdown = 1 \/ InBackup(backup', l)

\* Every step keeps Inv, is a step or a stutter of the flat memory, and leaves
\* the victims where the next access finds them.
LEMMA NextStep ==
    Inv /\ [Next]_vars => Inv' /\ [Flat!Next]_(Flat!vars) /\ VictimStep
<1> SUFFICES ASSUME Inv, [Next]_vars
             PROVE  Inv' /\ [Flat!Next]_(Flat!vars) /\ VictimStep
  OBVIOUS
<1>0. Kept => VictimStep
  BY DEF Kept, VictimStep
<1>1. ASSUME NEW l \in Line, NEW o \in Offset, Load(l, o)
      PROVE  Inv' /\ Flat!Next /\ VictimStep
  BY <1>0, <1>1, LoadStep DEF Flat!Next
<1>2. ASSUME NEW l \in Line, NEW o \in Offset, NEW v \in Value, Store(l, o, v)
      PROVE  Inv' /\ Flat!Next /\ VictimStep
  BY <1>0, <1>2, StoreStep DEF Flat!Next
<1>3. ASSUME NEW l \in Line, InvalidateLine(l)
      PROVE  Inv' /\ UNCHANGED Flat!vars /\ VictimStep
  <2>1. /\ Inv' /\ UNCHANGED <<View, reply>>
        /\ \A k \in Line : k # l /\ Cached(primary, k) => Cached(primary', k)
    BY <1>3, InvalidateStep
  <2>2. VictimStep
    BY <1>3, <2>1 DEF VictimStep
  <2>3. QED
    BY <2>1, <2>2 DEF Flat!vars
<1>4. CASE OnContextSwitch
  BY <1>0, <1>4, SwitchStep DEF Flat!vars
<1>5. CASE UNCHANGED vars
  <2>1. /\ primary' = primary /\ backup' = backup /\ age' = age
        /\ countdown' = countdown /\ mem' = mem /\ reply' = reply
    BY <1>5 DEF vars
  <2>2. Inv' /\ View' = View
    BY <2>1, InvParts, AccessKeepsInv DEF Inv, TypeOK
  <2>3. QED
    BY <2>1, <2>2 DEF Flat!vars, VictimStep
<1>6. QED
  BY <1>1, <1>2, <1>3, <1>4, <1>5 DEF Next

-----------------------------------------------------------------------------

\* In every reachable state the cache is well formed, and the primary, the
\* backup and the memory amount to one flat memory: each copy of a line holds
\* what that memory has, and a clean one is backed (load_u8_internal,
\* store_u8_internal, invalidate_line, set_enabled_lines).
THEOREM BackCacheInvariant == Spec => []Inv
<1>1. Init => Inv
  BY InitInv
<1>2. Inv /\ [Next]_vars => Inv'
  BY NextStep
<1>3. QED
  BY <1>1, <1>2, PTL DEF Spec

\* In particular its types, and that however the random resizes fall they stay
\* within the policy and strand no line (access_complete, set_enabled_lines).
THEOREM BackCacheSafety == Spec => [](TypeOK /\ ResizesWithinPolicy)
BY BackCacheInvariant, PTL DEF Inv

\* In particular the stamps stay in range and the countdown at least one,
\* through every access, promotion and resize.
THEOREM BackCacheTypes == Spec => []TypeOK
BY BackCacheInvariant, PTL DEF Inv

\* What a refill pushes out of the primary is in the backup when the access is
\* over, unless the access ended with a resize
\* (insert_primary_eviction_into_backup, access_complete).
THEOREM BackCacheKeepsVictims == Spec => VictimsStay
<1>1. Inv /\ [Next]_vars => [VictimStep]_vars
  BY NextStep
<1>2. QED
  BY <1>1, BackCacheInvariant, PTL DEF Spec, VictimsStay, VictimStep

\* BackCacheMemory over a flat memory implements a flat memory, whatever is
\* promoted, evicted, resized or invalidated.
THEOREM BackCacheImplementsMemory == Spec => ImplementsMemory
<1>1. Init => Flat!Init
  BY InitInv
<1>2. Inv /\ [Next]_vars => [Flat!Next]_(Flat!vars)
  BY NextStep
<1>3. QED
  BY <1>1, <1>2, BackCacheInvariant, PTL DEF Spec, Flat!Spec, ImplementsMemory
=============================================================================
