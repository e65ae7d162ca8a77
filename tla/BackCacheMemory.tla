--------------------------- MODULE BackCacheMemory ---------------------------
(***************************************************************************)
(* BackCacheMemory: a set-associative L1D (the primary) and, beside it, as *)
(* many fully associative backup slots, of which a varying number is       *)
(* enabled.  A line the primary evicts goes to the backup; a line found in *)
(* the backup is copied back into the primary and stays in the backup, so  *)
(* that a line may have two copies.  After as many accesses as slots are   *)
(* enabled the number of enabled slots is drawn anew.                      *)
(*                                                                         *)
(* The pseudo-random draws are nondeterministic.  An access is of one byte *)
(* and is one step (a wider one is a sequence of such accesses); behind    *)
(* the cache is a flat memory.                                             *)
(***************************************************************************)
EXTENDS CacheArray, FiniteSets

CONSTANTS
    Zero,       \* what MainMemory::new fills the memory with
    Slot,       \* the backup slots
    MinLines,   \* min_enabled_lines
    MaxLines    \* max_enabled_lines

BackupLine == [line : Line, data : Data, dirty : BOOLEAN, used : BOOLEAN]

ASSUME BackCacheAssumption ==
    /\ Zero \in Value
    /\ IsFiniteSet(Line) /\ IsFiniteSet(Slot)
    /\ Cardinality(Slot) = NumSets * Assoc
    /\ MinLines \in Nat /\ MaxLines \in Nat
    /\ None \notin BackupLine

VARIABLES
    primary,    \* the primary's array
    backup,     \* the backup slots
    age,        \* order of the lines' last_used stamps, the newest highest
    countdown,  \* resize_countdown
    mem,        \* the backing memory
    reply       \* what the last load answered, and for which address

vars == <<primary, backup, age, countdown, mem, reply>>

Ages == 0..(Cardinality(Line) - 1)
BackupSlot == [enabled : BOOLEAN, entry : BackupLine \cup {None}]

\* normalized_policy_bounds
Clamp(n, low, high) == IF n < low THEN low ELSE IF n > high THEN high ELSE n
Capacity == NumSets * Assoc
MinEnabled == Clamp(MinLines, 1, Capacity)
MaxEnabled == Clamp(MaxLines, MinEnabled, Capacity)

Enabled(b) == {s \in Slot : b[s].enabled}

Init ==
    /\ primary = NoLines
    /\ \E n \in MinEnabled..MaxEnabled, S \in SUBSET Slot :
        /\ Cardinality(S) = n
        /\ backup = [s \in Slot |-> [enabled |-> s \in S, entry |-> None]]
        /\ countdown = n
    /\ age \in [Line -> Ages] /\ \A l, m \in Line : age[l] = age[m] => l = m
    /\ mem = [l \in Line |-> [o \in Offset |-> Zero]]
    /\ reply = [op |-> "none"]

-----------------------------------------------------------------------------
(* Lookup, recency and replacement.                                        *)

\* find_backup_slot
InSlot(b, l, s) == s \in Enabled(b) /\ b[s].entry # None /\ b[s].entry.line = l
InBackup(b, l) == \E s \in Slot : InSlot(b, l, s)
SlotOf(b, l) == CHOOSE s \in Slot : InSlot(b, l, s)

\* The stamps when line l is used.  Both copies of a line are stamped together.
Stamped(l) ==
    [m \in Line |->
        IF m = l THEN Cardinality(Line) - 1
        ELSE IF age[m] > age[l] THEN age[m] - 1 ELSE age[m]]

\* primary_lru_victim, in set s of array p
PrimaryVictim(p, s, w) ==
    \/ FirstEmpty(p, s, w)
    \/ /\ \A v \in Ways : p[s][v] # None
       /\ \A v \in Ways : age[p[s][w].line] <= age[p[s][v].line]

AllUsed(b) ==
    \A s \in Enabled(b) : b[s].entry # None => b[s].entry.used

\* Slot s gives way before slot t does: empty slots first, then used ones, and
\* the least recently used one when all are used.
Before(b, s, t) ==
    \/ b[s].entry = None /\ b[t].entry # None
    \/ /\ b[s].entry # None /\ b[t].entry # None
       /\ IF AllUsed(b) THEN age'[b[s].entry.line] < age'[b[t].entry.line]
          ELSE b[s].entry.used /\ ~b[t].entry.used

\* select_backup_victim, called until all slots of D have been selected; the
\* choice among equals is random.
Selected(b, D) ==
    /\ D \subseteq Enabled(b)
    /\ \A s \in D, t \in Enabled(b) \ D : ~Before(b, t, s)

-----------------------------------------------------------------------------
(* The backup after an eviction of the primary, and after an access.       *)

Entry(slot, u) ==
    [line |-> slot.line, data |-> slot.data, dirty |-> slot.dirty, used |-> u]

\* The line without the bit only the backup keeps.
PrimaryLine(entry) ==
    [line |-> entry.line, data |-> entry.data, dirty |-> entry.dirty]

\* Inserted_WrittenBack: the line is written back and dropped.
Inserted_WrittenBack(b, m, slot) == {[backup |-> b, mem |-> WriteBack(m, slot)]}

\* insert_primary_eviction_into_backup: what becomes of backup b and memory m
\* when the primary has given up slot.  The test for no enabled slot is there
\* in the code; MinEnabled is at least one.
Inserted(b, m, slot) ==
    IF slot = None THEN {[backup |-> b, mem |-> m]}
    ELSE IF InBackup(b, slot.line)
    THEN {[backup |-> [b EXCEPT ![SlotOf(b, slot.line)].entry = Entry(slot, FALSE)],
           mem |-> m]}
    ELSE IF Enabled(b) = {} THEN {[backup |-> b, mem |-> WriteBack(m, slot)]}
    ELSE {[backup |-> [b EXCEPT ![s].entry = Entry(slot, FALSE)],
           mem |-> WriteBack(m, b[s].entry)] :
             s \in {s \in Slot : Selected(b, {s})}}

\* The memory when the slots of D have been evicted.
Flushed(b, m, D) ==
    [l \in Line |->
        LET dirty == {s \in D : InSlot(b, l, s) /\ b[s].entry.dirty}
        IN  IF dirty = {} THEN m[l] ELSE b[CHOOSE s \in dirty : TRUE].entry.data]

\* Resize_KeepsLine: a slot is disabled with its line in it.
Resize_KeepsLine(b, m, n) ==
    \E S \in SUBSET Slot :
        /\ Cardinality(S) = n
        /\ S \subseteq Enabled(b) \/ Enabled(b) \subseteq S
        /\ Selected(b, Enabled(b) \ S)
        /\ backup' = [s \in Slot |-> [b[s] EXCEPT !.enabled = s \in S]]
        /\ mem' = Flushed(b, m, Enabled(b) \ S)

\* set_enabled_lines
Resize(b, m, n) ==
    \E S \in SUBSET Slot :
        LET D == Enabled(b) \ S IN
        /\ Cardinality(S) = n
        /\ S \subseteq Enabled(b) \/ Enabled(b) \subseteq S
        /\ Selected(b, D)
        /\ backup' = [s \in Slot |->
                IF b[s].enabled <=> s \in S THEN b[s]
                ELSE [enabled |-> s \in S, entry |-> None]]
        /\ mem' = Flushed(b, m, D)

\* AccessComplete_ToZero: the countdown goes on to zero.
AccessComplete_ToZero(b, m) ==
    \/ /\ countdown > 0
       /\ countdown' = countdown - 1
       /\ backup' = b /\ mem' = m
    \/ /\ countdown = 0
       /\ \E n \in MinEnabled..MaxEnabled : countdown' = n /\ Resize(b, m, n)

\* access_complete, on the backup and the memory the access has left.
AccessComplete(b, m) ==
    \/ /\ countdown > 1
       /\ countdown' = countdown - 1
       /\ backup' = b /\ mem' = m
    \/ /\ countdown <= 1
       /\ \E n \in MinEnabled..MaxEnabled : countdown' = n /\ Resize(b, m, n)

-----------------------------------------------------------------------------
(* The calls.                                                              *)

Answer(l, o, v) == [op |-> "load", line |-> l, off |-> o, val |-> v]

\* Line n is installed in the primary, and the line it takes the place of is
\* put in the backup b.
Install(n, b) ==
    \E w \in Ways :
        LET s == SetIndex(n.line) IN
        /\ PrimaryVictim(primary, s, w)
        /\ primary' = Put(primary, n.line, w, n)
        /\ \E r \in Inserted(b, mem, primary[s][w]) : AccessComplete(r.backup, r.mem)

\* The backup when its copy of l has been used, a copy it need not have.
UsedIn(b, l) ==
    IF InBackup(b, l) THEN [b EXCEPT ![SlotOf(b, l)].entry.used = TRUE] ELSE b

Stored(n, o, v) == [n EXCEPT !.data[o] = v, !.dirty = TRUE]

\* StoredIn_Primary: only the copy in the primary is stored to.
StoredIn_Primary(b, l, o, v) == UsedIn(b, l)

\* The same, and when byte o of the copy has been stored to.
StoredIn(b, l, o, v) ==
    IF InBackup(b, l)
    THEN [b EXCEPT ![SlotOf(b, l)].entry = [Stored(@, o, v) EXCEPT !.used = TRUE]]
    ELSE b

LoadPrimaryHit(l, o) ==
    \E w \in Ways :
        /\ HitWay(primary, l, w)
        /\ reply' = Answer(l, o, primary[SetIndex(l)][w].data[o])
        /\ AccessComplete(UsedIn(backup, l), mem)
        /\ UNCHANGED primary

LoadBackupHit(l, o) ==
    /\ ~Cached(primary, l) /\ InBackup(backup, l)
    /\ LET entry == backup[SlotOf(backup, l)].entry IN
        /\ reply' = Answer(l, o, entry.data[o])
        /\ Install(PrimaryLine(entry), UsedIn(backup, l))

LoadMiss(l, o) ==
    /\ ~Cached(primary, l) /\ ~InBackup(backup, l)
    /\ reply' = Answer(l, o, mem[l][o])
    /\ Install(NewLine(l, mem[l]), backup)

\* load_u8_internal
Load(l, o) ==
    /\ age' = Stamped(l)
    /\ LoadPrimaryHit(l, o) \/ LoadBackupHit(l, o) \/ LoadMiss(l, o)

StorePrimaryHit(l, o, v) ==
    \E w \in Ways :
        /\ HitWay(primary, l, w)
        /\ primary' = Put(primary, l, w, Stored(primary[SetIndex(l)][w], o, v))
        /\ AccessComplete(StoredIn(backup, l, o, v), mem)

StoreBackupHit(l, o, v) ==
    /\ ~Cached(primary, l) /\ InBackup(backup, l)
    /\ LET entry == backup[SlotOf(backup, l)].entry
       IN  Install(Stored(PrimaryLine(entry), o, v), StoredIn(backup, l, o, v))

StoreMiss(l, o, v) ==
    /\ ~Cached(primary, l) /\ ~InBackup(backup, l)
    /\ Install(Stored(NewLine(l, mem[l]), o, v), backup)

\* store_u8_internal
Store(l, o, v) ==
    /\ age' = Stamped(l)
    /\ reply' = [op |-> "none"]
    /\ StorePrimaryHit(l, o, v) \/ StoreBackupHit(l, o, v) \/ StoreMiss(l, o, v)

\* on_context_switch
OnContextSwitch ==
    /\ backup' = [s \in Slot |->
            IF backup[s].entry = None THEN backup[s]
            ELSE [backup[s] EXCEPT !.entry.used = FALSE]]
    /\ UNCHANGED <<primary, age, countdown, mem, reply>>

\* invalidate_line: the primary's copy first, then the backup's.
InvalidateLine(l) ==
    LET slot == IF Cached(primary, l) THEN CopyOf(primary, l) ELSE None
        entry == IF InBackup(backup, l) THEN backup[SlotOf(backup, l)].entry ELSE None
    IN
    /\ slot # None \/ entry # None
    /\ mem' = WriteBack(WriteBack(mem, slot), entry)
    /\ primary' = IF slot = None THEN primary
                  ELSE Drop(primary, l, CHOOSE w \in Ways : HitWay(primary, l, w))
    /\ backup' = IF entry = None THEN backup
                 ELSE [backup EXCEPT ![SlotOf(backup, l)].entry = None]
    /\ UNCHANGED <<age, countdown, reply>>

Next ==
    \/ \E l \in Line :
        \/ \E o \in Offset : Load(l, o) \/ \E v \in Value : Store(l, o, v)
        \/ InvalidateLine(l)
    \/ OnContextSwitch

Spec == Init /\ [][Next]_vars

-----------------------------------------------------------------------------

\* The state is well formed.
TypeOK ==
    /\ primary \in Array
    /\ backup \in [Slot -> BackupSlot]
    /\ age \in [Line -> Ages]
    /\ countdown \in 1..Capacity
    /\ mem \in [Line -> Data]
    /\ reply \in [op : {"none"}]
        \cup [op : {"load"}, line : Line, off : Offset, val : Value]

\* However often the backup is resized, the enabled slots stay within the
\* policy's bounds, a disabled slot holds nothing (a line there would be out of
\* reach of every lookup), and the next resize is at most as many accesses away
\* as slots are enabled.
ResizesWithinPolicy ==
    /\ Cardinality(Enabled(backup)) \in MinEnabled..MaxEnabled
    /\ \A s \in Slot \ Enabled(backup) : backup[s].entry = None
    /\ countdown \in 1..Cardinality(Enabled(backup))

\* A line that a refill pushes out of the primary is found in the backup by the
\* next access to it, except when the same access ends with a resize.
VictimsStay ==
    [][\A l \in Line :
        Cached(primary, l) /\ ~Cached(primary', l) =>
            InvalidateLine(l) \/ countdown = 1 \/ InBackup(backup', l)]_vars

\* The flat memory the cache and its backing memory amount to: of each line the
\* primary's copy, or else the backup's, or else the memory's.
View ==
    LET inPrimary == {primary[s][w] : s \in Sets, w \in Ways} \ {None}
        inBackup == {backup[s].entry : s \in Enabled(backup)} \ {None}
        of(S, l) == {n.data : n \in {n \in S : n.line = l}}
    IN  [l \in Line |->
            IF of(inPrimary, l) # {} THEN CHOOSE d \in of(inPrimary, l) : TRUE
            ELSE IF of(inBackup, l) # {} THEN CHOOSE d \in of(inBackup, l) : TRUE
            ELSE mem[l]]

Flat == INSTANCE MemoryDevice WITH mem <- View

\* The cache is transparent: a load answers with the last byte stored at its
\* address, wherever the line has been moved and whatever was resized.
ImplementsMemory == Flat!Spec
=============================================================================
