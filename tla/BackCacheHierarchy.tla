------------------------- MODULE BackCacheHierarchy -------------------------
(***************************************************************************)
(* A BackCacheMemory in front of the L2 that names it as its               *)
(* InvalidationListener, as RiscV32IntegerMachine wires them.              *)
(*                                                                         *)
(* What the BackCache does with its own lines is BackCacheMemory's; what   *)
(* is said here is when it calls the L2, and what the L2 does to it then:  *)
(* a fill may take lines out of the primary and the backup, and a line of  *)
(* which both hold a dirty copy is written back twice.                     *)
(***************************************************************************)
EXTENDS Naturals, FiniteSets, SequencesExt

CONSTANTS Line, Offset, Value, Zero, None,
          L1Sets, L1Ways, L2Sets, L2Ways,
          Slot, MinLines, MaxLines      \* as in BackCacheMemory

VARIABLES
    hier,       \* primary, backup, the L2 and the memory
    age,        \* order of the lines' last_used stamps, as in BackCacheMemory
    countdown   \* resize_countdown

vars == <<hier, age, countdown>>

BC == INSTANCE BackCacheMemory
        WITH NumSets <- L1Sets, Assoc <- L1Ways, primary <- hier.primary,
             backup <- hier.backup, mem <- hier.mem, reply <- [op |-> "none"]
L2 == INSTANCE L2Cache WITH NumSets <- L2Sets, Assoc <- L2Ways

Init ==
    /\ \E n \in BC!MinEnabled..BC!MaxEnabled, S \in SUBSET Slot :
        /\ Cardinality(S) = n
        /\ countdown = n
        /\ hier = [primary |-> BC!NoLines,
                   backup |-> [s \in Slot |-> [enabled |-> s \in S, entry |-> None]],
                   l2 |-> L2!NoLines, used2 |-> L2!NoUses,
                   mem |-> [l \in Line |-> [o \in Offset |-> Zero]]]
    /\ age \in [Line -> BC!Ages] /\ \A l, m \in Line : age[l] = age[m] => l = m

-----------------------------------------------------------------------------
(* The BackCache as the listener of the L2.                                *)

InvalidatePrimary(h, l) ==
    IF ~BC!Cached(h.primary, l) THEN h
    ELSE LET w == CHOOSE w \in BC!Ways : BC!HitWay(h.primary, l, w)
             line == h.primary[BC!SetIndex(l)][w]
             out == [h EXCEPT !.primary = BC!Drop(@, l, w)]
         IN  IF line.dirty THEN L2!StoreWithRoom(out, l, line.data) ELSE out

\* InvalidateBackup_Skipped: only the primary is searched.
InvalidateBackup_Skipped(h, l) == h

InvalidateBackup(h, l) ==
    IF ~BC!InBackup(h.backup, l) THEN h
    ELSE LET s == BC!SlotOf(h.backup, l)
             line == h.backup[s].entry
             out == [h EXCEPT !.backup[s].entry = None]
         IN  IF line.dirty THEN L2!StoreWithRoom(out, l, line.data) ELSE out

\* invalidate_line
InvalidateLine(h, l) == InvalidateBackup(InvalidatePrimary(h, l), l)

-----------------------------------------------------------------------------
(* The L2 as the BackCache calls it.                                       *)

Filled(h, l) == L2!LoadLine(h, l, InvalidateLine)
WriteBack(h, n) == L2!StoreLine(h, n.line, n.data, InvalidateLine)

\* The line read, when the L2 has answered.
NewLine(h, l) == BC!NewLine(l, L2!CopyOf(h.l2, l).data)

\* evict_backup_slot_if_needed
Emptied(h, s) ==
    LET entry == h.backup[s].entry
        out == [h EXCEPT !.backup[s].entry = None]
    IN  IF entry # None /\ entry.dirty THEN WriteBack(out, entry) ELSE out

\* insert_primary_eviction_into_backup
Inserted(h, slot) ==
    IF slot = None THEN {h}
    ELSE IF BC!InBackup(h.backup, slot.line)
    THEN {[h EXCEPT !.backup[BC!SlotOf(h.backup, slot.line)].entry =
             BC!Entry(slot, FALSE)]}
    ELSE {[Emptied(h, s) EXCEPT !.backup[s].entry = BC!Entry(slot, FALSE)] :
            s \in {s \in Slot : BC!Selected(h.backup, {s})}}

\* set_enabled_lines: slots are emptied one after the other.
Resize(h, n) ==
    \E S \in SUBSET Slot :
        LET enabled == BC!Enabled(h.backup)
            D == enabled \ S
        IN
        /\ Cardinality(S) = n
        /\ S \subseteq enabled \/ enabled \subseteq S
        /\ BC!Selected(h.backup, D)
        /\ \E q \in SetToSeqs(D) :
            hier' = [FoldLeft(Emptied, h, q) EXCEPT !.backup =
                 [s \in Slot |-> IF s \in enabled <=> s \in S THEN @[s]
                                 ELSE [enabled |-> s \in S, entry |-> None]]]

AccessComplete(h) ==
    \/ /\ countdown > 1
       /\ countdown' = countdown - 1
       /\ hier' = h
    \/ /\ countdown <= 1
       /\ \E n \in BC!MinEnabled..BC!MaxEnabled : countdown' = n /\ Resize(h, n)

\* install_primary_line, after which the line it replaces goes to the backup.
Install(h, n) ==
    \E w \in BC!Ways :
        LET s == BC!SetIndex(n.line) IN
        /\ BC!PrimaryVictim(h.primary, s, w)
        /\ \E r \in Inserted([h EXCEPT !.primary = BC!Put(@, n.line, w, n)],
                             h.primary[s][w]) : AccessComplete(r)

-----------------------------------------------------------------------------
(* The calls.                                                              *)

InPrimary(l) == BC!Cached(hier.primary, l)
InBackup(l) == ~InPrimary(l) /\ BC!InBackup(hier.backup, l)
Nowhere(l) == ~InPrimary(l) /\ ~BC!InBackup(hier.backup, l)
BackupEntry(l) == BC!PrimaryLine(hier.backup[BC!SlotOf(hier.backup, l)].entry)

Used(l) == [hier EXCEPT !.backup = BC!UsedIn(@, l)]
UsedAndStored(l, o, v) == [hier EXCEPT !.backup = BC!StoredIn(@, l, o, v)]

\* load_u8_internal
Load(l, o) ==
    /\ age' = BC!Stamped(l)
    /\ \/ InPrimary(l) /\ AccessComplete(Used(l))
       \/ InBackup(l) /\ Install(Used(l), BackupEntry(l))
       \/ /\ Nowhere(l)
          /\ LET h == Filled(hier, l) IN Install(h, NewLine(h, l))

\* store_u8_internal
Store(l, o, v) ==
    /\ age' = BC!Stamped(l)
    /\ \/ \E w \in BC!Ways :
            /\ BC!HitWay(hier.primary, l, w)
            /\ AccessComplete([UsedAndStored(l, o, v) EXCEPT !.primary =
                 BC!Put(@, l, w, BC!Stored(@[BC!SetIndex(l)][w], o, v))])
       \/ InBackup(l) /\ Install(UsedAndStored(l, o, v), BC!Stored(BackupEntry(l), o, v))
       \/ /\ Nowhere(l)
          /\ LET h == Filled(hier, l) IN Install(h, BC!Stored(NewLine(h, l), o, v))

\* on_context_switch
OnContextSwitch ==
    /\ hier' = [hier EXCEPT !.backup = [s \in Slot |->
            IF @[s].entry = None THEN @[s] ELSE [@[s] EXCEPT !.entry.used = FALSE]]]
    /\ UNCHANGED <<age, countdown>>

Next ==
    \/ \E l \in Line, o \in Offset :
        Load(l, o) \/ \E v \in Value : Store(l, o, v)
    \/ OnContextSwitch

-----------------------------------------------------------------------------

TypeOK ==
    /\ hier \in [primary : BC!Array, backup : [Slot -> BC!BackupSlot],
                 l2 : L2!Array, used2 : L2!Ranks,
                 mem : [Line -> [Offset -> Value]]]
    /\ age \in [Line -> BC!Ages]
    /\ countdown \in 1..BC!Capacity

Copies ==
    ({hier.primary[s][w] : s \in BC!Sets, w \in BC!Ways} \ {None})
      \cup {BC!PrimaryLine(hier.backup[s].entry) :
              s \in {s \in Slot : hier.backup[s].entry # None}}

View == L2!Flattened(Copies, hier)
Agree == L2!AllAgree(Copies, hier)
=============================================================================
