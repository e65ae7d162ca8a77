---------------------------- MODULE MemoryDevice ----------------------------
(***************************************************************************)
(* What every implementor of the trait MemoryDevice promises to the        *)
(* machine in front of it: a flat array of bytes.  A load answers with the *)
(* value last stored at that address, a store changes that address and     *)
(* nothing else, and nothing changes between two calls.                    *)
(*                                                                         *)
(* An address is a pair of a line number (addr / line_size) and an offset  *)
(* in the line (addr % line_size).  The caches are shown to implement this *)
(* specification; MainMemory is this specification.                        *)
(***************************************************************************)
CONSTANTS
    Line,       \* line numbers
    Offset,     \* offsets in a line
    Value,      \* byte values
    Zero        \* what MainMemory::new fills the array with

VARIABLES
    mem,        \* the bytes, line by line
    reply       \* what the last load answered, and for which address

vars == <<mem, reply>>

Data == [Offset -> Value]

NoReply == [op |-> "none"]
LoadReply(l, o, v) == [op |-> "load", line |-> l, off |-> o, val |-> v]
Replies == [op : {"none"}]
             \cup [op : {"load"}, line : Line, off : Offset, val : Value]

TypeOK ==
    /\ mem \in [Line -> Data]
    /\ reply \in Replies

-----------------------------------------------------------------------------

ZeroLine == [o \in Offset |-> Zero]

Init ==
    /\ mem = [l \in Line |-> ZeroLine]
    /\ reply = NoReply

\* load_u8
Load(l, o) ==
    /\ reply' = LoadReply(l, o, mem[l][o])
    /\ UNCHANGED mem

\* store_u8
Store(l, o, v) ==
    /\ reply' = NoReply
    /\ mem' = [mem EXCEPT ![l][o] = v]

Next ==
    \E l \in Line, o \in Offset :
        \/ Load(l, o)
        \/ \E v \in Value : Store(l, o, v)

Spec == Init /\ [][Next]_vars
=============================================================================
