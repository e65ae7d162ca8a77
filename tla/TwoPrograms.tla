---------------------------- MODULE TwoPrograms -----------------------------
(***************************************************************************)
(* What run_dual_flat_binary_bytes promises the two programs it runs: each *)
(* executes its own instructions on its own registers and its own half of  *)
(* the memory, as if it had the machine to itself, and stops with its own  *)
(* exit code.  The control and status registers are the one thing the      *)
(* programs share: CsrBank belongs to the machine and is never switched.   *)
(*                                                                         *)
(* A program's registers are abstracted to the value of the one an         *)
(* instruction works on.                                                   *)
(***************************************************************************)
EXTENDS Naturals, Integers

CONSTANTS
    MemSize,    \* bytes of memory
    Value       \* register contents, bytes and words alike

VARIABLES
    regs,       \* regs[p]: the registers of program p
    exit,       \* exit[p]: the exit code of program p, or Running
    mem,        \* the bytes of the memory
    csr,        \* the control and status register
    result      \* what the last instruction was to the machine: its StepResult

vars == <<regs, exit, mem, csr, result>>

Prog == {0, 1}
Addr == 0..(MemSize - 1)
Sizes == {1, 2, 4}
Running == 1
Fault == -11

\* The half of the memory that is program p's.
Half(p) == IF p = 0 THEN 0..((MemSize \div 2) - 1) ELSE (MemSize \div 2)..(MemSize - 1)

Init ==
    /\ regs = [p \in Prog |-> 0]
    /\ exit = [p \in Prog |-> Running]
    /\ mem = [a \in Addr |-> 0]
    /\ csr = 0
    /\ result = "Continue"

\* An instruction of p on registers only, or a jump.
Compute(p) ==
    /\ \E r \in Value : regs' = [regs EXCEPT ![p] = r]
    /\ result' = "Continue"
    /\ UNCHANGED <<exit, mem, csr>>

\* A call of a builtin, which leaves what it computes in the registers.
CallBuiltin(p) ==
    /\ \E r \in Value : regs' = [regs EXCEPT ![p] = r]
    /\ result' = "Yield"
    /\ UNCHANGED <<exit, mem, csr>>

\* A call of the yield builtin: p goes on later, as it was.
CallYield(p) ==
    /\ result' = "ForceYield"
    /\ UNCHANGED <<regs, exit, mem, csr>>

\* A load or a store of n bytes at a, all of them in p's half.
Load(p, a, n) ==
    /\ a..(a + n - 1) \subseteq Half(p)
    /\ regs' = [regs EXCEPT ![p] = mem[a]]
    /\ result' = "Continue"
    /\ UNCHANGED <<exit, mem, csr>>

Store(p, a, n) ==
    /\ a..(a + n - 1) \subseteq Half(p)
    /\ mem' = [b \in Addr |-> IF b \in a..(a + n - 1) THEN regs[p] ELSE mem[b]]
    /\ result' = "Continue"
    /\ UNCHANGED <<regs, exit, csr>>

\* The registers and the status register exchange values.
SwapCsr(p) ==
    /\ csr' = regs[p]
    /\ regs' = [regs EXCEPT ![p] = csr]
    /\ result' = "Continue"
    /\ UNCHANGED <<exit, mem>>

\* An access of n bytes at a, some of them outside p's half, stops p.
OutOfBounds(p, a, n) ==
    /\ ~(a..(a + n - 1) \subseteq Half(p))
    /\ exit' = [exit EXCEPT ![p] = Fault]
    /\ \E r \in Value : regs' = [regs EXCEPT ![p] = r]
    /\ result' = "Halt"
    /\ UNCHANGED <<mem, csr>>

Exit(p) ==
    /\ exit' = [exit EXCEPT ![p] = 0]
    /\ result' = "Halt"
    /\ UNCHANGED <<regs, mem, csr>>

Next ==
    \E p \in Prog :
        /\ exit[p] = Running
        /\ \/ Compute(p)
           \/ CallBuiltin(p)
           \/ CallYield(p)
           \/ SwapCsr(p)
           \/ Exit(p)
           \/ \E a \in Addr, n \in Sizes :
                  Load(p, a, n) \/ Store(p, a, n) \/ OutOfBounds(p, a, n)

Spec == Init /\ [][Next]_vars
=============================================================================
