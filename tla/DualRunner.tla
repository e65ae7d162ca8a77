----------------------------- MODULE DualRunner -----------------------------
(***************************************************************************)
(* run_dual_flat_binary_bytes: one machine executes two programs in turn.  *)
(* A step is one machine.step() and what the runner does with its result.  *)
(* A program keeps the machine until it calls the yield builtin, exits, or *)
(* calls another builtin a quantum of cycles or more after it was resumed. *)
(***************************************************************************)
EXTENDS Naturals, Integers

CONSTANTS
    MemSize,    \* memory_size_bytes
    Value,      \* register contents, bytes and words alike
    Quantum,    \* CTX_SWITCH_AFTER_CYCLE_COUNT
    Cycles      \* what one instruction may cost, its memory accesses included

ASSUME RunnerAssumption ==
    /\ MemSize \in Nat
    /\ 0 \in Value
    /\ Quantum \in Nat
    /\ Cycles \subseteq Nat \ {0}

VARIABLES
    machine,    \* registers, memory segment and security class in the machine
    contexts,   \* the ExecutionContext of each program
    current,    \* the program on the machine
    elapsed,    \* cycles since last_switch_cycle, counted up to Quantum
    mem,        \* the bytes of the memory
    csr,        \* CsrBank, one register of it
    result,     \* what the last machine.step() returned
    users,      \* whose accesses the cache saw since on_context_switch
    mode        \* "running", "returned" or "panicked"

vars == <<machine, contexts, current, elapsed, mem, csr, result, users, mode>>

Prog == {0, 1}
Addr == 0..(MemSize - 1)
Sizes == {1, 2, 4}
Midpoint == MemSize \div 2

Segment(p) ==
    IF p = 0 THEN [start |-> 0, end |-> Midpoint]
    ELSE [start |-> Midpoint, end |-> MemSize]

Class(p) == IF p = 0 THEN "High" ELSE "Low"

Init ==
    /\ contexts = [p \in Prog |-> [regs |-> 0, exited |-> FALSE, code |-> 0]]
    /\ machine = [regs |-> 0, segment |-> Segment(0), class |-> Class(0)]
    /\ current = 0
    /\ elapsed = 0
    /\ mem = [a \in Addr |-> 0]
    /\ csr = 0
    /\ result = "Continue"
    /\ users = {}
    /\ mode = "running"

-----------------------------------------------------------------------------
(* What the runner does with the result of machine.step().                 *)

Other == 1 - current

\* The program on the machine goes on, its registers now r, after d cycles.
Stay(r, d) ==
    /\ machine' = [machine EXCEPT !.regs = r]
    /\ elapsed' = IF elapsed + d > Quantum THEN Quantum ELSE elapsed + d
    /\ users' = users \cup {current}
    /\ UNCHANGED <<current, mode>>

\* Resume_KeepSegment: set_memory_segment is forgotten.
Resume_KeepSegment(saved) ==
    /\ contexts' = saved
    /\ current' = Other
    /\ machine' = [machine EXCEPT !.regs = saved[Other].regs, !.class = Class(Other)]
    /\ users' = {}
    /\ elapsed' = 0
    /\ UNCHANGED mode

\* The other program is put on the machine.
Resume(saved) ==
    /\ contexts' = saved
    /\ current' = Other
    /\ machine' = [regs |-> saved[Other].regs,
                   segment |-> Segment(Other),
                   class |-> Class(Other)]
    /\ users' = {}
    /\ elapsed' = 0
    /\ UNCHANGED mode

\* Saved_Stale: the registers of the program that leaves are not saved.
Saved_Stale(r) == contexts

Saved(r) == [contexts EXCEPT ![current].regs = r]

\* Continue, PcUpdated
Continue(r, d) == Stay(r, d) /\ UNCHANGED contexts

\* Yield_Restarts: last_switch_cycle is moved at every call.
Yield_Restarts(r, d) ==
    \/ /\ elapsed + d < Quantum
       /\ machine' = [machine EXCEPT !.regs = r]
       /\ elapsed' = 0
       /\ users' = users \cup {current}
       /\ UNCHANGED <<contexts, current, mode>>
    \/ elapsed + d >= Quantum /\ ~contexts[Other].exited /\ Resume(Saved(r))
    \/ /\ elapsed + d >= Quantum /\ contexts[Other].exited
       /\ Stay(r, d)
       /\ contexts' = Saved(r)

\* Yield
Yield(r, d) ==
    \/ elapsed + d < Quantum /\ Continue(r, d)
    \/ elapsed + d >= Quantum /\ ~contexts[Other].exited /\ Resume(Saved(r))
    \/ /\ elapsed + d >= Quantum /\ contexts[Other].exited
       /\ Stay(r, d)
       /\ contexts' = Saved(r)

\* ForceYield
ForceYield(r, d) ==
    \/ ~contexts[Other].exited /\ Resume(Saved(r))
    \/ contexts[Other].exited /\ Stay(r, d) /\ contexts' = Saved(r)

\* Halt_Switches: whether the other program has exited is not looked at.
Halt_Switches(r, code) ==
    Resume([contexts EXCEPT ![current] = [regs |-> r, exited |-> TRUE, code |-> code]])

\* Halt
Halt(r, code) ==
    LET done == [contexts EXCEPT ![current] =
                    [regs |-> r, exited |-> TRUE, code |-> code]]
    IN  \/ ~contexts[Other].exited /\ Resume(done)
        \/ /\ contexts[Other].exited
           /\ contexts' = done
           /\ mode' = "returned"
           /\ machine' = [machine EXCEPT !.regs = r]
           /\ users' = users \cup {current}
           /\ UNCHANGED <<current, elapsed>>

-----------------------------------------------------------------------------
(* The instructions, as far as the runner can tell them apart.             *)

\* contains_range
Contains(segment, a, n) == a >= segment.start /\ a + n <= segment.end

Permitted(a, n) == Contains(machine.segment, a, n)

\* A jump returns PcUpdated, which the runner treats as Continue.
Compute(d) ==
    /\ result' = "Continue"
    /\ \E r \in Value : Continue(r, d)
    /\ UNCHANGED <<mem, csr>>

Load(a, n, d) ==
    /\ Permitted(a, n)
    /\ result' = "Continue"
    /\ Continue(mem[a], d)
    /\ UNCHANGED <<mem, csr>>

Store(a, n, d) ==
    /\ Permitted(a, n)
    /\ mem' = [b \in Addr |-> IF b \in a..(a + n - 1) THEN machine.regs ELSE mem[b]]
    /\ result' = "Continue"
    /\ Continue(machine.regs, d)
    /\ UNCHANGED csr

\* Fault_ExitsWithOne: the exit code is that of a program that has not exited.
Fault_ExitsWithOne(a, n) ==
    /\ ~Permitted(a, n)
    /\ result' = "Halt"
    /\ \E r \in Value : Halt(r, 1)
    /\ UNCHANGED <<mem, csr>>

\* A load, a store, a fetch or a builtin's read outside the segment: the step
\* ends in Halt(-11).  A load has then put 0 in its register; a builtin may
\* have put anything there.
Fault(a, n) ==
    /\ ~Permitted(a, n)
    /\ result' = "Halt"
    /\ \E r \in Value : Halt(r, -11)
    /\ UNCHANGED <<mem, csr>>

\* csrrw
SwapCsr(d) ==
    /\ csr' = machine.regs
    /\ result' = "Continue"
    /\ Continue(csr, d)
    /\ UNCHANGED mem

\* ecall of a builtin other than the yield builtin
CallBuiltin(d) ==
    /\ result' = "Yield"
    /\ \E r \in Value : Yield(r, d)
    /\ UNCHANGED <<mem, csr>>

\* ecall of the yield builtin
CallYield(d) ==
    /\ result' = "ForceYield"
    /\ ForceYield(machine.regs, d)
    /\ UNCHANGED <<mem, csr>>

Ebreak ==
    /\ result' = "Halt"
    /\ Halt(machine.regs, 0)
    /\ UNCHANGED <<mem, csr>>

\* An opcode or an ecall number the machine does not know, a modulo by zero.
Panic ==
    /\ mode' = "panicked"
    /\ UNCHANGED <<machine, contexts, current, elapsed, mem, csr, result, users>>

Next ==
    /\ mode = "running"
    /\ \/ \E d \in Cycles :
            \/ Compute(d)
            \/ SwapCsr(d)
            \/ CallBuiltin(d)
            \/ CallYield(d)
            \/ \E a \in Addr, n \in Sizes : Load(a, n, d) \/ Store(a, n, d)
       \/ \E a \in Addr, n \in Sizes : Fault(a, n)
       \/ Ebreak
       \/ Panic

Spec == Init /\ [][Next]_vars

\* The runner keeps stepping the machine until it returns or panics.
FairSpec == Spec /\ WF_vars(Next)

-----------------------------------------------------------------------------

\* The state is well formed.
TypeOK ==
    /\ machine \in [regs : Value, segment : {Segment(p) : p \in Prog},
                    class : {"High", "Low"}]
    /\ contexts \in [Prog -> [regs : Value, exited : BOOLEAN, code : {0, -11}]]
    /\ current \in Prog
    /\ elapsed \in 0..Quantum
    /\ mem \in [Addr -> Value]
    /\ csr \in Value
    /\ result \in {"Continue", "Yield", "ForceYield", "Halt"}
    /\ users \subseteq Prog
    /\ mode \in {"running", "returned", "panicked"}

\* Whatever path put a program on the machine, its accesses are checked against
\* its own segment and charged to its own security class, and the program is
\* one that has not exited.  Every switch was announced to the cache: what it
\* noted as used since the last announcement was used by that program alone.
MachineIsCurrents ==
    /\ machine.segment = Segment(current)
    /\ machine.class = Class(current)
    /\ mode = "running" => ~contexts[current].exited
    /\ users \subseteq {current}

\* The registers a program has: in the machine, or saved in its context.
RegistersOf(p) == IF p = current THEN machine.regs ELSE contexts[p].regs

ExitOf(p) == IF contexts[p].exited THEN contexts[p].code ELSE 1

Two == INSTANCE TwoPrograms WITH
            regs <- [p \in Prog |-> RegistersOf(p)],
            exit <- [p \in Prog |-> ExitOf(p)]

\* The interleaving is invisible: each program runs as it would on a machine of
\* its own, on its own registers and in its own half of the memory.
ImplementsTwoPrograms == Two!Spec

\* A program that goes on calling builtins, even ones that do not yield, does
\* not keep the machine to itself: the other one gets it, or has exited.
CallsShareTheMachine ==
    \A p \in Prog :
        []<><<current = p /\ \E d \in Cycles : CallBuiltin(d)>>_vars
            => []<>(current = 1 - p \/ contexts[1 - p].exited)

\* If every program the runner keeps coming back to keeps exiting, the runner
\* returns: an exited program is not resumed, the other one is, and the last
\* exit ends the run.
HaltingProgramsReturn ==
    (\A p \in Prog : []<>(current = p) =>
        []<><<current = p /\ Ebreak>>_vars)
            => <>(mode # "running")
=============================================================================
