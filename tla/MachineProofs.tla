--------------------------- MODULE MachineProofs ---------------------------
(***************************************************************************)
(* Theorems about the machine: the runner that lets two programs share it, *)
(* and the three hierarchies of caches that it may put between them and    *)
(* the memory.                                                             *)
(*                                                                         *)
(* Part 1 is the runner, for every memory size, quantum and cost of an     *)
(* instruction.  Part 2 is about lines, arrays and the L2, whatever is in  *)
(* front of it: what its users may rely on when they load, store, and are  *)
(* called back in the middle of either.  Parts 3 to 5 are the plain L1,    *)
(* the SMTCache and the BackCache as the cache in front, for every         *)
(* geometry.  Part 6 has the theorems of MCHierarchies.                    *)
(***************************************************************************)
EXTENDS DualRunner, MCHierarchies, TLAPS, FiniteSetTheorems, WellFoundedInduction

-----------------------------------------------------------------------------
(* Part 1.  The runner.                                                    *)

Inv == TypeOK /\ MachineIsCurrents

\* What a step may return.
Results == {"Continue", "Yield", "ForceYield", "Halt"}

\* The three shapes of what the runner does after an instruction, as seen by
\* Inv and by the two programs: the one on the machine has registers r now,
\* and perhaps an exit code; the other one has what it had.
RunnerEffect(r, exits, code) ==
    /\ Inv'
    /\ \A p \in Prog : RegistersOf(p)' = IF p = current THEN r ELSE RegistersOf(p)
    /\ \A p \in Prog : ExitOf(p)' = IF p = current /\ exits THEN code ELSE ExitOf(p)

\* The first program is restored before the loop begins.
LEMMA InitInv == Init => Inv
BY RunnerAssumption
DEF Init, Inv, TypeOK, MachineIsCurrents, Prog, Class

\* A step after which the same program goes on.
LEMMA StayEffect ==
    ASSUME Inv, mode = "running", NEW r \in Value, NEW d \in Cycles,
           Stay(r, d), contexts' = contexts \/ contexts' = Saved(r),
           mem' \in [Addr -> Value], csr' \in Value, result' \in Results
    PROVE  RunnerEffect(r, FALSE, 0)
<1>1. /\ machine' = [machine EXCEPT !.regs = r] /\ current' = current /\ mode' = mode
      /\ elapsed' \in 0..Quantum
      /\ users' = users \cup {current}
  BY RunnerAssumption DEF Stay, Inv, TypeOK
<1>2. /\ contexts' \in [Prog -> [regs : Value, exited : BOOLEAN, code : {0, -11}]]
      /\ \A p \in Prog : /\ contexts'[p].exited = contexts[p].exited
                         /\ contexts'[p].code = contexts[p].code
                         /\ p # current => contexts'[p].regs = contexts[p].regs
  <2>1. CASE contexts' = contexts
    BY <2>1 DEF Inv, TypeOK
  <2>2. CASE contexts' = Saved(r)
    <3>1. contexts \in [Prog -> [regs : Value, exited : BOOLEAN, code : {0, -11}]]
      BY DEF Inv, TypeOK
    <3>2. QED
      BY <2>2, <3>1 DEF Saved
  <2>3. QED
    BY <2>1, <2>2
<1>3. Inv'
  <2>1. TypeOK'
    BY <1>1, <1>2 DEF Inv, TypeOK, Results
  <2>2. machine'.segment = machine.segment /\ machine'.class = machine.class
    BY <1>1 DEF Inv, TypeOK
  <2>3. MachineIsCurrents'
    BY <1>1, <1>2, <2>2 DEF Inv, TypeOK, MachineIsCurrents
  <2>4. QED
    BY <2>1, <2>3 DEF Inv
<1>4. QED
  BY <1>1, <1>2, <1>3 DEF RunnerEffect, RegistersOf, ExitOf, Inv, TypeOK

\* A step that saves one program and restores the other.
LEMMA ResumeEffect ==
    ASSUME Inv, mode = "running", NEW r \in Value, NEW exits \in BOOLEAN,
           NEW code \in {0, -11}, ~contexts[Other].exited,
           NEW saved \in [Prog -> [regs : Value, exited : BOOLEAN, code : {0, -11}]],
           saved[current].regs = r,
           saved[current].exited = exits,
           exits => saved[current].code = code,
           saved[Other] = contexts[Other],
           Resume(saved),
           mem' \in [Addr -> Value], csr' \in Value, result' \in Results
    PROVE  RunnerEffect(r, exits, code)
<1>1. current \in Prog /\ Other \in Prog /\ Other # current
      /\ \A p \in Prog : p = current \/ p = Other
  BY DEF Inv, TypeOK, Prog, Other
<1>2. contexts' = saved /\ ~contexts[current].exited
  BY DEF Resume, Inv, MachineIsCurrents
<1>3. /\ current' = Other /\ mode' = mode /\ users' = {} /\ elapsed' = 0
      /\ machine' = [regs |-> contexts[Other].regs, segment |-> Segment(Other),
                     class |-> Class(Other)]
  BY <1>1, <1>2 DEF Resume
<1>4. Inv'
  <2>1. TypeOK'
    BY <1>1, <1>2, <1>3, RunnerAssumption DEF Inv, TypeOK, Class, Results
  <2>2. MachineIsCurrents'
    BY <1>1, <1>2, <1>3 DEF MachineIsCurrents
  <2>3. QED
    BY <2>1, <2>2 DEF Inv
<1>5. QED
  BY <1>1, <1>2, <1>3, <1>4 DEF RunnerEffect, RegistersOf, ExitOf

\* Saving the registers of the program on the machine changes nothing else.
LEMMA SavedContexts ==
    ASSUME Inv, mode = "running", NEW r \in Value
    PROVE  /\ Saved(r) \in [Prog -> [regs : Value, exited : BOOLEAN, code : {0, -11}]]
           /\ Saved(r)[current].regs = r
           /\ Saved(r)[current].exited = FALSE
           /\ Saved(r)[Other] = contexts[Other]
BY DEF Saved, Other, Inv, TypeOK, MachineIsCurrents, Prog

\* A step that ends with Continue, Yield or ForceYield: the program goes on,
\* or its context is saved as it is.
LEMMA YieldEffect ==
    ASSUME Inv, mode = "running", NEW r \in Value, NEW d \in Cycles,
           Continue(r, d) \/ Yield(r, d) \/ ForceYield(r, d),
           mem' \in [Addr -> Value], csr' \in Value, result' \in Results
    PROVE  RunnerEffect(r, FALSE, 0)
<1>1. CASE Stay(r, d) /\ (contexts' = contexts \/ contexts' = Saved(r))
  BY <1>1, StayEffect
<1>2. CASE ~contexts[Other].exited /\ Resume(Saved(r))
  BY <1>2, SavedContexts, ResumeEffect
<1>3. QED
  BY <1>1, <1>2 DEF Continue, Yield, ForceYield

\* A step that ends with Halt: the program has exited with its code.
LEMMA HaltEffect ==
    ASSUME Inv, mode = "running", NEW r \in Value, NEW code \in {0, -11},
           Halt(r, code), mem' \in [Addr -> Value], csr' \in Value, result' \in Results
    PROVE  RunnerEffect(r, TRUE, code)
<1> DEFINE done == [contexts EXCEPT ![current] =
                      [regs |-> r, exited |-> TRUE, code |-> code]]
<1>1. CASE ~contexts[Other].exited /\ Resume(done)
  <2>1. /\ done \in [Prog -> [regs : Value, exited : BOOLEAN, code : {0, -11}]]
        /\ done[current].regs = r /\ done[current].exited = TRUE
        /\ done[current].code = code
        /\ done[Other] = contexts[Other]
    BY DEF Other, Inv, TypeOK, Prog
  <2>2. ~contexts[Other].exited /\ Resume(done)
    BY <1>1
  <2> HIDE DEF done
  <2>3. QED
    BY <2>1, <2>2, ResumeEffect
<1>2. CASE /\ contexts' = done
           /\ mode' = "returned"
           /\ machine' = [machine EXCEPT !.regs = r]
           /\ users' = users \cup {current}
           /\ UNCHANGED <<current, elapsed>>
  <2>1. current \in Prog
    BY DEF Inv, TypeOK
  <2>2. /\ contexts' \in [Prog -> [regs : Value, exited : BOOLEAN, code : {0, -11}]]
        /\ contexts'[current] = [regs |-> r, exited |-> TRUE, code |-> code]
        /\ \A p \in Prog : p # current => contexts'[p] = contexts[p]
    BY <1>2, <2>1 DEF Inv, TypeOK
  <2>3. Inv'
    BY <1>2, <2>1, <2>2 DEF Inv, TypeOK, MachineIsCurrents, Results
  <2>4. QED
    BY <1>2, <2>1, <2>2, <2>3 DEF RunnerEffect, RegistersOf, ExitOf, Inv, TypeOK
<1>3. QED
  BY <1>1, <1>2 DEF Halt

-----------------------------------------------------------------------------
(* The instructions are instructions of the program on the machine.        *)

\* What RunnerEffect says of the variables of TwoPrograms.
LEMMA MappedEffect ==
    ASSUME Inv, mode = "running", NEW r \in Value, NEW exits \in BOOLEAN,
           NEW code \in {0, -11}, RunnerEffect(r, exits, code)
    PROVE  /\ Inv'
           /\ current \in Prog
           /\ ExitOf(current) = 1 /\ RegistersOf(current) = machine.regs
           /\ [p \in Prog |-> RegistersOf(p)']
                = [[p \in Prog |-> RegistersOf(p)] EXCEPT ![current] = r]
           /\ [p \in Prog |-> ExitOf(p)']
                = IF exits THEN [[p \in Prog |-> ExitOf(p)] EXCEPT ![current] = code]
                  ELSE [p \in Prog |-> ExitOf(p)]
<1>1. current \in Prog /\ ~contexts[current].exited
  BY DEF Inv, TypeOK, MachineIsCurrents
<1>2. \A p \in Prog : /\ RegistersOf(p)' = (IF p = current THEN r ELSE RegistersOf(p))
                       /\ ExitOf(p)' = (IF p = current /\ exits THEN code ELSE ExitOf(p))
  BY DEF RunnerEffect
<1>3. QED
  BY <1>1, <1>2 DEF RunnerEffect, RegistersOf, ExitOf

\* The bounds check of the machine is the check of the program's half.
LEMMA PermittedIsHalf ==
    ASSUME Inv, NEW a \in Addr, NEW n \in Sizes
    PROVE  Permitted(a, n) <=> a..(a + n - 1) \subseteq Two!Half(current)
<1>1. current \in Prog /\ machine.segment = Segment(current)
  BY DEF Inv, TypeOK, MachineIsCurrents
<1>2. a \in Nat /\ n \in {1, 2, 4} /\ Midpoint \in Int /\ MemSize \in Nat /\ a < MemSize
  BY RunnerAssumption DEF Addr, Sizes, Midpoint
<1>3. a \in a..(a + n - 1) /\ (a + n - 1) \in a..(a + n - 1)
  BY <1>2
<1>4. CASE current = 0
  <2>1. Permitted(a, n) <=> a >= 0 /\ a + n <= Midpoint
    BY <1>1, <1>4 DEF Permitted, Contains, Segment
  <2>2. Two!Half(current) = 0..(Midpoint - 1)
    BY <1>4 DEF Two!Half, Midpoint
  <2>3. QED
    BY <1>2, <1>3, <2>1, <2>2, SMTT(40)
<1>5. CASE current = 1
  <2>1. Permitted(a, n) <=> a >= Midpoint /\ a + n <= MemSize
    BY <1>1, <1>5 DEF Permitted, Contains, Segment
  <2>2. Two!Half(current) = Midpoint..(MemSize - 1)
    BY <1>5 DEF Two!Half, Midpoint
  <2>3. QED
    BY <1>2, <1>3, <2>1, <2>2, SMTT(40)
<1>6. QED
  BY <1>1, <1>4, <1>5 DEF Prog

\* Every step keeps Inv and is a step, or a stutter, of the two programs.
LEMMA NextStep == Inv /\ [Next]_vars => Inv' /\ [Two!Next]_(Two!vars)
<1> SUFFICES ASSUME Inv, [Next]_vars
             PROVE  Inv' /\ [Two!Next]_(Two!vars)
  OBVIOUS
<1>0. mem \in [Addr -> Value] /\ csr \in Value /\ machine.regs \in Value
  BY DEF Inv, TypeOK
<1> DEFINE regs == [p \in Prog |-> RegistersOf(p)]
           exit == [p \in Prog |-> ExitOf(p)]
<1>1. ASSUME mode = "running", NEW d \in Cycles, Compute(d)
      PROVE  Inv' /\ Two!Next
  <2>1. PICK r \in Value : Continue(r, d) /\ mem' = mem /\ csr' = csr /\ result' = "Continue"
    BY <1>1 DEF Compute
  <2>2. RunnerEffect(r, FALSE, 0)
    BY <1>0, <1>1, <2>1, YieldEffect DEF Results
  <2>3. QED
    BY <1>1, <2>1, <2>2, MappedEffect
    DEF Two!Next, Two!Compute, Two!Prog, Prog, Two!Running
<1>2. ASSUME mode = "running", NEW d \in Cycles, CallBuiltin(d)
      PROVE  Inv' /\ Two!Next
  <2>1. PICK r \in Value : Yield(r, d) /\ mem' = mem /\ csr' = csr /\ result' = "Yield"
    BY <1>2 DEF CallBuiltin
  <2>2. RunnerEffect(r, FALSE, 0)
    BY <1>0, <1>2, <2>1, YieldEffect DEF Results
  <2>3. QED
    BY <1>2, <2>1, <2>2, MappedEffect
    DEF Two!Next, Two!CallBuiltin, Two!Prog, Prog, Two!Running
<1>3. ASSUME mode = "running", NEW d \in Cycles, CallYield(d)
      PROVE  Inv' /\ Two!Next
  <2>1. ForceYield(machine.regs, d) /\ mem' = mem /\ csr' = csr /\ result' = "ForceYield"
    BY <1>3 DEF CallYield
  <2>2. RunnerEffect(machine.regs, FALSE, 0)
    BY <1>0, <1>3, <2>1, YieldEffect DEF Results
  <2>3. QED
    BY <1>0, <1>3, <2>1, <2>2, MappedEffect, ZenonT(40)
    DEF Two!Next, Two!CallYield, Two!Prog, Prog, Two!Running
<1>4. ASSUME mode = "running", NEW d \in Cycles, SwapCsr(d)
      PROVE  Inv' /\ Two!Next
  <2>1. Continue(csr, d) /\ mem' = mem /\ csr' = machine.regs /\ result' = "Continue"
    BY <1>4 DEF SwapCsr
  <2>2. RunnerEffect(csr, FALSE, 0)
    BY <1>0, <1>4, <2>1, YieldEffect DEF Results
  <2>3. QED
    BY <1>0, <1>4, <2>1, <2>2, MappedEffect
    DEF Two!Next, Two!SwapCsr, Two!Prog, Prog, Two!Running
<1>5. ASSUME mode = "running", NEW d \in Cycles, NEW a \in Addr, NEW n \in Sizes,
             Load(a, n, d)
      PROVE  Inv' /\ Two!Next
  <2>1. /\ Continue(mem[a], d) /\ mem' = mem /\ csr' = csr /\ Permitted(a, n)
        /\ result' = "Continue"
    BY <1>5 DEF Load
  <2>2. RunnerEffect(mem[a], FALSE, 0) /\ mem[a] \in Value
    BY <1>0, <1>5, <2>1, YieldEffect DEF Results
  <2>3. Two!Load(current, a, n)
    BY <1>5, <2>1, <2>2, MappedEffect, PermittedIsHalf DEF Two!Load
  <2>4. QED
    BY <1>5, <2>2, <2>3, MappedEffect
    DEF Two!Next, Two!Prog, Prog, Two!Running, Two!Addr, Addr, Two!Sizes, Sizes
<1>6. ASSUME mode = "running", NEW d \in Cycles, NEW a \in Addr, NEW n \in Sizes,
             Store(a, n, d)
      PROVE  Inv' /\ Two!Next
  <2>1. /\ Continue(machine.regs, d) /\ csr' = csr /\ Permitted(a, n)
        /\ result' = "Continue"
        /\ mem' = [b \in Addr |-> IF b \in a..(a + n - 1) THEN machine.regs ELSE mem[b]]
    BY <1>6 DEF Store
  <2>2. mem' \in [Addr -> Value]
    BY <1>0, <2>1
  <2>3. RunnerEffect(machine.regs, FALSE, 0)
    BY <1>0, <1>6, <2>1, <2>2, YieldEffect DEF Results
  <2>4. Two!Store(current, a, n)
    BY <1>0, <1>6, <2>1, <2>3, MappedEffect, PermittedIsHalf
    DEF Two!Store, Two!Addr, Addr
  <2>5. QED
    BY <1>0, <1>6, <2>3, <2>4, MappedEffect, ZenonT(40)
    DEF Two!Next, Two!Prog, Prog, Two!Running, Two!Addr, Addr, Two!Sizes, Sizes
<1>7. ASSUME mode = "running", NEW a \in Addr, NEW n \in Sizes, Fault(a, n)
      PROVE  Inv' /\ Two!Next
  <2>1. PICK r \in Value :
                    /\ Halt(r, -11) /\ mem' = mem /\ csr' = csr /\ ~Permitted(a, n)
                    /\ result' = "Halt"
    BY <1>7 DEF Fault
  <2>2. RunnerEffect(r, TRUE, -11)
    BY <1>0, <1>7, <2>1, HaltEffect DEF Results
  <2>3. Two!OutOfBounds(current, a, n)
    BY <1>7, <2>1, <2>2, MappedEffect, PermittedIsHalf DEF Two!OutOfBounds, Two!Fault
  <2>4. QED
    BY <1>7, <2>2, <2>3, MappedEffect
    DEF Two!Next, Two!Prog, Prog, Two!Running, Two!Addr, Addr, Two!Sizes, Sizes
<1>8. ASSUME mode = "running", Ebreak
      PROVE  Inv' /\ Two!Next
  <2>1. Halt(machine.regs, 0) /\ mem' = mem /\ csr' = csr /\ result' = "Halt"
    BY <1>8 DEF Ebreak
  <2>2. RunnerEffect(machine.regs, TRUE, 0)
    BY <1>0, <1>8, <2>1, HaltEffect DEF Results
  <2>3. regs' = regs
    BY <1>0, <1>8, <2>2, MappedEffect
  <2>4. Two!Exit(current)
    BY <1>0, <1>8, <2>1, <2>2, <2>3, MappedEffect DEF Two!Exit
  <2>5. QED
    BY <1>0, <1>8, <2>2, <2>4, MappedEffect DEF Two!Next, Two!Prog, Prog, Two!Running
<1>9. ASSUME Panic
      PROVE  Inv' /\ UNCHANGED Two!vars
  BY <1>9 DEF Panic, Inv, TypeOK, MachineIsCurrents,
              Two!vars, RegistersOf, ExitOf
<1>10. CASE UNCHANGED vars
  BY <1>10 DEF vars, Inv, TypeOK, MachineIsCurrents,
               Two!vars, RegistersOf, ExitOf
<1>11. QED
  BY <1>1, <1>2, <1>3, <1>4, <1>5, <1>6, <1>7, <1>8, <1>9, <1>10 DEF Next

-----------------------------------------------------------------------------

\* The machine always works for the program the runner says is current: its
\* segment, its class, its exit flag, and the uses the cache has noted.
THEOREM RunnerInvariant == Spec => [](TypeOK /\ MachineIsCurrents)
<1>1. Inv /\ [Next]_vars => Inv'
  BY NextStep
<1>2. Inv => TypeOK /\ MachineIsCurrents
  BY DEF Inv
<1>3. QED
  BY InitInv, <1>1, <1>2, PTL DEF Spec

\* In particular the runner's state is well formed: whatever the programs do,
\* the machine has a segment that is one of theirs, and a context that has
\* exited an exit code of 0 or -11.
THEOREM RunnerTypes == Spec => []TypeOK
BY RunnerInvariant, PTL

\* Switching is transparent: the runner implements two programs that each run
\* on registers and a half of the memory of their own.
THEOREM RunnerImplementsTwoPrograms == Spec => ImplementsTwoPrograms
<1>1. Init => Two!Init
  BY DEF Init, Two!Init, Prog, Two!Prog, Addr, Two!Addr, RegistersOf, ExitOf, Two!Running
<1>2. Inv /\ [Next]_vars => Inv' /\ [Two!Next]_(Two!vars)
  BY NextStep
<1>3. QED
  BY InitInv, <1>1, <1>2, PTL DEF Spec, Two!Spec, ImplementsTwoPrograms

-----------------------------------------------------------------------------
(* Part 2.  Lines, arrays and the L2.                                      *)

Data == [Offset -> Byte]
LineOf(LS) == [line : LS, data : Data, dirty : BOOLEAN]

\* The arrays of N sets and W ways over the lines LS.
ArrayFor(N, W, LS) == [0..(N - 1) -> [0..(W - 1) -> LineOf(LS) \cup {None}]]

\* Array c with n in slot w of set s.
With(c, s, w, n) == [c EXCEPT ![s][w] = n]

RanksFor(N, W) == [0..(N - 1) -> [0..(W - 1) -> 0..(W - 1)]]

\* Way w of set s is now the last used of its W ways.
Touched(W, r, s, w) ==
    [r EXCEPT ![s] = [v \in 0..(W - 1) |->
        IF v = w THEN W - 1
        ELSE IF r[s][v] > r[s][w] THEN r[s][v] - 1
        ELSE r[s][v]]]

\* Every line of array c is in its set, and there once.
Filed(N, W, c) ==
    \A s \in 0..(N - 1), w \in 0..(W - 1) :
        c[s][w] # None =>
            /\ s = c[s][w].line % N
            /\ \A v \in 0..(W - 1) :
                c[s][v] # None /\ c[s][v].line = c[s][w].line => v = w

\* The lines an array holds.
LinesIn(N, W, c) == {c[s][w] : s \in 0..(N - 1), w \in 0..(W - 1)} \ {None}

\* The array c of the L2, over memory m: it is well formed, and what is clean
\* in it is what the memory has.
Behind(LS, c, m) ==
    /\ c \in ArrayFor(L2Sets, L2Ways, LS) /\ Filed(L2Sets, L2Ways, c)
    /\ m \in [LS -> Data]
    /\ \A s \in 0..(L2Sets - 1), w \in 0..(L2Ways - 1) :
        c[s][w] # None /\ ~c[s][w].dirty => c[s][w].data = m[c[s][w].line]

\* The copies F in front of it are known to it, agree with each other, and those
\* that are clean with it.
Sound(LS, F, c, m) ==
    /\ Behind(LS, c, m)
    /\ F \subseteq LineOf(LS)
    /\ \A n \in F : /\ L2!Cached(c, n.line)
                    /\ ~n.dirty => n.data = L2!CopyOf(c, n.line).data
    /\ \A n, k \in F : n.line = k.line => n = k

\* What a load of line x then finds.
Reads(F, c, m, x) ==
    IF \E n \in F : n.line = x THEN (CHOOSE n \in F : n.line = x).data
    ELSE IF L2!Cached(c, x) THEN L2!CopyOf(c, x).data
    ELSE m[x]

\* Line x is dirty nowhere.
CleanIn(F, c, x) ==
    /\ \A n \in F : n.line = x => ~n.dirty
    /\ L2!Cached(c, x) => ~L2!CopyOf(c, x).dirty

\* A line selects a set of either cache, and None is no line.
LEMMA Geometry ==
    /\ \A l \in Line : /\ l \in Nat /\ L2!SetIndex(l) \in 0..(L2Sets - 1)
                       /\ l % L1Sets \in 0..(L1Sets - 1)
    /\ \A LS \in SUBSET Line : None \notin LineOf(LS)
    /\ L2!Ways = 0..(L2Ways - 1) /\ L2!Sets = 0..(L2Sets - 1)
<1>1. ASSUME NEW l \in Nat, NEW N \in Nat \ {0}
      PROVE  l % N \in 0..(N - 1)
  BY SMT
<1>2. \A LS \in SUBSET Line : None \notin LineOf(LS)
  BY HierarchyAssumption DEF LineOf, Data
<1>3. QED
  BY <1>1, <1>2, HierarchyAssumption DEF L2!SetIndex, L2!Ways, L2!Sets

\* The slot that holds a line is the one that is found for it.
LEMMA Found ==
    ASSUME NEW LS \in SUBSET Line, NEW c, NEW m, Behind(LS, c, m), NEW l \in LS,
           NEW w \in L2!Ways, L2!Holds(c, l, w)
    PROVE  /\ L2!Cached(c, l)
           /\ L2!CopyOf(c, l) = c[L2!SetIndex(l)][w]
           /\ L2!HitWay(c, l, w)
           /\ \A v \in L2!Ways : L2!Holds(c, l, v) => v = w
<1>1. L2!SetIndex(l) \in 0..(L2Sets - 1) /\ w \in 0..(L2Ways - 1)
  BY Geometry
<1>2. \A v \in L2!Ways : L2!Holds(c, l, v) => v = w
  BY <1>1, Geometry DEF Behind, Filed, L2!Holds
<1>3. \A v \in 0..(w - 1) : v \in L2!Ways /\ v # w
  BY Geometry, HierarchyAssumption
<1>4. QED
  BY <1>2, <1>3 DEF L2!Cached, L2!CopyOf, L2!HitWay

\* The way of a cached line.
LEMMA HitWayHolds ==
    ASSUME NEW LS \in SUBSET Line, NEW h, Behind(LS, h.l2, h.mem), NEW l \in LS,
           L2!Cached(h.l2, l)
    PROVE  /\ L2!HitWayOf(h, l) \in L2!Ways
           /\ L2!Holds(h.l2, l, L2!HitWayOf(h, l))
           /\ h.l2[L2!SetIndex(l)][L2!HitWayOf(h, l)] = L2!CopyOf(h.l2, l)
<1>1. PICK w \in L2!Ways : L2!Holds(h.l2, l, w)
  BY DEF L2!Cached
<1>2. L2!HitWay(h.l2, l, w)
  BY <1>1, Found
<1>3. L2!HitWayOf(h, l) \in L2!Ways /\ L2!HitWay(h.l2, l, L2!HitWayOf(h, l))
  BY <1>2 DEF L2!HitWayOf
<1>4. L2!Holds(h.l2, l, L2!HitWayOf(h, l))
  BY <1>3 DEF L2!HitWay
<1>5. QED
  BY <1>3, <1>4, Found

\* No slot of array c has the line of n but perhaps the one in way w.
NowhereElse(N, W, c, n, w) ==
    \A v \in 0..(W - 1) :
        c[n.line % N][v] # None /\ c[n.line % N][v].line = n.line => v = w

\* Line n is put into a slot of an array in which no other slot has its line.
LEMMA PutIn ==
    ASSUME NEW N \in Nat \ {0}, NEW W \in Nat \ {0}, NEW LS \in SUBSET Line,
           NEW c \in ArrayFor(N, W, LS), Filed(N, W, c),
           NEW n \in LineOf(LS), NEW w \in 0..(W - 1),
           NowhereElse(N, W, c, n, w)
    PROVE  LET d == With(c, n.line % N, w, n) IN
           /\ d \in ArrayFor(N, W, LS) /\ Filed(N, W, d)
           /\ d[n.line % N][w] = n
           /\ \A s \in 0..(N - 1), v \in 0..(W - 1) :
               <<s, v>> # <<n.line % N, w>> => d[s][v] = c[s][v]
           /\ LinesIn(N, W, d) = (LinesIn(N, W, c) \ {c[n.line % N][w]}) \cup {n}
<1> DEFINE s0 == n.line % N
           d == With(c, n.line % N, w, n)
<1>1. n.line \in LS /\ n.line \in Nat /\ n # None
  BY Geometry, HierarchyAssumption DEF LineOf
<1>2. s0 \in 0..(N - 1)
  BY <1>1, SMT
<1>3. d \in ArrayFor(N, W, LS)
  BY <1>2 DEF ArrayFor, With
<1>4. d[s0][w] = n
  BY <1>2 DEF ArrayFor, With
<1>5. \A s \in 0..(N - 1), v \in 0..(W - 1) : <<s, v>> # <<s0, w>> => d[s][v] = c[s][v]
  BY <1>2 DEF ArrayFor, With
<1> HIDE DEF d
<1>6. Filed(N, W, d)
  <2>1. SUFFICES ASSUME NEW s \in 0..(N - 1), NEW v \in 0..(W - 1), d[s][v] # None
                 PROVE  /\ s = d[s][v].line % N
                        /\ \A u \in 0..(W - 1) :
                            d[s][u] # None /\ d[s][u].line = d[s][v].line => u = v
    BY DEF Filed
  <2>2. CASE <<s, v>> = <<s0, w>>
    BY <2>2, <1>4, <1>5, <1>2 DEF NowhereElse
  <2>3. CASE <<s, v>> # <<s0, w>>
    <3>1. d[s][v] = c[s][v] /\ s = c[s][v].line % N
      BY <2>1, <2>3, <1>5 DEF Filed
    <3>2. ASSUME NEW u \in 0..(W - 1), d[s][u] # None, d[s][u].line = d[s][v].line
          PROVE  u = v
      <4>1. CASE <<s, u>> = <<s0, w>>
        BY <4>1, <3>1, <3>2, <1>4, <2>1 DEF NowhereElse
      <4>2. CASE <<s, u>> # <<s0, w>>
        BY <4>2, <3>1, <3>2, <1>5, <2>1 DEF Filed
      <4>3. QED
        BY <4>1, <4>2
    <3>3. QED
      BY <3>1, <3>2
  <2>4. QED
    BY <2>2, <2>3
<1>7. LinesIn(N, W, d) = (LinesIn(N, W, c) \ {c[s0][w]}) \cup {n}
  <2>1. ASSUME NEW k \in LinesIn(N, W, d), k # n
        PROVE  k \in LinesIn(N, W, c) \ {c[s0][w]}
    <3>1. PICK s \in 0..(N - 1), v \in 0..(W - 1) : k = d[s][v] /\ k # None
      BY DEF LinesIn
    <3>2. <<s, v>> # <<s0, w>> /\ k = c[s][v]
      BY <3>1, <2>1, <1>4, <1>5
    <3>3. k # c[s0][w]
      <4>1. SUFFICES ASSUME k = c[s0][w] PROVE FALSE
        OBVIOUS
      <4>2. s = s0
        <5>1. s = k.line % N
          BY <3>1, <3>2 DEF Filed
        <5>2. s0 = k.line % N
          BY <4>1, <3>1, <1>2 DEF Filed
        <5>3. QED
          BY <5>1, <5>2
      <4>3. v = w
        BY <4>1, <4>2, <3>1, <3>2, <1>2 DEF Filed
      <4>4. QED
        BY <4>2, <4>3, <3>2
    <3>4. QED
      BY <3>1, <3>2, <3>3 DEF LinesIn
  <2>2. n \in LinesIn(N, W, d)
    BY <1>1, <1>2, <1>4 DEF LinesIn
  <2>3. ASSUME NEW k \in LinesIn(N, W, c), k # c[s0][w]
        PROVE  k \in LinesIn(N, W, d)
    <3>1. PICK s \in 0..(N - 1), v \in 0..(W - 1) : k = c[s][v] /\ k # None
      BY DEF LinesIn
    <3>2. k = d[s][v]
      BY <3>1, <2>3, <1>5
    <3>3. QED
      BY <3>1, <3>2 DEF LinesIn
  <2>4. QED
    BY <2>1, <2>2, <2>3
<1>8. QED
  BY <1>3, <1>4, <1>5, <1>6, <1>7 DEF d

\* A slot is emptied.
LEMMA DropIn ==
    ASSUME NEW N \in Nat \ {0}, NEW W \in Nat \ {0}, NEW LS \in SUBSET Line,
           NEW c \in ArrayFor(N, W, LS), Filed(N, W, c),
           NEW s0 \in 0..(N - 1), NEW w \in 0..(W - 1)
    PROVE  LET d == With(c, s0, w, None) IN
           /\ d \in ArrayFor(N, W, LS) /\ Filed(N, W, d)
           /\ d[s0][w] = None
           /\ \A s \in 0..(N - 1), v \in 0..(W - 1) :
               <<s, v>> # <<s0, w>> => d[s][v] = c[s][v]
           /\ LinesIn(N, W, d) = LinesIn(N, W, c) \ {c[s0][w]}
<1> DEFINE d == With(c, s0, w, None)
<1>1. d \in ArrayFor(N, W, LS)
  BY DEF ArrayFor, With
<1>2. d[s0][w] = None
  BY DEF ArrayFor, With
<1>3. \A s \in 0..(N - 1), v \in 0..(W - 1) : <<s, v>> # <<s0, w>> => d[s][v] = c[s][v]
  BY DEF ArrayFor, With
<1> HIDE DEF d
<1>4. \A s \in 0..(N - 1), v \in 0..(W - 1) :
          d[s][v] # None => d[s][v] = c[s][v] /\ <<s, v>> # <<s0, w>>
  BY <1>2, <1>3
<1>5. Filed(N, W, d)
  BY <1>4 DEF Filed
<1>6. LinesIn(N, W, d) = LinesIn(N, W, c) \ {c[s0][w]}
  <2>1. ASSUME NEW k \in LinesIn(N, W, d)
        PROVE  k \in LinesIn(N, W, c) \ {c[s0][w]}
    <3>1. PICK s \in 0..(N - 1), v \in 0..(W - 1) : k = d[s][v] /\ k # None
      BY DEF LinesIn
    <3>2. <<s, v>> # <<s0, w>> /\ k = c[s][v]
      BY <3>1, <1>4
    <3>3. k # c[s0][w]
      BY <3>1, <3>2 DEF Filed
    <3>4. QED
      BY <3>1, <3>2, <3>3 DEF LinesIn
  <2>2. ASSUME NEW k \in LinesIn(N, W, c), k # c[s0][w]
        PROVE  k \in LinesIn(N, W, d)
    <3>1. PICK s \in 0..(N - 1), v \in 0..(W - 1) : k = c[s][v] /\ k # None
      BY DEF LinesIn
    <3>2. k = d[s][v]
      BY <3>1, <2>2, <1>3
    <3>3. QED
      BY <3>1, <3>2 DEF LinesIn
  <2>3. QED
    BY <2>1, <2>2
<1>7. QED
  BY <1>1, <1>2, <1>3, <1>5, <1>6 DEF d

\* What the L2 holds after line n has been put into way w of its set.
LEMMA PutBehind ==
    ASSUME NEW LS \in SUBSET Line, NEW c, NEW m, Behind(LS, c, m),
           NEW n \in LineOf(LS), NEW w \in L2!Ways,
           L2!Holds(c, n.line, w) \/ ~L2!Cached(c, n.line),
           n.dirty \/ n.data = m[n.line]
    PROVE  LET d == L2!Put(c, n.line, w, n)
               old == c[L2!SetIndex(n.line)][w]
           IN  /\ Behind(LS, d, m)
               /\ L2!Cached(d, n.line) /\ L2!CopyOf(d, n.line) = n
               /\ \A x \in LS : x # n.line =>
                   /\ L2!Cached(d, x) <=> L2!Cached(c, x) /\ (old = None \/ old.line # x)
                   /\ L2!Cached(d, x) => L2!CopyOf(d, x) = L2!CopyOf(c, x)
<1> DEFINE s0 == L2!SetIndex(n.line)
           d == L2!Put(c, n.line, w, n)
<1>1. n.line \in LS /\ n.line \in Nat /\ s0 \in 0..(L2Sets - 1) /\ n # None
      /\ s0 = n.line % L2Sets /\ w \in 0..(L2Ways - 1)
  BY Geometry, HierarchyAssumption DEF LineOf, L2!SetIndex
<1>2. \A v \in 0..(L2Ways - 1) : c[s0][v] # None /\ c[s0][v].line = n.line => v = w
  <2>1. SUFFICES ASSUME NEW v \in L2!Ways, L2!Holds(c, n.line, v)
                 PROVE  v = w
    BY Geometry DEF L2!Holds
  <2>2. L2!Holds(c, n.line, w)
    BY <2>1 DEF L2!Cached
  <2>3. QED
    BY <2>1, <2>2, <1>1, Found
<1>3. /\ d \in ArrayFor(L2Sets, L2Ways, LS) /\ Filed(L2Sets, L2Ways, d)
      /\ d[s0][w] = n
      /\ \A s \in 0..(L2Sets - 1), v \in 0..(L2Ways - 1) :
               <<s, v>> # <<s0, w>> => d[s][v] = c[s][v]
  <2>1. c \in ArrayFor(L2Sets, L2Ways, LS) /\ Filed(L2Sets, L2Ways, c)
    BY DEF Behind
  <2>2. L2Sets \in Nat \ {0} /\ L2Ways \in Nat \ {0}
    BY HierarchyAssumption
  <2> HIDE DEF s0
  <2>3. s0 = n.line % L2Sets /\ d = With(c, n.line % L2Sets, w, n)
    BY DEF s0, With, L2!Put, L2!SetIndex
  <2>4. /\ With(c, n.line % L2Sets, w, n) \in ArrayFor(L2Sets, L2Ways, LS)
        /\ Filed(L2Sets, L2Ways, With(c, n.line % L2Sets, w, n))
        /\ With(c, n.line % L2Sets, w, n)[n.line % L2Sets][w] = n
        /\ \A s \in 0..(L2Sets - 1), v \in 0..(L2Ways - 1) :
               <<s, v>> # <<n.line % L2Sets, w>> =>
                   With(c, n.line % L2Sets, w, n)[s][v] = c[s][v]
    <3>1. NowhereElse(L2Sets, L2Ways, c, n, w)
      BY <1>2, <2>3 DEF NowhereElse
    <3>2. QED
      BY <1>1, <2>1, <2>2, <3>1, PutIn
  <2>5. QED
    BY <2>3, <2>4
<1> HIDE DEF d
<1>4. Behind(LS, d, m)
  BY <1>1, <1>3 DEF Behind
<1>5. L2!Cached(d, n.line) /\ L2!CopyOf(d, n.line) = n
  <2>1. L2!Holds(d, n.line, w)
    BY <1>1, <1>3 DEF L2!Holds
  <2>2. QED
    BY <2>1, <1>1, <1>3, <1>4, Found
<1>6. ASSUME NEW x \in LS, x # n.line
      PROVE  /\ L2!Cached(d, x) <=> L2!Cached(c, x)
                                    /\ (c[s0][w] = None \/ c[s0][w].line # x)
             /\ L2!Cached(d, x) => L2!CopyOf(d, x) = L2!CopyOf(c, x)
  <2>1. L2!SetIndex(x) \in 0..(L2Sets - 1)
    BY Geometry
  <2>2. ASSUME NEW v \in L2!Ways, L2!Holds(d, x, v)
        PROVE  /\ L2!Holds(c, x, v) /\ <<L2!SetIndex(x), v>> # <<s0, w>>
               /\ d[L2!SetIndex(x)][v] = c[L2!SetIndex(x)][v]
    BY <2>1, <2>2, <1>3, <1>6, Geometry DEF L2!Holds
  <2>3. ASSUME NEW v \in L2!Ways, L2!Holds(d, x, v), c[s0][w] # None, c[s0][w].line = x
        PROVE  FALSE
    <3>1. s0 = L2!SetIndex(x)
      BY <1>1, <2>3, Geometry DEF Behind, Filed, L2!SetIndex
    <3>2. L2!Holds(c, x, w)
      BY <3>1, <2>3 DEF L2!Holds
    <3>3. QED
      BY <3>1, <3>2, <2>2, <2>3, Found
  <2>4. ASSUME NEW v \in L2!Ways, L2!Holds(c, x, v), c[s0][w] = None \/ c[s0][w].line # x
        PROVE  L2!Holds(d, x, v)
    <3>1. <<L2!SetIndex(x), v>> # <<s0, w>>
      BY <2>4 DEF L2!Holds
    <3>2. QED
      BY <3>1, <2>1, <2>4, <1>3, Geometry DEF L2!Holds
  <2>5. ASSUME NEW v \in L2!Ways, L2!Holds(d, x, v)
        PROVE  L2!CopyOf(d, x) = L2!CopyOf(c, x)
    <3>1. L2!CopyOf(d, x) = d[L2!SetIndex(x)][v]
      BY <2>5, <1>4, Found
    <3>2. L2!CopyOf(c, x) = c[L2!SetIndex(x)][v]
      BY <2>5, <2>2, Found
    <3>3. QED
      BY <3>1, <3>2, <2>5, <2>2
  <2>6. QED
    BY <2>2, <2>3, <2>4, <2>5 DEF L2!Cached
<1>7. QED
  BY <1>4, <1>5, <1>6 DEF d

\* A set of numbers has a least element.
LEMMA LeastOf ==
    ASSUME NEW S \in SUBSET Nat, S # {}
    PROVE  \E n \in S : \A k \in S : n <= k
<1>1. PICK n \in S : \A k \in S : ~(<<k, n>> \in OpToRel(<, Nat))
  BY WFMin, NatLessThanWellFounded
<1>2. \A k \in S : ~(k < n)
  BY <1>1 DEF OpToRel
<1>3. QED
  BY <1>2

\* A touched way is used last; the ranks stay in range.
LEMMA TouchType ==
    ASSUME NEW N \in Nat \ {0}, NEW W \in Nat \ {0},
           NEW r \in RanksFor(N, W), NEW s \in 0..(N - 1), NEW w \in 0..(W - 1)
    PROVE  Touched(W, r, s, w) \in RanksFor(N, W)
<1>1. ASSUME NEW v \in 0..(W - 1)
      PROVE  (IF v = w THEN W - 1
              ELSE IF r[s][v] > r[s][w] THEN r[s][v] - 1
              ELSE r[s][v]) \in 0..(W - 1)
  <2> DEFINE a == r[s][v]
             b == r[s][w]
  <2>1. a \in 0..(W - 1) /\ b \in 0..(W - 1)
    BY DEF RanksFor
  <2> HIDE DEF a, b
  <2>2. (IF v = w THEN W - 1 ELSE IF a > b THEN a - 1 ELSE a) \in 0..(W - 1)
    BY <2>1
  <2>3. QED
    BY <2>2 DEF a, b
<1>2. QED
  BY <1>1 DEF RanksFor, Touched

\* Every set has a victim.
LEMMA VictimExists ==
    ASSUME NEW h, h.used2 \in L2!Ranks, NEW l \in Line
    PROVE  /\ L2!VictimWay(h, l) \in L2!Ways
           /\ L2!Victim(h.l2, h.used2, L2!SetIndex(l), L2!VictimWay(h, l))
<1> DEFINE s == L2!SetIndex(l)
           c == h.l2
           r == h.used2
<1>1. s \in L2!Sets /\ L2!Ways = 0..(L2Ways - 1) /\ 0 \in L2!Ways /\ L2!Ways \subseteq Nat
  BY Geometry, HierarchyAssumption
<1> HIDE DEF s, c, r
<1>2. \E w \in L2!Ways : L2!Victim(c, r, s, w)
  <2>1. CASE \E w \in L2!Ways : c[s][w] = None
    <3> DEFINE E == {w \in L2!Ways : c[s][w] = None}
    <3>1. E \subseteq Nat /\ E # {}
      BY <1>1, <2>1
    <3>2. PICK w \in E : \A k \in E : w <= k
      BY <3>1, LeastOf
    <3>3. \A v \in 0..(w - 1) : v \in L2!Ways /\ ~(w <= v)
      BY <1>1, HierarchyAssumption
    <3>4. L2!FirstEmpty(c, s, w)
      BY <3>2, <3>3 DEF L2!FirstEmpty
    <3>5. QED
      BY <3>4 DEF L2!Victim
  <2>2. CASE \A w \in L2!Ways : c[s][w] # None
    <3>1. r[s] \in [L2!Ways -> L2!Ways]
      BY <1>1 DEF L2!Ranks, r
    <3> DEFINE E == {r[s][w] : w \in L2!Ways}
    <3>2. E \subseteq Nat /\ E # {}
      BY <1>1, <3>1
    <3>3. PICK n \in E : \A k \in E : n <= k
      BY <3>2, LeastOf
    <3>4. PICK w \in L2!Ways : n = r[s][w]
      BY <3>3
    <3>5. L2!LeastRecent(c, r, s, w)
      BY <2>2, <3>3, <3>4 DEF L2!LeastRecent
    <3>6. QED
      BY <3>5 DEF L2!Victim
  <2>3. QED
    BY <2>1, <2>2
<1>3. QED
  BY <1>2 DEF L2!VictimWay, s, c, r

\* What is read of a line with a copy in front.
LEMMA ReadsFront ==
    ASSUME NEW LS \in SUBSET Line, NEW F, NEW c, NEW m, Sound(LS, F, c, m),
           NEW n \in F
    PROVE  Reads(F, c, m, n.line) = n.data
<1>1. \E k \in F : k.line = n.line
  OBVIOUS
<1>2. (CHOOSE k \in F : k.line = n.line) = n
  BY DEF Sound
<1>3. QED
  BY <1>1, <1>2 DEF Reads

\* A line that is not in front is read from the L2, or else from memory.
LEMMA ReadsBehind ==
    ASSUME NEW F, NEW c, NEW m, NEW x, ~ \E n \in F : n.line = x
    PROVE  Reads(F, c, m, x) = IF L2!Cached(c, x) THEN L2!CopyOf(c, x).data ELSE m[x]
BY DEF Reads

\* A dirty copy is written back into the slot that the L2 has for its line; it
\* may then be dropped.
LEMMA RetireDirty ==
    ASSUME NEW LS \in SUBSET Line, NEW F, NEW c, NEW m, Sound(LS, F, c, m),
           NEW n \in F, n.dirty, NEW w \in L2!Ways, L2!Holds(c, n.line, w),
           NEW G, F \ {n} \subseteq G, G \subseteq F
    PROVE  LET d == L2!Put(c, n.line, w, L2!DirtyLine(n.line, n.data)) IN
           /\ Sound(LS, G, d, m)
           /\ \A x \in LS : /\ Reads(G, d, m, x) = Reads(F, c, m, x)
                            /\ L2!Cached(d, x) <=> L2!Cached(c, x)
                            /\ CleanIn(F, c, x) => CleanIn(G, d, x)
<1> DEFINE d == L2!Put(c, n.line, w, L2!DirtyLine(n.line, n.data))
           old == c[L2!SetIndex(n.line)][w]
<1>1. n \in LineOf(LS) /\ n.line \in LS /\ n = L2!DirtyLine(n.line, n.data) /\ Behind(LS, c, m)
  BY DEF Sound, LineOf, L2!DirtyLine
<1>2. old # None /\ old.line = n.line
  BY DEF L2!Holds
<1>3. /\ Behind(LS, d, m) /\ L2!Cached(d, n.line) /\ L2!CopyOf(d, n.line) = n
      /\ \A x \in LS : x # n.line =>
           /\ L2!Cached(d, x) <=> L2!Cached(c, x) /\ (old = None \/ old.line # x)
           /\ L2!Cached(d, x) => L2!CopyOf(d, x) = L2!CopyOf(c, x)
  <2>1. d = L2!Put(c, n.line, w, n)
    BY <1>1
  <2> HIDE DEF d
  <2>2. QED
    BY <1>1, <2>1, PutBehind
<1> HIDE DEF d, old
<1>4. \A x \in LS : /\ L2!Cached(d, x) <=> L2!Cached(c, x)
                    /\ x # n.line /\ L2!Cached(d, x) => L2!CopyOf(d, x) = L2!CopyOf(c, x)
  <2>1. L2!Cached(c, n.line)
    BY DEF L2!Cached
  <2>2. QED
    BY <2>1, <1>2, <1>3
<1>5. Sound(LS, G, d, m)
  <2>1. G \subseteq LineOf(LS) /\ \A j, k \in G : j.line = k.line => j = k
    BY DEF Sound
  <2>2. ASSUME NEW k \in G
        PROVE  L2!Cached(d, k.line) /\ (~k.dirty => k.data = L2!CopyOf(d, k.line).data)
    <3>1. k \in F /\ k.line \in LS /\ L2!Cached(c, k.line)
          /\ (~k.dirty => k.data = L2!CopyOf(c, k.line).data)
          /\ (k.line = n.line => k = n)
      BY DEF Sound, LineOf
    <3>2. QED
      BY <3>1, <1>3, <1>4
  <2>3. QED
    BY <1>3, <2>1, <2>2 DEF Sound
<1>6. ASSUME NEW x \in LS
      PROVE  Reads(G, d, m, x) = Reads(F, c, m, x)
  <2>1. CASE \E k \in G : k.line = x
    BY <2>1, <1>5, ReadsFront
  <2>2. CASE x = n.line /\ ~ \E k \in G : k.line = x
    <3>1. Reads(F, c, m, x) = n.data
      BY <2>2, ReadsFront
    <3>2. Reads(G, d, m, x) = n.data
      BY <2>2, <1>3, ReadsBehind
    <3>3. QED
      BY <3>1, <3>2
  <2>3. CASE x # n.line /\ ~ \E k \in G : k.line = x
    <3>1. ~ \E k \in F : k.line = x
      BY <2>3
    <3>2. QED
      BY <2>3, <3>1, <1>4, ReadsBehind
  <2>4. QED
    BY <2>1, <2>2, <2>3
<1>7. ASSUME NEW x \in LS, CleanIn(F, c, x)
      PROVE  CleanIn(G, d, x)
  <2>1. x # n.line
    BY <1>7 DEF CleanIn
  <2>2. QED
    BY <2>1, <1>4, <1>7 DEF CleanIn
<1>8. QED
  BY <1>4, <1>5, <1>6, <1>7 DEF d

\* A clean copy is dropped.
LEMMA RetireClean ==
    ASSUME NEW LS \in SUBSET Line, NEW F, NEW c, NEW m, Sound(LS, F, c, m),
           NEW n \in F, ~n.dirty, NEW G, F \ {n} \subseteq G, G \subseteq F
    PROVE  /\ Sound(LS, G, c, m)
           /\ \A x \in LS : /\ Reads(G, c, m, x) = Reads(F, c, m, x)
                            /\ CleanIn(F, c, x) => CleanIn(G, c, x)
<1>1. Sound(LS, G, c, m)
  BY DEF Sound
<1>2. ASSUME NEW x \in LS
      PROVE  Reads(G, c, m, x) = Reads(F, c, m, x)
  <2>1. CASE \E k \in G : k.line = x
    BY <2>1, <1>1, ReadsFront
  <2>2. CASE x = n.line /\ ~ \E k \in G : k.line = x
    <3>1. Reads(F, c, m, x) = n.data
      BY <2>2, ReadsFront
    <3>2. L2!Cached(c, x) /\ n.data = L2!CopyOf(c, x).data
      BY <2>2 DEF Sound
    <3>3. Reads(G, c, m, x) = n.data
      BY <2>2, <3>2, ReadsBehind
    <3>4. QED
      BY <3>1, <3>3
  <2>3. CASE x # n.line /\ ~ \E k \in G : k.line = x
    <3>1. ~ \E k \in F : k.line = x
      BY <2>3
    <3>2. QED
      BY <2>3, <3>1, ReadsBehind
  <2>4. QED
    BY <2>1, <2>2, <2>3
<1>3. \A x \in LS : CleanIn(F, c, x) => CleanIn(G, c, x)
  BY DEF CleanIn
<1>4. QED
  BY <1>1, <1>2, <1>3

\* The state of a hierarchy, a record with the fields of the L2 and others.
Shape(h) ==
    /\ {"l2", "used2", "mem"} \subseteq DOMAIN h
    /\ h = [f \in DOMAIN h |-> h[f]]
    /\ h.used2 \in L2!Ranks

Fit(LS, F, h) == Shape(h) /\ Sound(LS, F, h.l2, h.mem)

\* r differs from h behind the cache in front only.
SameFront(h, r) ==
    /\ DOMAIN r = DOMAIN h
    /\ \A f \in DOMAIN h \ {"l2", "used2", "mem"} : r[f] = h[f]

\* From h, with copies F in front, to r, with copies G, line x stays clean if
\* it is, and then the memory is not written at it.
StaysClean(F, h, G, r, x) ==
    CleanIn(F, h.l2, x) => CleanIn(G, r.l2, x) /\ r.mem[x] = h.mem[x]

\* From h to r no line is read differently, the L2 has the lines it had, and a
\* clean line stays so.
Quiet(LS, F, h, G, r) ==
    \A x \in LS : /\ Reads(G, r.l2, r.mem, x) = Reads(F, h.l2, h.mem, x)
                  /\ L2!Cached(r.l2, x) <=> L2!Cached(h.l2, x)
                  /\ StaysClean(F, h, G, r, x)

\* The L2 with its way w free for line l: what was there is in the memory, and
\* at most another copy of it is there again.
Room(LS, h, e, l, w) ==
    LET s == L2!SetIndex(l)
        old == h.l2[s][w]
    IN  /\ Shape(e)
        /\ e.mem = L2!WriteBack(h.mem, old)
        /\ e.l2 \in ArrayFor(L2Sets, L2Ways, LS)
        /\ \A t \in 0..(L2Sets - 1), v \in 0..(L2Ways - 1) :
            <<t, v>> # <<s, w>> => e.l2[t][v] = h.l2[t][v]
        /\ e.l2[s][w] # None => old # None /\ e.l2[s][w].line = old.line

\* One slot of an array is changed.
LEMMA WithType ==
    ASSUME NEW N, NEW W, NEW LS, NEW c \in ArrayFor(N, W, LS),
           NEW s \in 0..(N - 1), NEW w \in 0..(W - 1), NEW n \in LineOf(LS) \cup {None}
    PROVE  /\ With(c, s, w, n) \in ArrayFor(N, W, LS)
           /\ With(c, s, w, n)[s][w] = n
           /\ \A t \in 0..(N - 1), v \in 0..(W - 1) :
                 <<t, v>> # <<s, w>> => With(c, s, w, n)[t][v] = c[t][v]
BY DEF ArrayFor, With

\* Touching a way of the L2 keeps its ranks well formed.
LEMMA L2TouchType ==
    ASSUME NEW r \in L2!Ranks, NEW l \in Line, NEW w \in L2!Ways
    PROVE  L2!Touch(r, L2!SetIndex(l), w) \in L2!Ranks
<1> DEFINE s == L2!SetIndex(l)
<1>1. s \in 0..(L2Sets - 1) /\ w \in 0..(L2Ways - 1) /\ r \in RanksFor(L2Sets, L2Ways)
  BY Geometry DEF L2!Ranks, RanksFor
<1>2. L2Sets \in Nat \ {0} /\ L2Ways \in Nat \ {0}
  BY HierarchyAssumption
<1> HIDE DEF s
<1>3. Touched(L2Ways, r, s, w) \in RanksFor(L2Sets, L2Ways)
  BY <1>1, <1>2, TouchType
<1>4. QED
  BY <1>3, Geometry DEF L2!Touch, L2!Ranks, Touched, RanksFor, s

\* Emptying a way of the L2 changes no other.
LEMMA L2Drop ==
    ASSUME NEW LS \in SUBSET Line, NEW c, NEW m, Behind(LS, c, m),
           NEW l \in LS, NEW w \in L2!Ways
    PROVE  LET d == L2!Drop(c, l, w)
               s == L2!SetIndex(l)
           IN  /\ d \in ArrayFor(L2Sets, L2Ways, LS) /\ d[s][w] = None
               /\ \A t \in 0..(L2Sets - 1), v \in 0..(L2Ways - 1) :
                     <<t, v>> # <<s, w>> => d[t][v] = c[t][v]
<1> DEFINE s == L2!SetIndex(l)
           d == L2!Drop(c, l, w)
<1>1. s \in 0..(L2Sets - 1) /\ w \in 0..(L2Ways - 1)
  BY Geometry
<1>2. c \in ArrayFor(L2Sets, L2Ways, LS) /\ Filed(L2Sets, L2Ways, c)
  BY DEF Behind
<1>4. d = With(c, s, w, None)
  BY DEF L2!Drop, With
<1> HIDE DEF d, s
<1>5. d \in ArrayFor(L2Sets, L2Ways, LS) /\ d[s][w] = None
      /\ \A t \in 0..(L2Sets - 1), v \in 0..(L2Ways - 1) :
            <<t, v>> # <<s, w>> => d[t][v] = c[t][v]
  BY <1>1, <1>2, <1>4, WithType
<1>6. QED
  BY <1>5 DEF d, s

\* Placing a line in the L2 changes its array and ranks only.
LEMMA PlaceFields ==
    ASSUME NEW h, Shape(h), NEW l \in Line, NEW w \in L2!Ways, NEW n
    PROVE  LET r == L2!Place(h, l, w, n) IN
           /\ Shape(r) /\ SameFront(h, r)
           /\ r.l2 = L2!Put(h.l2, l, w, n)
           /\ r.mem = h.mem
<1> DEFINE u == L2!Touch(h.used2, L2!SetIndex(l), w)
           r == L2!Place(h, l, w, n)
<1>1. r = [[h EXCEPT !.l2 = L2!Put(@, l, w, n)] EXCEPT !.used2 = u]
  BY DEF L2!Place, Shape
<1>2. u \in L2!Ranks
  BY L2TouchType DEF Shape
<1> HIDE DEF u
<1>3. QED
  BY <1>1, <1>2 DEF Shape, SameFront

\* A store of a dirty copy that the L2 has a line for.
LEMMA StoreFields ==
    ASSUME NEW LS \in SUBSET Line, NEW h, Shape(h), Behind(LS, h.l2, h.mem),
           NEW l \in LS, NEW d
    PROVE  LET w == IF L2!Cached(h.l2, l) THEN L2!HitWayOf(h, l) ELSE L2!VictimWay(h, l)
               r == L2!StoreWithRoom(h, l, d)
           IN  /\ w \in L2!Ways
               /\ r = L2!Place(h, l, w, L2!DirtyLine(l, d))
               /\ Shape(r) /\ SameFront(h, r)
               /\ r.l2 = L2!Put(h.l2, l, w, L2!DirtyLine(l, d))
               /\ r.mem = h.mem
<1> DEFINE w == IF L2!Cached(h.l2, l) THEN L2!HitWayOf(h, l) ELSE L2!VictimWay(h, l)
<1>1. w \in L2!Ways
  BY HitWayHolds, VictimExists DEF Shape
<1>2. L2!StoreWithRoom(h, l, d) = L2!Place(h, l, w, L2!DirtyLine(l, d))
  BY DEF L2!StoreWithRoom
<1> HIDE DEF w
<1>3. QED
  BY <1>1, <1>2, PlaceFields DEF w

\* A copy leaves the front, written back when it is dirty.
LEMMA Retire ==
    ASSUME NEW LS \in SUBSET Line, NEW F, NEW h, Fit(LS, F, h),
           NEW n \in F, NEW G, F \ {n} \subseteq G, G \subseteq F
    PROVE  LET r == IF n.dirty THEN L2!StoreWithRoom(h, n.line, n.data) ELSE h IN
           Fit(LS, G, r) /\ SameFront(h, r) /\ Quiet(LS, F, h, G, r)
<1>1. n.line \in LS /\ L2!Cached(h.l2, n.line) /\ Behind(LS, h.l2, h.mem)
  BY DEF Fit, Sound, LineOf
<1>2. CASE n.dirty
  <2> DEFINE w == L2!HitWayOf(h, n.line)
             r == L2!StoreWithRoom(h, n.line, n.data)
  <2>1. w \in L2!Ways /\ L2!Holds(h.l2, n.line, w)
    BY <1>1, HitWayHolds
  <2>2. /\ Shape(r) /\ SameFront(h, r) /\ r.mem = h.mem
        /\ r.l2 = L2!Put(h.l2, n.line, w, L2!DirtyLine(n.line, n.data))
    BY <1>1, StoreFields DEF Fit
  <2> HIDE DEF w, r
  <2>3. /\ Sound(LS, G, r.l2, r.mem)
        /\ \A x \in LS : /\ Reads(G, r.l2, r.mem, x) = Reads(F, h.l2, h.mem, x)
                         /\ L2!Cached(r.l2, x) <=> L2!Cached(h.l2, x)
                         /\ CleanIn(F, h.l2, x) => CleanIn(G, r.l2, x)
    <3> DEFINE d == L2!Put(h.l2, n.line, w, L2!DirtyLine(n.line, n.data))
    <3>1. Sound(LS, F, h.l2, h.mem)
      BY DEF Fit
    <3>2. /\ Sound(LS, G, d, h.mem)
          /\ \A x \in LS : /\ Reads(G, d, h.mem, x) = Reads(F, h.l2, h.mem, x)
                           /\ L2!Cached(d, x) <=> L2!Cached(h.l2, x)
                           /\ CleanIn(F, h.l2, x) => CleanIn(G, d, x)
      BY <1>2, <2>1, <3>1, RetireDirty
    <3> HIDE DEF d
    <3>3. r.l2 = d /\ r.mem = h.mem
      BY <2>2 DEF d
    <3>4. QED
      BY <3>2, <3>3
  <2>4. QED
    BY <1>2, <2>2, <2>3 DEF Fit, Quiet, StaysClean, r
<1>3. CASE ~n.dirty
  BY <1>3, RetireClean DEF Fit, Quiet, StaysClean, SameFront
<1>4. QED
  BY <1>2, <1>3

\* The L2 answers from its own copy.
LEMMA Reload ==
    ASSUME NEW LS \in SUBSET Line, NEW F, NEW h, Fit(LS, F, h),
           NEW l \in LS, L2!Cached(h.l2, l)
    PROVE  LET r == L2!Place(h, l, L2!HitWayOf(h, l), L2!CopyOf(h.l2, l)) IN
           Fit(LS, F, r) /\ SameFront(h, r) /\ Quiet(LS, F, h, F, r)
<1> DEFINE w == L2!HitWayOf(h, l)
           n == L2!CopyOf(h.l2, l)
           r == L2!Place(h, l, w, n)
<1>1. w \in L2!Ways /\ h.l2[L2!SetIndex(l)][w] = n
  BY HitWayHolds DEF Fit, Sound
<1> HIDE DEF w, n
<1>2. /\ Shape(r) /\ SameFront(h, r) /\ r.l2 = L2!Put(h.l2, l, w, n) /\ r.mem = h.mem
  BY <1>1, PlaceFields DEF Fit
<1>3. L2!Put(h.l2, l, w, n) = h.l2
  <2>1. L2!SetIndex(l) \in 0..(L2Sets - 1) /\ w \in 0..(L2Ways - 1)
    BY <1>1, Geometry
  <2>2. h.l2 \in ArrayFor(L2Sets, L2Ways, LS)
    BY DEF Fit, Sound, Behind
  <2>3. QED
    BY <1>1, <2>1, <2>2 DEF L2!Put, ArrayFor
<1>4. QED
  BY <1>2, <1>3 DEF Fit, Quiet, StaysClean, w, n

\* The L2 has taken a line out, and written it back if it was dirty.
LEMMA RoomStart ==
    ASSUME NEW LS \in SUBSET Line, NEW h, Shape(h), Behind(LS, h.l2, h.mem),
           NEW l \in LS, NEW w \in L2!Ways
    PROVE  LET e == [h EXCEPT !.l2 = L2!Drop(@, l, w),
                              !.mem = L2!WriteBack(@, h.l2[L2!SetIndex(l)][w])]
           IN  Room(LS, h, e, l, w) /\ SameFront(h, e)
<1> DEFINE s == L2!SetIndex(l)
           d == L2!Drop(h.l2, l, w)
           m == L2!WriteBack(h.mem, h.l2[s][w])
           e == [[h EXCEPT !.l2 = d] EXCEPT !.mem = m]
<1>1. s \in 0..(L2Sets - 1) /\ w \in 0..(L2Ways - 1)
  BY Geometry
<1>2. /\ d \in ArrayFor(L2Sets, L2Ways, LS) /\ d[s][w] = None
      /\ \A t \in 0..(L2Sets - 1), v \in 0..(L2Ways - 1) :
            <<t, v>> # <<s, w>> => d[t][v] = h.l2[t][v]
  BY L2Drop
<1> HIDE DEF d, m
<1>3. Shape(e) /\ SameFront(h, e) /\ e.l2 = d /\ e.mem = m
  BY DEF Shape, SameFront
<1>4. Room(LS, h, e, l, w)
  BY <1>2, <1>3 DEF Room, m
<1>5. QED
  BY <1>3, <1>4 DEF d, m

\* The listener's store of the line that was taken out goes where it was: the
\* L2 empties a way only when all the ways of the set are in use.
LEMMA RoomStore ==
    ASSUME NEW LS \in SUBSET Line, NEW h, Behind(LS, h.l2, h.mem),
           NEW l \in LS, NEW w \in L2!Ways,
           L2!Victim(h.l2, h.used2, L2!SetIndex(l), w),
           NEW e, Room(LS, h, e, l, w),
           h.l2[L2!SetIndex(l)][w] # None,
           NEW d \in Data
    PROVE  LET r == L2!StoreWithRoom(e, h.l2[L2!SetIndex(l)][w].line, d) IN
           Room(LS, h, r, l, w) /\ SameFront(e, r)
<1> DEFINE s == L2!SetIndex(l)
           k == h.l2[s][w].line
           n == L2!DirtyLine(k, d)
           v == IF L2!Cached(e.l2, k) THEN L2!HitWayOf(e, k) ELSE L2!VictimWay(e, k)
           r == L2!StoreWithRoom(e, k, d)
<1>1. s \in 0..(L2Sets - 1) /\ w \in 0..(L2Ways - 1) /\ L2!Ways = 0..(L2Ways - 1)
  BY Geometry
<1>2. k \in LS /\ L2!SetIndex(k) = s
  <2> DEFINE c == h.l2
  <2>4. c \in ArrayFor(L2Sets, L2Ways, LS) /\ c[s][w] # None
    BY DEF Behind
  <2> HIDE DEF c, s
  <2>5. c[s][w] \in LineOf(LS)
    BY <1>1, <2>4 DEF ArrayFor
  <2>1. h.l2[s][w] \in LineOf(LS)
    BY <2>5 DEF c
  <2>2. s = k % L2Sets
    <3>1. Filed(L2Sets, L2Ways, c)
      BY DEF Behind, c
    <3>2. s = c[s][w].line % L2Sets
      BY <1>1, <2>4, <3>1 DEF Filed
    <3>3. QED
      BY <3>2 DEF c
  <2>3. QED
    BY <2>1, <2>2 DEF LineOf, L2!SetIndex
<1>3. \A u \in L2!Ways : u # w => e.l2[s][u] # None /\ e.l2[s][u].line # k
  <2>1. \A u \in L2!Ways : h.l2[s][u] # None
    BY DEF L2!Victim, L2!FirstEmpty, L2!LeastRecent
  <2>2. QED
    BY <1>1, <2>1 DEF Room, Behind, Filed
<1> HIDE DEF s, k
<1>4. v = w
  <2>1. CASE L2!Cached(e.l2, k)
    <3>1. PICK u \in L2!Ways : L2!Holds(e.l2, k, u)
      BY <2>1 DEF L2!Cached
    <3>2. \A z \in L2!Ways : L2!Holds(e.l2, k, z) => z = w
      BY <1>2, <1>3 DEF L2!Holds
    <3>3. L2!HitWay(e.l2, k, w)
      <4>1. \A z \in 0..(w - 1) : z \in L2!Ways /\ z # w
        BY <1>1, HierarchyAssumption
      <4>2. QED
        BY <3>1, <3>2, <4>1 DEF L2!HitWay
    <3>4. \A z \in L2!Ways : L2!HitWay(e.l2, k, z) => z = w
      BY <3>2 DEF L2!HitWay
    <3>5. QED
      BY <2>1, <3>3, <3>4 DEF L2!HitWayOf
  <2>2. CASE ~L2!Cached(e.l2, k)
    <3>1. e.l2[s][w] = None
      BY <2>2, <1>2, <1>1 DEF Room, L2!Cached, L2!Holds, s, k
    <3>2. \A z \in L2!Ways : L2!Victim(e.l2, e.used2, s, z) => z = w
      BY <3>1, <1>3 DEF L2!Victim, L2!FirstEmpty, L2!LeastRecent
    <3>3. L2!VictimWay(e, k) \in L2!Ways /\ L2!Victim(e.l2, e.used2, s, L2!VictimWay(e, k))
      BY <1>2, VictimExists DEF Room, Shape
    <3>4. QED
      BY <2>2, <3>2, <3>3
  <2>3. QED
    BY <2>1, <2>2
<1>5. /\ r = L2!Place(e, k, w, n)
  BY <1>4 DEF L2!StoreWithRoom
<1> HIDE DEF v, r
<1>6. Shape(r) /\ SameFront(e, r) /\ r.l2 = L2!Put(e.l2, k, w, n) /\ r.mem = e.mem
  BY <1>2, <1>5, PlaceFields DEF Room
<1>7. n \in LineOf(LS) /\ n.line = k
  BY <1>2 DEF LineOf, L2!DirtyLine
<1>8. /\ r.l2 \in ArrayFor(L2Sets, L2Ways, LS) /\ r.l2[s][w] = n
      /\ \A t \in 0..(L2Sets - 1), u \in 0..(L2Ways - 1) :
            <<t, u>> # <<s, w>> => r.l2[t][u] = e.l2[t][u]
  <2>1. r.l2 = With(e.l2, s, w, n)
    BY <1>2, <1>6 DEF L2!Put, With
  <2>2. e.l2 \in ArrayFor(L2Sets, L2Ways, LS) /\ s \in 0..(L2Sets - 1)
    BY <1>1 DEF Room, s
  <2> HIDE DEF n
  <2>3. QED
    BY <2>1, <2>2, <1>1, <1>7, WithType
<1>9. Room(LS, h, r, l, w)
  BY <1>6, <1>7, <1>8 DEF Room, s, k
<1>10. QED
  BY <1>6, <1>9 DEF r, k, s

\* From h to r no line is read differently but one that the L2 has given up
\* while its copy in front was dirty, and a clean line stays so.
Kept(LS, F, h, G, r) ==
    \A x \in LS :
        /\ \/ Reads(G, r.l2, r.mem, x) = Reads(F, h.l2, h.mem, x)
           \/ (\E n \in F : n.line = x /\ n.dirty) /\ ~L2!Cached(r.l2, x)
        /\ StaysClean(F, h, G, r, x)

\* What a slot of an array holds is a line.
LEMMA SlotIn ==
    ASSUME NEW N, NEW W, NEW LS, NEW c \in ArrayFor(N, W, LS),
           NEW s \in 0..(N - 1), NEW w \in 0..(W - 1), c[s][w] # None
    PROVE  /\ c[s][w] \in LineOf(LS) /\ c[s][w].line \in LS
           /\ c[s][w].data \in Data /\ c[s][w].dirty \in BOOLEAN
<1>1. c[s][w] \in LineOf(LS)
  <2>1. c[s] \in [0..(W - 1) -> LineOf(LS) \cup {None}]
    BY DEF ArrayFor
  <2>2. QED
    BY <2>1
<1> DEFINE n == c[s][w]
<1>2. n \in LineOf(LS)
  BY <1>1
<1> HIDE DEF n
<1>3. n.line \in LS /\ n.data \in Data /\ n.dirty \in BOOLEAN
  BY <1>2 DEF LineOf
<1>4. QED
  BY <1>2, <1>3 DEF n

\* The L2 with a dirty line written back.
LEMMA WriteBackBehind ==
    ASSUME NEW LS \in SUBSET Line, NEW c, NEW m, Behind(LS, c, m),
           NEW s \in 0..(L2Sets - 1), NEW w \in 0..(L2Ways - 1)
    PROVE  LET p == L2!WriteBack(m, c[s][w]) IN
           /\ Behind(LS, c, p)
           /\ c[s][w] # None => p[c[s][w].line] = c[s][w].data
           /\ \A x \in LS : c[s][w] = None \/ x # c[s][w].line => p[x] = m[x]
<1> DEFINE old == c[s][w]
           p == L2!WriteBack(m, old)
<1>1. old \in LineOf(LS) \cup {None} /\ m \in [LS -> Data]
  BY DEF Behind, ArrayFor
<1>2. old # None => old.line \in LS /\ old.data \in Data /\ old.dirty \in BOOLEAN
  BY <1>1 DEF LineOf
<1>3. p \in [LS -> Data] /\ \A x \in LS : old = None \/ x # old.line => p[x] = m[x]
  BY <1>1, <1>2 DEF L2!WriteBack
<1>4. old # None => p[old.line] = old.data
  <2>1. CASE old.dirty
    BY <2>1, <1>1, <1>2 DEF L2!WriteBack
  <2>2. CASE ~old.dirty
    BY <2>2 DEF Behind, L2!WriteBack
  <2>3. QED
    BY <2>1, <2>2
<1> HIDE DEF p
<1>5. ASSUME NEW t \in 0..(L2Sets - 1), NEW v \in 0..(L2Ways - 1),
             c[t][v] # None, ~c[t][v].dirty
      PROVE  c[t][v].data = p[c[t][v].line]
  <2>1. c[t][v] \in LineOf(LS) /\ c[t][v].line \in LS
    BY <1>5, SlotIn DEF Behind
  <2>2. CASE old # None /\ c[t][v].line = old.line
    <3>1. t = s
      BY <2>2, <1>5 DEF Behind, Filed
    <3>2. v = w
      BY <2>2, <3>1, <1>5 DEF Behind, Filed
    <3>3. QED
      BY <2>2, <3>1, <3>2, <1>4
  <2>3. CASE old = None \/ c[t][v].line # old.line
    BY <2>1, <2>3, <1>3, <1>5 DEF Behind
  <2>4. QED
    BY <2>2, <2>3
<1>6. Behind(LS, c, p)
  BY <1>3, <1>5 DEF Behind
<1>7. QED
  BY <1>3, <1>4, <1>6 DEF p

\* Two arrays with the same slots are one array.
LEMMA SameArray ==
    ASSUME NEW N, NEW W, NEW LS, NEW c \in ArrayFor(N, W, LS), NEW d \in ArrayFor(N, W, LS),
           \A s \in 0..(N - 1), w \in 0..(W - 1) : c[s][w] = d[s][w]
    PROVE  c = d
<1>1. /\ DOMAIN c = 0..(N - 1) /\ c = [s \in DOMAIN c |-> c[s]]
      /\ DOMAIN d = 0..(N - 1) /\ d = [s \in DOMAIN d |-> d[s]]
      /\ \A s \in 0..(N - 1) :
            /\ DOMAIN c[s] = 0..(W - 1) /\ c[s] = [w \in DOMAIN c[s] |-> c[s][w]]
            /\ DOMAIN d[s] = 0..(W - 1) /\ d[s] = [w \in DOMAIN d[s] |-> d[s][w]]
  BY DEF ArrayFor
<1>2. ASSUME NEW s \in 0..(N - 1)
      PROVE  c[s] = d[s]
  <2> DEFINE a == c[s]
             b == d[s]
  <2>1. /\ DOMAIN a = 0..(W - 1) /\ a = [w \in DOMAIN a |-> a[w]]
        /\ DOMAIN b = 0..(W - 1) /\ b = [w \in DOMAIN b |-> b[w]]
        /\ \A w \in 0..(W - 1) : a[w] = b[w]
    BY <1>1
  <2> HIDE DEF a, b
  <2>2. a = b
    BY <2>1
  <2>3. QED
    BY <2>2 DEF a, b
<1>3. QED
  BY <1>1, <1>2

\* The L2, with room made, puts the line into the freed way.
LEMMA RoomTaken ==
    ASSUME NEW LS \in SUBSET Line, NEW h, Behind(LS, h.l2, h.mem),
           NEW l \in LS, NEW w \in L2!Ways, NEW e, Room(LS, h, e, l, w),
           NEW n \in LineOf(LS)
    PROVE  LET r == L2!Place(e, l, w, n) IN
           /\ Shape(r) /\ SameFront(e, r) /\ r.mem = e.mem
           /\ r.l2 = L2!Put(h.l2, l, w, n)
<1> DEFINE s == L2!SetIndex(l)
           c == h.l2
           d == e.l2
           r == L2!Place(e, l, w, n)
<1>1. Shape(r) /\ SameFront(e, r) /\ r.mem = e.mem /\ r.l2 = L2!Put(d, l, w, n)
  BY PlaceFields DEF Room
<1>2. s \in 0..(L2Sets - 1) /\ w \in 0..(L2Ways - 1)
  BY Geometry
<1>3. /\ c \in ArrayFor(L2Sets, L2Ways, LS) /\ d \in ArrayFor(L2Sets, L2Ways, LS)
      /\ \A t \in 0..(L2Sets - 1), v \in 0..(L2Ways - 1) :
            <<t, v>> # <<s, w>> => d[t][v] = c[t][v]
  BY DEF Behind, Room
<1> HIDE DEF c, d, s
<1>4. With(c, s, w, n) = With(d, s, w, n)
  <2>1. /\ With(c, s, w, n) \in ArrayFor(L2Sets, L2Ways, LS)
        /\ With(c, s, w, n)[s][w] = n
        /\ \A t \in 0..(L2Sets - 1), v \in 0..(L2Ways - 1) :
              <<t, v>> # <<s, w>> => With(c, s, w, n)[t][v] = c[t][v]
    BY <1>2, <1>3, WithType
  <2>2. /\ With(d, s, w, n) \in ArrayFor(L2Sets, L2Ways, LS)
        /\ With(d, s, w, n)[s][w] = n
        /\ \A t \in 0..(L2Sets - 1), v \in 0..(L2Ways - 1) :
              <<t, v>> # <<s, w>> => With(d, s, w, n)[t][v] = d[t][v]
    BY <1>2, <1>3, WithType
  <2>3. \A t \in 0..(L2Sets - 1), v \in 0..(L2Ways - 1) :
            With(c, s, w, n)[t][v] = With(d, s, w, n)[t][v]
    BY <2>1, <2>2, <1>3
  <2>4. QED
    BY <2>1, <2>2, <2>3, SameArray
<1>5. L2!Put(c, l, w, n) = With(c, s, w, n) /\ L2!Put(d, l, w, n) = With(d, s, w, n)
  BY DEF L2!Put, With, s
<1>6. QED
  BY <1>1, <1>4, <1>5 DEF c, d

\* The L2 misses line l and reads it from the memory, after it has taken a line
\* out of its way w, of which the cache in front then has no copy.
LEMMA Refill ==
    ASSUME NEW LS \in SUBSET Line, NEW F, NEW h, Fit(LS, F, h),
           NEW l \in LS, ~L2!Cached(h.l2, l), NEW w \in L2!Ways,
           NEW e, Room(LS, h, e, l, w), NEW G, G \subseteq F,
           LET old == h.l2[L2!SetIndex(l)][w]
           IN  \A n \in F : n \in G <=> old = None \/ n.line # old.line
    PROVE  LET r == L2!Place(e, l, w, L2!NewLine(l, e.mem[l])) IN
           /\ Fit(LS, G, r) /\ SameFront(e, r)
           /\ Kept(LS, F, h, G, r)
           /\ L2!Cached(r.l2, l)
<1> DEFINE s == L2!SetIndex(l)
           c == h.l2
           m == h.mem
           old == c[s][w]
           p == L2!WriteBack(m, old)
           n == L2!NewLine(l, p[l])
           r == L2!Place(e, l, w, L2!NewLine(l, e.mem[l]))
           d == L2!Put(c, l, w, n)
<1>1. s \in 0..(L2Sets - 1) /\ w \in 0..(L2Ways - 1)
  BY Geometry
<1>2. Sound(LS, F, c, m) /\ Behind(LS, c, m) /\ e.mem = p
  BY DEF Fit, Sound, Room
<1>3. \A x \in F : x \in G <=> old = None \/ x.line # old.line
  OBVIOUS
<1> HIDE DEF s, old, c, m
<1>4. /\ Behind(LS, c, p)
      /\ old # None => p[old.line] = old.data
      /\ \A x \in LS : old = None \/ x # old.line => p[x] = m[x]
  <2>1. /\ Behind(LS, c, L2!WriteBack(m, c[s][w]))
        /\ c[s][w] # None => L2!WriteBack(m, c[s][w])[c[s][w].line] = c[s][w].data
        /\ \A x \in LS :
              c[s][w] = None \/ x # c[s][w].line => L2!WriteBack(m, c[s][w])[x] = m[x]
    BY <1>1, <1>2, WriteBackBehind
  <2>2. QED
    BY <2>1 DEF old
<1> HIDE DEF p
<1>5. n \in LineOf(LS) /\ n.line = l /\ ~n.dirty /\ n.data = p[l]
  BY <1>4 DEF LineOf, Behind, L2!NewLine
<1> HIDE DEF n
<1>6. Shape(r) /\ SameFront(e, r) /\ r.mem = p /\ r.l2 = d
  <2>1. r = L2!Place(e, l, w, n)
    BY <1>2 DEF n
  <2> HIDE DEF r
  <2>2. QED
    BY <1>2, <1>5, <2>1, RoomTaken DEF c, m
<1>7. /\ Behind(LS, d, p)
      /\ L2!Cached(d, l) /\ L2!CopyOf(d, l) = n
      /\ \A x \in LS : x # l =>
           /\ L2!Cached(d, x) <=> L2!Cached(c, x) /\ (old = None \/ old.line # x)
           /\ L2!Cached(d, x) => L2!CopyOf(d, x) = L2!CopyOf(c, x)
  <2>1. ~L2!Cached(c, l) /\ d = L2!Put(c, n.line, w, n) /\ old = c[L2!SetIndex(n.line)][w]
    BY <1>5 DEF c, old, s
  <2> HIDE DEF d
  <2>2. QED
    BY <1>4, <1>5, <2>1, PutBehind
<1> HIDE DEF r, d
<1>8. /\ ~L2!Cached(c, l)
      /\ old # None => /\ old.line \in LS /\ old.line # l
                       /\ L2!Cached(c, old.line) /\ L2!CopyOf(c, old.line) = old
  <2>1. ~L2!Cached(c, l)
    BY DEF c
  <2>2. ASSUME old # None
        PROVE  /\ old.line \in LS /\ L2!Cached(c, old.line) /\ L2!CopyOf(c, old.line) = old
    <3>1. old \in LineOf(LS) /\ s = old.line % L2Sets
      <4>1. c[s][w] # None /\ c \in ArrayFor(L2Sets, L2Ways, LS)
            /\ Filed(L2Sets, L2Ways, c)
        BY <1>2, <2>2 DEF Behind, old
      <4>2. c[s][w] \in LineOf(LS)
        BY <1>1, <4>1, SlotIn
      <4>3. s = c[s][w].line % L2Sets
        BY <1>1, <4>1 DEF Filed
      <4>4. QED
        BY <4>2, <4>3 DEF old
    <3>2. old.line \in LS /\ L2!SetIndex(old.line) = s
      BY <3>1 DEF LineOf, L2!SetIndex
    <3>3. L2!Holds(c, old.line, w)
      BY <3>2, <2>2 DEF L2!Holds, old
    <3>4. QED
      BY <3>2, <3>3, <1>2, Found DEF old
  <2>3. QED
    BY <2>1, <2>2
<1>9. Sound(LS, G, d, p)
  <2>1. G \subseteq LineOf(LS) /\ \A j, k \in G : j.line = k.line => j = k
    BY <1>2 DEF Sound
  <2>2. ASSUME NEW k \in G
        PROVE  L2!Cached(d, k.line) /\ (~k.dirty => k.data = L2!CopyOf(d, k.line).data)
    <3>1. k \in F /\ k.line \in LS /\ L2!Cached(c, k.line)
          /\ (~k.dirty => k.data = L2!CopyOf(c, k.line).data)
      BY <1>2 DEF Sound, LineOf
    <3>2. QED
      BY <3>1, <1>3, <1>7, <1>8
  <2>3. QED
    BY <1>7, <2>1, <2>2 DEF Sound
<1>10. ASSUME NEW x \in LS
       PROVE  \/ Reads(G, d, p, x) = Reads(F, c, m, x)
              \/ (\E k \in F : k.line = x /\ k.dirty) /\ ~L2!Cached(d, x)
  <2>1. CASE \E k \in G : k.line = x
    BY <2>1, <1>2, <1>9, ReadsFront
  <2>2. CASE (~ \E k \in G : k.line = x) /\ \E k \in F : k.line = x
    <3>1. PICK k \in F : k.line = x
      BY <2>2
    <3>2. old # None /\ x = old.line /\ x # l
      BY <2>2, <3>1, <1>3, <1>8
    <3>3. ~L2!Cached(d, x)
      BY <3>2, <1>7
    <3>4. CASE ~k.dirty
      <4>1. Reads(F, c, m, x) = old.data
        <5>1. Reads(F, c, m, x) = k.data
          BY <3>1, <1>2, ReadsFront
        <5>2. k.data = old.data
          BY <3>1, <3>2, <3>4, <1>2, <1>8 DEF Sound
        <5>3. QED
          BY <5>1, <5>2
      <4>2. Reads(G, d, p, x) = old.data
        BY <2>2, <3>2, <3>3, <1>4, ReadsBehind
      <4>3. QED
        BY <4>1, <4>2
    <3>5. QED
      BY <3>1, <3>3, <3>4
  <2>3. CASE ~ \E k \in F : k.line = x
    <3>1. /\ Reads(F, c, m, x) = IF L2!Cached(c, x) THEN L2!CopyOf(c, x).data ELSE m[x]
          /\ Reads(G, d, p, x) = IF L2!Cached(d, x) THEN L2!CopyOf(d, x).data ELSE p[x]
      BY <2>3, ReadsBehind
    <3>2. CASE x = l
      BY <3>1, <3>2, <1>4, <1>5, <1>7, <1>8
    <3>3. CASE x # l /\ old # None /\ x = old.line
      BY <3>1, <3>3, <1>4, <1>7, <1>8
    <3>4. CASE x # l /\ (old = None \/ x # old.line)
      BY <3>1, <3>4, <1>4, <1>7
    <3>5. QED
      BY <3>2, <3>3, <3>4
  <2>4. QED
    BY <2>1, <2>2, <2>3
<1>11. ASSUME NEW x \in LS, CleanIn(F, c, x)
       PROVE  CleanIn(G, d, x) /\ p[x] = m[x]
  <2>1. \A k \in G : k.line = x => ~k.dirty
    BY <1>11 DEF CleanIn
  <2>2. CASE x = l
    BY <2>1, <2>2, <1>4, <1>5, <1>7, <1>8 DEF CleanIn
  <2>3. CASE x # l
    <3>1. CleanIn(G, d, x)
      BY <2>1, <2>3, <1>7, <1>11 DEF CleanIn
    <3>2. CASE old # None /\ x = old.line
      <4>1. ~old.dirty
        BY <3>2, <1>8, <1>11 DEF CleanIn
      <4>2. old.data = m[x]
        BY <1>1, <1>2, <3>2, <4>1 DEF Behind, old
      <4>3. QED
        BY <3>1, <3>2, <4>2, <1>4
    <3>3. CASE old = None \/ x # old.line
      BY <3>1, <3>3, <1>4
    <3>4. QED
      BY <3>2, <3>3
  <2>4. QED
    BY <2>2, <2>3
<1>12. Kept(LS, F, h, G, r)
  BY <1>6, <1>10, <1>11 DEF Kept, StaysClean, c, m
<1>13. QED
  BY <1>6, <1>7, <1>9, <1>12 DEF Fit, r, d

-----------------------------------------------------------------------------
(* Part 3.  A plain L1 in front.                                           *)

\* The front puts line n for l in the place of its copies of l, a line that the
\* L2 has.
LEMMA FrontPut ==
    ASSUME NEW LS \in SUBSET Line, NEW F, NEW h, Fit(LS, F, h),
           NEW n \in LineOf(LS), L2!Cached(h.l2, n.line),
           n.dirty \/ n.data = L2!CopyOf(h.l2, n.line).data,
           NEW G, G \subseteq {k \in F : k.line # n.line} \cup {n}
    PROVE  /\ Fit(LS, G, h)
           /\ \A x \in LS : CleanIn(F, h.l2, x) /\ (x = n.line => ~n.dirty) =>
                CleanIn(G, h.l2, x)
           /\ (\A k \in F : k.line # n.line => k \in G) /\ n \in G =>
                \A x \in LS : Reads(G, h.l2, h.mem, x) =
                    IF x = n.line THEN n.data ELSE Reads(F, h.l2, h.mem, x)
<1> DEFINE c == h.l2
           m == h.mem
<1>1. Sound(LS, F, c, m)
  BY DEF Fit
<1>2. L2!Cached(c, n.line) /\ (n.dirty \/ n.data = L2!CopyOf(c, n.line).data)
  OBVIOUS
<1> HIDE DEF c, m
<1>3. Sound(LS, G, c, m)
  BY <1>1, <1>2 DEF Sound
<1>4. ASSUME \A k \in F : k.line # n.line => k \in G, n \in G, NEW x \in LS
      PROVE  Reads(G, c, m, x) = IF x = n.line THEN n.data ELSE Reads(F, c, m, x)
  <2>1. CASE x = n.line
    BY <2>1, <1>3, <1>4, ReadsFront
  <2>2. CASE x # n.line /\ \E k \in G : k.line = x
    <3>1. PICK k \in G : k.line = x
      BY <2>2
    <3>2. k \in F
      BY <3>1, <2>2
    <3>3. Reads(G, c, m, x) = k.data
      BY <3>1, <1>3, ReadsFront
    <3>4. Reads(F, c, m, x) = k.data
      BY <3>1, <3>2, <1>1, ReadsFront
    <3>5. QED
      BY <3>3, <3>4, <2>2
  <2>3. CASE x # n.line /\ ~ \E k \in G : k.line = x
    <3>1. ~ \E k \in F : k.line = x
      BY <2>3, <1>4
    <3>2. QED
      BY <2>3, <3>1, ReadsBehind
  <2>4. QED
    BY <2>1, <2>2, <2>3
<1>5. \A x \in LS : CleanIn(F, c, x) /\ (x = n.line => ~n.dirty) => CleanIn(G, c, x)
  BY DEF CleanIn
<1>6. QED
  BY <1>3, <1>4, <1>5 DEF Fit, c, m

\* What the L2 and the memory hold is all that matters of a state.
LEMMA FrontOnly ==
    ASSUME NEW LS, NEW F, NEW h, Fit(LS, F, h), NEW r, Shape(r),
           r.l2 = h.l2, r.mem = h.mem
    PROVE  Fit(LS, F, r) /\ Quiet(LS, F, h, F, r)
BY DEF Fit, Quiet, StaysClean

-----------------------------------------------------------------------------
(* The plain hierarchy.                                                    *)

Front1(h) == LinesIn(L1Sets, L1Ways, h.l1)

PlainFine(h) ==
    /\ DOMAIN h = {"l1", "used1", "l2", "used2", "mem"}
    /\ h.l1 \in ArrayFor(L1Sets, L1Ways, Line) /\ Filed(L1Sets, L1Ways, h.l1)
    /\ h.used1 \in RanksFor(L1Sets, L1Ways)
    /\ Fit(Line, Front1(h), h)

\* The L2's operators are those of MCHierarchies.
LEMMA PlainL2 ==
    /\ \A c, l : Plain!L2!Cached(c, l) = L2!Cached(c, l)
    /\ \A c, l : Plain!L2!CopyOf(c, l) = L2!CopyOf(c, l)
    /\ \A h, l : Plain!L2!HitWayOf(h, l) = L2!HitWayOf(h, l)
    /\ \A h, l : Plain!L2!VictimWay(h, l) = L2!VictimWay(h, l)
    /\ \A h, l, w, n : Plain!L2!Place(h, l, w, n) = L2!Place(h, l, w, n)
    /\ \A h, l, d : Plain!L2!StoreWithRoom(h, l, d) = L2!StoreWithRoom(h, l, d)
    /\ \A c, l, w : Plain!L2!Drop(c, l, w) = L2!Drop(c, l, w)
    /\ \A m, n : Plain!L2!WriteBack(m, n) = L2!WriteBack(m, n)
    /\ \A l, d : Plain!L2!NewLine(l, d) = L2!NewLine(l, d)
    /\ \A l : Plain!L2!SetIndex(l) = L2!SetIndex(l)
BY DEF Plain!L2!Cached, L2!Cached, Plain!L2!CopyOf, L2!CopyOf,
       Plain!L2!HitWayOf, L2!HitWayOf, Plain!L2!VictimWay, L2!VictimWay,
       Plain!L2!Place, L2!Place, Plain!L2!StoreWithRoom, L2!StoreWithRoom,
       Plain!L2!Drop, L2!Drop, Plain!L2!WriteBack, L2!WriteBack,
       Plain!L2!NewLine, L2!NewLine, Plain!L2!SetIndex, L2!SetIndex,
       Plain!L2!DirtyLine, L2!DirtyLine, Plain!L2!HitWay, L2!HitWay,
       Plain!L2!Holds, L2!Holds, Plain!L2!Ways, L2!Ways, Plain!L2!Put, L2!Put,
       Plain!L2!Touch, L2!Touch, Plain!L2!Victim, L2!Victim,
       Plain!L2!FirstEmpty, L2!FirstEmpty, Plain!L2!LeastRecent, L2!LeastRecent

\* How the L2 makes room, and how it answers.
Taken(h, l, w, old) ==
    [h EXCEPT !.l2 = L2!Drop(@, l, w), !.mem = L2!WriteBack(@, old)]

PlainTaken(h, l, w, old) ==
    [h EXCEPT !.l2 = Plain!L2!Drop(@, l, w), !.mem = Plain!L2!WriteBack(@, old)]

Answered(e, l, w) == L2!Place(e, l, w, L2!NewLine(l, e.mem[l]))

\* The L2 takes a victim out in the same way whoever is in front: here the
\* plain L1.
LEMMA PlainTakes ==
    ASSUME NEW h, NEW l, NEW w, NEW old
    PROVE  PlainTaken(h, l, w, old) = Taken(h, l, w, old)
BY DEF PlainTaken, Taken, Plain!L2!Drop, L2!Drop, Plain!L2!WriteBack,
       L2!WriteBack, Plain!L2!SetIndex, L2!SetIndex

\* The plain L1's read of a line that the L2 has.
LEMMA PlainL2Hit ==
    ASSUME NEW h, NEW l, L2!Cached(h.l2, l)
    PROVE  Plain!L2Load(h, l) = L2!Place(h, l, L2!HitWayOf(h, l), L2!CopyOf(h.l2, l))
BY PlainL2 DEF Plain!L2Load, Plain!L2!LoadLine

\* Its read of one that the L2 has not: the victim is taken out, L1 told, and
\* the line placed.
LEMMA PlainL2Miss ==
    ASSUME NEW h, NEW l, ~L2!Cached(h.l2, l)
    PROVE  LET w == L2!VictimWay(h, l)
               old == h.l2[L2!SetIndex(l)][w]
               t == Taken(h, l, w, old)
           IN  Plain!L2Load(h, l) =
                 Answered(IF old = None THEN t ELSE Plain!InvalidateL1(t, old.line), l, w)
<1> DEFINE w == Plain!L2!VictimWay(h, l)
           old == h.l2[Plain!L2!SetIndex(l)][w]
           t == PlainTaken(h, l, w, old)
           e == Plain!L2!Evict(h, l, w, Plain!InvalidateL1)
<1>1. e = IF old = None THEN t ELSE Plain!InvalidateL1(t, old.line)
  BY DEF Plain!L2!Evict, PlainTaken
<1>2. Plain!L2Load(h, l) = Plain!L2!Place(e, l, w, Plain!L2!NewLine(l, e.mem[l]))
  BY PlainL2 DEF Plain!L2Load, Plain!L2!LoadLine
<1> HIDE DEF e
<1>3. Plain!L2Load(h, l) = Answered(e, l, w)
  BY <1>2, PlainL2 DEF Answered
<1>4. w = L2!VictimWay(h, l) /\ old = h.l2[L2!SetIndex(l)][w] /\ t = Taken(h, l, w, old)
  BY PlainL2, PlainTakes
<1> HIDE DEF t, old, w
<1>5. QED
  BY <1>1, <1>3, <1>4

\* Its write-back of a line that the L2 has.
LEMMA PlainL2Store ==
    ASSUME NEW h, NEW l, NEW d, L2!Cached(h.l2, l)
    PROVE  Plain!L2Store(h, l, d) = L2!StoreWithRoom(h, l, d)
BY PlainL2 DEF Plain!L2Store, Plain!L2!StoreLine

\* Array d is array c with some of its slots emptied.
Thinned(N, W, c, d) ==
    \A s \in 0..(N - 1), w \in 0..(W - 1) : d[s][w] = c[s][w] \/ d[s][w] = None

\* The operators of the plain L1 in terms of arrays.
LEMMA PlainGeometry ==
    /\ Plain!L1!Ways = 0..(L1Ways - 1) /\ Plain!L1!Sets = 0..(L1Sets - 1)
    /\ \A l : Plain!L1!SetIndex(l) = l % L1Sets
    /\ \A c, l, w : Plain!L1!Drop(c, l, w) = With(c, l % L1Sets, w, None)
    /\ \A c, l, w, n : Plain!L1!Put(c, l, w, n) = With(c, l % L1Sets, w, n)
    /\ \A r, s, w : Plain!L1!Touch(r, s, w) = Touched(L1Ways, r, s, w)
BY DEF Plain!L1!Ways, Plain!L1!Sets, Plain!L1!SetIndex, Plain!L1!Drop,
       Plain!L1!Put, Plain!L1!Touch, With, Touched

\* A line of a set of an array is there at one way, which is found.
LEMMA HeldOnce ==
    ASSUME NEW N \in Nat \ {0}, NEW W \in Nat \ {0}, NEW LS \in SUBSET Line,
           NEW c \in ArrayFor(N, W, LS), Filed(N, W, c), NEW l \in Line,
           NEW w \in 0..(W - 1), c[l % N][w] # None, c[l % N][w].line = l
    PROVE  /\ c[l % N][w] \in LinesIn(N, W, c)
           /\ \A n \in LinesIn(N, W, c) : n.line = l => n = c[l % N][w]
           /\ \A v \in 0..(W - 1) : c[l % N][v] # None /\ c[l % N][v].line = l => v = w
           /\ \A v \in 0..(w - 1) : ~(c[l % N][v] # None /\ c[l % N][v].line = l)
<1> DEFINE s == l % N
<1>1. s \in 0..(N - 1)
  <2>1. l \in Nat
    BY HierarchyAssumption
  <2>2. QED
    BY <2>1
<1> HIDE DEF s
<1>2. c[s][w] # None /\ c[s][w].line = l
  BY DEF s
<1>3. c[s][w] \in LinesIn(N, W, c)
  BY <1>1, <1>2 DEF LinesIn
<1>4. \A v \in 0..(W - 1) : c[s][v] # None /\ c[s][v].line = l => v = w
  BY <1>1, <1>2 DEF Filed
<1>5. ASSUME NEW n \in LinesIn(N, W, c), n.line = l
      PROVE  n = c[s][w]
  <2>1. PICK t \in 0..(N - 1), v \in 0..(W - 1) : n = c[t][v] /\ n # None
    BY DEF LinesIn
  <2>2. t = s
    BY <2>1, <1>5 DEF Filed, s
  <2>3. QED
    BY <2>1, <2>2, <1>4, <1>5
<1>6. \A v \in 0..(w - 1) : v \in 0..(W - 1) /\ v # w
  OBVIOUS
<1>7. QED
  BY <1>3, <1>4, <1>5, <1>6 DEF s

\* A line that no way of its set holds is nowhere in the array.
LEMMA NotHeld ==
    ASSUME NEW N \in Nat \ {0}, NEW W \in Nat \ {0}, NEW LS \in SUBSET Line,
           NEW c \in ArrayFor(N, W, LS), Filed(N, W, c), NEW l \in Line,
           \A w \in 0..(W - 1) : ~(c[l % N][w] # None /\ c[l % N][w].line = l)
    PROVE  ~ \E n \in LinesIn(N, W, c) : n.line = l
<1>1. ASSUME NEW n \in LinesIn(N, W, c), n.line = l
      PROVE  FALSE
  <2>1. PICK t \in 0..(N - 1), v \in 0..(W - 1) : n = c[t][v] /\ n # None
    BY DEF LinesIn
  <2>2. t = l % N
    BY <2>1, <1>1 DEF Filed
  <2>3. QED
    BY <2>1, <2>2, <1>1
<1>2. QED
  BY <1>1

\* HeldOnce, NotHeld and PutIn in words of their own, in which the provers find
\* their way more easily than in remainders.
Sits(N, c, l, w) == c[l % N][w] # None /\ c[l % N][w].line = l
SitsAlone(N, W, c, l, w) ==
    /\ c[l % N][w] \in LinesIn(N, W, c)
    /\ \A n \in LinesIn(N, W, c) : n.line = l => n = c[l % N][w]
    /\ \A v \in 0..(W - 1) : c[l % N][v] # None /\ c[l % N][v].line = l => v = w
    /\ \A v \in 0..(w - 1) : ~(c[l % N][v] # None /\ c[l % N][v].line = l)
Absent(N, W, c, l) ==
    \A w \in 0..(W - 1) : ~(c[l % N][w] # None /\ c[l % N][w].line = l)
HasPut(N, W, LS, c, d, s, n, w) ==
    /\ d \in ArrayFor(N, W, LS) /\ Filed(N, W, d)
    /\ LinesIn(N, W, d) = (LinesIn(N, W, c) \ {c[s][w]}) \cup {n}

\* A line that sits in a way of its set sits there alone.
LEMMA SittingAlone ==
    ASSUME NEW N \in Nat \ {0}, NEW W \in Nat \ {0}, NEW LS \in SUBSET Line,
           NEW c \in ArrayFor(N, W, LS), Filed(N, W, c), NEW l \in Line,
           NEW w \in 0..(W - 1), Sits(N, c, l, w)
    PROVE  SitsAlone(N, W, c, l, w)
<1>1. c[l % N][w] # None /\ c[l % N][w].line = l
  BY DEF Sits
<1>2. /\ c[l % N][w] \in LinesIn(N, W, c)
      /\ \A n \in LinesIn(N, W, c) : n.line = l => n = c[l % N][w]
      /\ \A v \in 0..(W - 1) : c[l % N][v] # None /\ c[l % N][v].line = l => v = w
      /\ \A v \in 0..(w - 1) : ~(c[l % N][v] # None /\ c[l % N][v].line = l)
  BY <1>1, HeldOnce
<1>3. QED
  BY <1>2, Zenon DEF SitsAlone

\* A line that is put where no other way has it is there for what was there.
LEMMA PutAway ==
    ASSUME NEW N \in Nat \ {0}, NEW W \in Nat \ {0}, NEW LS \in SUBSET Line,
           NEW c \in ArrayFor(N, W, LS), Filed(N, W, c),
           NEW n \in LineOf(LS), NEW w \in 0..(W - 1),
           NowhereElse(N, W, c, n, w)
    PROVE  HasPut(N, W, LS, c, With(c, n.line % N, w, n), n.line % N, n, w)
BY PutIn DEF HasPut

\* A line that sits in no way of its set is nowhere.
LEMMA SittingNowhere ==
    ASSUME NEW N \in Nat \ {0}, NEW W \in Nat \ {0}, NEW LS \in SUBSET Line,
           NEW c \in ArrayFor(N, W, LS), Filed(N, W, c), NEW l \in Line,
           Absent(N, W, c, l)
    PROVE  ~ \E n \in LinesIn(N, W, c) : n.line = l
BY NotHeld DEF Absent

\* The way that holds a line of the plain L1 is the only one.
LEMMA PlainHit ==
    ASSUME NEW h, PlainFine(h), NEW l \in Line, NEW w \in 0..(L1Ways - 1),
           Plain!L1!Holds(h.l1, l, w)
    PROVE  Plain!L1!HitWay(h.l1, l, w)
           /\ \A v \in 0..(L1Ways - 1) : Plain!L1!Holds(h.l1, l, v) => v = w
<1> DEFINE c == h.l1
<1>1. c[l % L1Sets][w] # None /\ c[l % L1Sets][w].line = l
  BY PlainGeometry DEF Plain!L1!Holds
<1>2. /\ c \in ArrayFor(L1Sets, L1Ways, Line) /\ Filed(L1Sets, L1Ways, c)
      /\ L1Sets \in Nat \ {0} /\ L1Ways \in Nat \ {0} /\ Line \in SUBSET Line
  BY HierarchyAssumption DEF PlainFine
<1> HIDE DEF c
<1>3. /\ c[l % L1Sets][w] \in LinesIn(L1Sets, L1Ways, c)
      /\ \A n \in LinesIn(L1Sets, L1Ways, c) : n.line = l => n = c[l % L1Sets][w]
      /\ \A v \in 0..(L1Ways - 1) :
            c[l % L1Sets][v] # None /\ c[l % L1Sets][v].line = l => v = w
      /\ \A v \in 0..(w - 1) : ~(c[l % L1Sets][v] # None /\ c[l % L1Sets][v].line = l)
  BY <1>1, <1>2, HeldOnce
<1>4. QED
  BY <1>1, <1>3, PlainGeometry DEF Plain!L1!HitWay, Plain!L1!Holds, c

\* The listener has no copy of the line afterwards, and the L2 still has room.
LEMMA PlainInvalidates ==
    ASSUME NEW h, PlainFine(h), NEW l \in Line, NEW w \in L2!Ways,
           L2!Victim(h.l2, h.used2, L2!SetIndex(l), w),
           NEW e, Room(Line, h, e, l, w), SameFront(h, e),
           h.l2[L2!SetIndex(l)][w] # None
    PROVE  LET k == h.l2[L2!SetIndex(l)][w].line
               r == Plain!InvalidateL1(e, k)
           IN  /\ Room(Line, h, r, l, w) /\ DOMAIN r = DOMAIN h
               /\ r.used1 = h.used1
               /\ r.l1 \in ArrayFor(L1Sets, L1Ways, Line) /\ Filed(L1Sets, L1Ways, r.l1)
               /\ Thinned(L1Sets, L1Ways, h.l1, r.l1)
               /\ Front1(r) = {n \in Front1(h) : n.line # k}
<1> DEFINE k == h.l2[L2!SetIndex(l)][w].line
           r == Plain!InvalidateL1(e, k)
           c == h.l1
<1>1. k \in Line
  BY Geometry, SlotIn DEF PlainFine, Fit, Sound, Behind
<1>2. e.l1 = c /\ e.used1 = h.used1 /\ DOMAIN e = DOMAIN h /\ "l1" \in DOMAIN e
  BY DEF SameFront, PlainFine
<1>3. /\ c \in ArrayFor(L1Sets, L1Ways, Line) /\ Filed(L1Sets, L1Ways, c)
      /\ L1Sets \in Nat \ {0} /\ L1Ways \in Nat \ {0} /\ Line \in SUBSET Line
  BY HierarchyAssumption DEF PlainFine
<1>4. CASE ~Plain!L1!Cached(c, k)
  <2>1. r = e
    BY <1>2, <1>4 DEF Plain!InvalidateL1
  <2> HIDE DEF r, k, c
  <2>2. \A v \in 0..(L1Ways - 1) : ~(c[k % L1Sets][v] # None /\ c[k % L1Sets][v].line = k)
    BY <1>4, PlainGeometry DEF Plain!L1!Cached, Plain!L1!Holds
  <2>3. ~ \E n \in LinesIn(L1Sets, L1Ways, c) : n.line = k
    BY <1>1, <1>3, <2>2, NotHeld
  <2>4. Thinned(L1Sets, L1Ways, c, c)
    BY DEF Thinned
  <2>5. QED
    BY <1>2, <1>3, <2>1, <2>3, <2>4 DEF Front1, r, k, c
<1>5. CASE Plain!L1!Cached(c, k)
  <2> DEFINE v == CHOOSE v \in Plain!L1!Ways : Plain!L1!HitWay(c, k, v)
             n == c[k % L1Sets][v]
             d == With(c, k % L1Sets, v, None)
             out == [e EXCEPT !.l1 = d]
  <2>1. v \in 0..(L1Ways - 1) /\ n # None /\ n.line = k
    <3> HIDE DEF k, c
    <3>1. PICK u \in Plain!L1!Ways : Plain!L1!Holds(c, k, u)
      BY <1>5 DEF Plain!L1!Cached
    <3>2. Plain!L1!HitWay(c, k, u)
      BY <1>1, <3>1, PlainHit, PlainGeometry DEF c
    <3>3. v \in Plain!L1!Ways /\ Plain!L1!HitWay(c, k, v)
      BY <3>2
    <3>4. QED
      BY <3>3, PlainGeometry DEF Plain!L1!HitWay, Plain!L1!Holds
  <2>2. r = IF n.dirty THEN L2!StoreWithRoom(out, k, n.data) ELSE out
    <3>1. Plain!L1!Drop(c, k, v) = d /\ Plain!L1!SetIndex(k) = k % L1Sets
      BY PlainGeometry
    <3>2. Plain!L1!Cached(e.l1, k)
      BY <1>2, <1>5
    <3>3. [e EXCEPT !.l1 = Plain!L1!Drop(@, k, v)] = out
      BY <1>2, <3>1
    <3> HIDE DEF d, k
    <3>4. Plain!InvalidateL1(e, k) =
            IF n.dirty
            THEN Plain!L2!StoreWithRoom([e EXCEPT !.l1 = Plain!L1!Drop(@, k, v)], k, n.data)
            ELSE [e EXCEPT !.l1 = Plain!L1!Drop(@, k, v)]
      BY <1>2, <3>1, <3>2 DEF Plain!InvalidateL1
    <3> HIDE DEF out, n, v
    <3>5. QED
      BY <3>3, <3>4, PlainL2
  <2> HIDE DEF r
  <2>3. k % L1Sets \in 0..(L1Sets - 1)
    BY <1>1, Geometry
  <2>4. /\ n \in LinesIn(L1Sets, L1Ways, c)
        /\ \A x \in LinesIn(L1Sets, L1Ways, c) : x.line = k => x = n
        /\ n \in LineOf(Line) /\ n.data \in Data
    <3> HIDE DEF k, c, v
    <3>1. QED
      BY <1>1, <1>3, <2>1, <2>3, HeldOnce, SlotIn
  <2>5. /\ d \in ArrayFor(L1Sets, L1Ways, Line) /\ Filed(L1Sets, L1Ways, d)
        /\ Thinned(L1Sets, L1Ways, c, d)
        /\ LinesIn(L1Sets, L1Ways, d) = LinesIn(L1Sets, L1Ways, c) \ {n}
    <3> DEFINE s == k % L1Sets
    <3> HIDE DEF k, c, v, s
    <3>1. s \in 0..(L1Sets - 1)
      BY <2>3 DEF s
    <3>2. /\ With(c, s, v, None) \in ArrayFor(L1Sets, L1Ways, Line)
          /\ Filed(L1Sets, L1Ways, With(c, s, v, None))
          /\ With(c, s, v, None)[s][v] = None
          /\ \A t \in 0..(L1Sets - 1), u \in 0..(L1Ways - 1) :
               <<t, u>> # <<s, v>> => With(c, s, v, None)[t][u] = c[t][u]
          /\ LinesIn(L1Sets, L1Ways, With(c, s, v, None)) =
                LinesIn(L1Sets, L1Ways, c) \ {c[s][v]}
      BY <1>3, <2>1, <3>1, DropIn
    <3>3. Thinned(L1Sets, L1Ways, c, With(c, s, v, None))
      BY <3>2 DEF Thinned
    <3>4. QED
      BY <3>2, <3>3 DEF s
  <2> HIDE DEF d
  <2>6. out.l1 = d /\ out.used1 = h.used1 /\ DOMAIN out = DOMAIN h /\ Room(Line, h, out, l, w)
    BY <1>2 DEF Room, Shape
  <2> HIDE DEF out, n
  <2>7. /\ Room(Line, h, r, l, w) /\ r.l1 = d /\ r.used1 = h.used1 /\ DOMAIN r = DOMAIN h
    <3>1. CASE n.dirty
      <4>1. /\ Room(Line, h, L2!StoreWithRoom(out, k, n.data), l, w)
            /\ SameFront(out, L2!StoreWithRoom(out, k, n.data))
        <5>1. Behind(Line, h.l2, h.mem)
          BY DEF PlainFine, Fit, Sound
        <5>2. Line \in SUBSET Line
          OBVIOUS
        <5>3. QED
          BY <2>4, <2>6, <5>1, <5>2, RoomStore
      <4> HIDE DEF k
      <4>2. QED
        BY <3>1, <4>1, <2>2, <2>6, <1>2 DEF SameFront, PlainFine
    <3>2. CASE ~n.dirty
      BY <3>2, <2>2, <2>6
    <3>3. QED
      BY <3>1, <3>2
  <2>8. Front1(r) = {x \in Front1(h) : x.line # k}
    BY <2>4, <2>5, <2>7, <2>1 DEF Front1, n
  <2>9. QED
    BY <2>5, <2>7, <2>8 DEF r
<1>6. QED
  BY <1>4, <1>5

\* A load that the L1 sends to the L2.
LEMMA PlainLoads ==
    ASSUME NEW h, PlainFine(h), NEW l \in Line
    PROVE  LET r == Plain!L2Load(h, l) IN
           /\ PlainFine(r) /\ L2!Cached(r.l2, l)
           /\ Kept(Line, Front1(h), h, Front1(r), r)
           /\ Thinned(L1Sets, L1Ways, h.l1, r.l1) /\ Front1(r) \subseteq Front1(h)
<1> DEFINE r == Plain!L2Load(h, l)
           w == L2!VictimWay(h, l)
           old == h.l2[L2!SetIndex(l)][w]
           t == Taken(h, l, w, old)
           e == IF old = None THEN t ELSE Plain!InvalidateL1(t, old.line)
           F == Front1(h)
<1>1. /\ Fit(Line, F, h) /\ Line \in SUBSET Line /\ Behind(Line, h.l2, h.mem)
      /\ DOMAIN h = {"l1", "used1", "l2", "used2", "mem"} /\ Shape(h)
      /\ h.l1 \in ArrayFor(L1Sets, L1Ways, Line) /\ Filed(L1Sets, L1Ways, h.l1)
      /\ h.used1 \in RanksFor(L1Sets, L1Ways)
  BY DEF PlainFine, Fit, Sound
<1> HIDE DEF r, F
<1>2. CASE L2!Cached(h.l2, l)
  <2>1. r = L2!Place(h, l, L2!HitWayOf(h, l), L2!CopyOf(h.l2, l))
    BY <1>2, PlainL2Hit DEF r
  <2>2. Fit(Line, F, r) /\ SameFront(h, r) /\ Quiet(Line, F, h, F, r)
    BY <1>1, <1>2, <2>1, Reload
  <2>3. r.l1 = h.l1 /\ r.used1 = h.used1 /\ DOMAIN r = DOMAIN h
    BY <1>1, <2>2 DEF SameFront
  <2>4. Front1(r) = F
    BY <2>3 DEF Front1, F
  <2>5. L2!Cached(r.l2, l) /\ Kept(Line, F, h, F, r)
    BY <1>2, <2>2 DEF Quiet, Kept
  <2>6. QED
    BY <1>1, <2>2, <2>3, <2>4, <2>5 DEF PlainFine, Thinned, F, r
<1>3. CASE ~L2!Cached(h.l2, l)
  <2>1. r = Answered(e, l, w)
    BY <1>3, PlainL2Miss DEF r
  <2>2. w \in L2!Ways /\ L2!Victim(h.l2, h.used2, L2!SetIndex(l), w)
    BY <1>1, VictimExists DEF Shape
  <2>3. Room(Line, h, t, l, w) /\ SameFront(h, t)
    <3> HIDE DEF w
    <3>1. QED
      BY <1>1, <2>2, RoomStart DEF Taken
  <2> HIDE DEF t, w
  <2>4. /\ Room(Line, h, e, l, w) /\ DOMAIN e = DOMAIN h /\ e.used1 = h.used1
        /\ e.l1 \in ArrayFor(L1Sets, L1Ways, Line) /\ Filed(L1Sets, L1Ways, e.l1)
        /\ Thinned(L1Sets, L1Ways, h.l1, e.l1)
        /\ Front1(e) = {n \in F : old = None \/ n.line # old.line}
    <3>1. CASE old = None
      <4>1. e = t
        BY <3>1
      <4> HIDE DEF e
      <4>2. e.l1 = h.l1 /\ e.used1 = h.used1 /\ DOMAIN e = DOMAIN h
        BY <4>1, <2>3, <1>1 DEF SameFront
      <4>3. QED
        BY <3>1, <4>1, <4>2, <2>3, <1>1 DEF Thinned, Front1, F
    <3>2. CASE old # None
      <4>1. e = Plain!InvalidateL1(t, old.line)
        BY <3>2
      <4> HIDE DEF e
      <4>2. QED
        BY <3>2, <4>1, <2>2, <2>3, PlainInvalidates, SMTT(40) DEF F
    <3>3. QED
      BY <3>1, <3>2
  <2> HIDE DEF e
  <2> DEFINE G == Front1(e)
  <2>5. /\ Fit(Line, G, r) /\ SameFront(e, r) /\ Kept(Line, F, h, G, r)
        /\ L2!Cached(r.l2, l)
    <3>1. G \subseteq F /\ \A n \in F : n \in G <=> old = None \/ n.line # old.line
      BY <2>4
    <3>2. Fit(Line, F, h) /\ Line \in SUBSET Line
      BY <1>1
    <3> HIDE DEF G
    <3>3. QED
      BY <3>1, <3>2, <1>3, <2>1, <2>2, <2>4, Refill DEF Answered
  <2>6. r.l1 = e.l1 /\ r.used1 = e.used1 /\ DOMAIN r = DOMAIN h
    BY <1>1, <2>4, <2>5 DEF SameFront
  <2>7. Front1(r) = G
    BY <2>6 DEF Front1
  <2>8. QED
    BY <1>1, <2>4, <2>5, <2>6, <2>7 DEF PlainFine, F, r
<1>4. QED
  BY <1>2, <1>3

\* The victim of the L1 leaves it, written back into its slot of the L2.
LEMMA PlainEvicts ==
    ASSUME NEW h, PlainFine(h), NEW l \in Line, NEW w \in 0..(L1Ways - 1)
    PROVE  LET r == Plain!L1Evict(h, l, w) IN
           /\ PlainFine(r)
           /\ Quiet(Line, Front1(h), h, Front1(r), r)
           /\ r.l1[l % L1Sets][w] = None
           /\ Thinned(L1Sets, L1Ways, h.l1, r.l1) /\ Front1(r) \subseteq Front1(h)
<1> DEFINE c == h.l1
           s == l % L1Sets
           n == c[s][w]
           d == With(c, s, w, None)
           out == [h EXCEPT !.l1 = d]
           r == Plain!L1Evict(h, l, w)
           F == Front1(h)
<1>1. /\ Fit(Line, F, h) /\ Line \in SUBSET Line /\ s \in 0..(L1Sets - 1)
      /\ DOMAIN h = {"l1", "used1", "l2", "used2", "mem"} /\ Shape(h)
      /\ c \in ArrayFor(L1Sets, L1Ways, Line) /\ Filed(L1Sets, L1Ways, c)
      /\ h.used1 \in RanksFor(L1Sets, L1Ways)
      /\ L1Sets \in Nat \ {0} /\ L1Ways \in Nat \ {0}
  BY Geometry, HierarchyAssumption DEF PlainFine, Fit
<1>2. r = IF n # None /\ n.dirty THEN Plain!L2Store(out, n.line, n.data) ELSE out
  <2>1. Plain!L1!Drop(c, l, w) = d /\ Plain!L1!SetIndex(l) = s
    BY PlainGeometry
  <2>2. [h EXCEPT !.l1 = Plain!L1!Drop(@, l, w)] = out
    BY <2>1
  <2> HIDE DEF d, s
  <2>3. r = IF n # None /\ n.dirty
            THEN Plain!L2Store([h EXCEPT !.l1 = Plain!L1!Drop(@, l, w)], n.line, n.data)
            ELSE [h EXCEPT !.l1 = Plain!L1!Drop(@, l, w)]
    BY <2>1 DEF Plain!L1Evict
  <2> HIDE DEF out, n, r
  <2>4. QED
    BY <2>2, <2>3
<1> HIDE DEF s, c
<1>3. /\ d \in ArrayFor(L1Sets, L1Ways, Line) /\ Filed(L1Sets, L1Ways, d)
      /\ d[s][w] = None
      /\ Thinned(L1Sets, L1Ways, c, d)
      /\ LinesIn(L1Sets, L1Ways, d) = LinesIn(L1Sets, L1Ways, c) \ {n}
  <2>1. /\ With(c, s, w, None) \in ArrayFor(L1Sets, L1Ways, Line)
        /\ Filed(L1Sets, L1Ways, With(c, s, w, None))
        /\ With(c, s, w, None)[s][w] = None
        /\ \A t \in 0..(L1Sets - 1), u \in 0..(L1Ways - 1) :
             <<t, u>> # <<s, w>> => With(c, s, w, None)[t][u] = c[t][u]
        /\ LinesIn(L1Sets, L1Ways, With(c, s, w, None)) =
              LinesIn(L1Sets, L1Ways, c) \ {c[s][w]}
    BY <1>1, DropIn
  <2>2. Thinned(L1Sets, L1Ways, c, With(c, s, w, None))
    BY <2>1 DEF Thinned
  <2>3. QED
    BY <2>1, <2>2
<1> HIDE DEF d, r, F
<1>4. /\ Shape(out) /\ out.l2 = h.l2 /\ out.mem = h.mem /\ DOMAIN out = DOMAIN h
      /\ out.l1 = d /\ out.used1 = h.used1
  BY <1>1 DEF Shape
<1> HIDE DEF out
<1>5. Fit(Line, F, out) /\ Quiet(Line, F, h, F, out)
  BY <1>1, <1>4, FrontOnly
<1>6. F = LinesIn(L1Sets, L1Ways, c)
  BY DEF F, Front1, c
<1>7. CASE n = None
  <2>1. r = out
    BY <1>7, <1>2
  <2>2. Front1(r) = F
    <3>1. None \notin F
      BY <1>6 DEF LinesIn
    <3>2. QED
      BY <3>1, <1>7, <1>3, <1>4, <1>6, <2>1 DEF Front1
  <2>3. QED
    BY <1>1, <1>3, <1>4, <1>5, <2>1, <2>2 DEF PlainFine, r, F, s, c
<1>8. CASE n # None
  <2> DEFINE G == F \ {n}
  <2>1. n \in F
    BY <1>1, <1>8, <1>6 DEF LinesIn
  <2>2. r = IF n.dirty THEN L2!StoreWithRoom(out, n.line, n.data) ELSE out
    <3>1. L2!Cached(out.l2, n.line)
      BY <1>5, <2>1 DEF Fit, Sound
    <3> HIDE DEF n
    <3>2. Plain!L2Store(out, n.line, n.data) = L2!StoreWithRoom(out, n.line, n.data)
      BY <3>1, PlainL2Store
    <3>3. QED
      BY <1>2, <1>8, <3>2
  <2>3. F \ {n} \subseteq G /\ G \subseteq F
    OBVIOUS
  <2> HIDE DEF n, G
  <2>4. Fit(Line, G, r) /\ SameFront(out, r) /\ Quiet(Line, F, out, G, r)
    BY <1>1, <1>5, <2>1, <2>2, <2>3, Retire
  <2>5. r.l1 = d /\ r.used1 = h.used1 /\ DOMAIN r = DOMAIN h
    BY <1>1, <1>4, <2>4 DEF SameFront
  <2>6. Front1(r) = G
    BY <1>3, <1>6, <2>5 DEF Front1, G
  <2>7. Quiet(Line, F, h, G, r)
    BY <1>5, <2>4 DEF Quiet, StaysClean
  <2>8. QED
    BY <1>1, <1>3, <2>3, <2>4, <2>5, <2>6, <2>7 DEF PlainFine, r, F, s, c
<1>9. QED
  BY <1>7, <1>8

\* The L1 ends an access with line n in way w: no other way has the line.
LEMMA PlainPlaces ==
    ASSUME NEW h, PlainFine(h), NEW n \in LineOf(Line), NEW w \in 0..(L1Ways - 1),
           NowhereElse(L1Sets, L1Ways, h.l1, n, w),
           h.l1[n.line % L1Sets][w] # None => h.l1[n.line % L1Sets][w].line = n.line,
           L2!Cached(h.l2, n.line),
           n.dirty \/ n.data = L2!CopyOf(h.l2, n.line).data
    PROVE  LET r == Plain!L1Place(h, n.line, w, n) IN
           /\ PlainFine(r) /\ r.l2 = h.l2 /\ r.mem = h.mem
           /\ \A x \in Line : Reads(Front1(r), r.l2, r.mem, x) =
                IF x = n.line THEN n.data ELSE Reads(Front1(h), h.l2, h.mem, x)
           /\ \A x \in Line : (x = n.line => ~n.dirty) =>
                StaysClean(Front1(h), h, Front1(r), r, x)
<1> DEFINE c == h.l1
           s == n.line % L1Sets
           d == With(c, s, w, n)
           u == Touched(L1Ways, h.used1, s, w)
           r == Plain!L1Place(h, n.line, w, n)
           F == Front1(h)
           G == Front1(r)
<1>1. /\ Fit(Line, F, h) /\ Line \in SUBSET Line
      /\ DOMAIN h = {"l1", "used1", "l2", "used2", "mem"} /\ Shape(h)
      /\ c \in ArrayFor(L1Sets, L1Ways, Line) /\ Filed(L1Sets, L1Ways, c)
      /\ h.used1 \in RanksFor(L1Sets, L1Ways)
      /\ L1Sets \in Nat \ {0} /\ L1Ways \in Nat \ {0}
  BY HierarchyAssumption DEF PlainFine, Fit
<1>2. n.line \in Line /\ s \in 0..(L1Sets - 1) /\ n # None
  BY Geometry DEF LineOf
<1>3. r = [[h EXCEPT !.l1 = d] EXCEPT !.used1 = u]
  <2>1. /\ Plain!L1!Put(h.l1, n.line, w, n) = d
        /\ Plain!L1!Touch(h.used1, Plain!L1!SetIndex(n.line), w) = u
    BY PlainGeometry
  <2> HIDE DEF d, u
  <2>2. QED
    BY <1>1, <2>1 DEF Plain!L1Place
<1> HIDE DEF s, c
<1>4. /\ d \in ArrayFor(L1Sets, L1Ways, Line) /\ Filed(L1Sets, L1Ways, d)
      /\ LinesIn(L1Sets, L1Ways, d) = (LinesIn(L1Sets, L1Ways, c) \ {c[s][w]}) \cup {n}
  <2>1. LET b == With(c, n.line % L1Sets, w, n) IN
        /\ b \in ArrayFor(L1Sets, L1Ways, Line) /\ Filed(L1Sets, L1Ways, b)
        /\ b[n.line % L1Sets][w] = n
        /\ \A t \in 0..(L1Sets - 1), v \in 0..(L1Ways - 1) :
             <<t, v>> # <<n.line % L1Sets, w>> => b[t][v] = c[t][v]
        /\ LinesIn(L1Sets, L1Ways, b) =
             (LinesIn(L1Sets, L1Ways, c) \ {c[n.line % L1Sets][w]}) \cup {n}
    <3>1. NowhereElse(L1Sets, L1Ways, c, n, w)
      BY DEF c
    <3>2. QED
      BY <1>1, <3>1, PutIn
  <2>2. QED
    BY <2>1 DEF s
<1>5. u \in RanksFor(L1Sets, L1Ways)
  BY <1>1, <1>2, TouchType
<1> HIDE DEF d, u, r, F
<1>6. /\ Shape(r) /\ r.l1 = d /\ r.used1 = u /\ r.l2 = h.l2 /\ r.mem = h.mem
      /\ DOMAIN r = DOMAIN h
  BY <1>1, <1>3 DEF Shape
<1>7. F = LinesIn(L1Sets, L1Ways, c) /\ G = (F \ {c[s][w]}) \cup {n}
  BY <1>4, <1>6 DEF F, Front1, c
<1>8. G \subseteq {k \in F : k.line # n.line} \cup {n}
  <2>1. SUFFICES ASSUME NEW k \in F, k # c[s][w], k.line = n.line
                 PROVE  FALSE
    BY <1>7
  <2>2. PICK t \in 0..(L1Sets - 1), v \in 0..(L1Ways - 1) : k = c[t][v] /\ k # None
    BY <1>7 DEF LinesIn
  <2>3. t = s
    BY <2>1, <2>2, <1>1 DEF Filed, s
  <2>4. v = w
    BY <2>1, <2>2, <2>3 DEF NowhereElse, s, c
  <2>5. QED
    BY <2>1, <2>2, <2>3, <2>4
<1>9. \A k \in F : k.line # n.line => k \in G
  <2>1. SUFFICES ASSUME NEW k \in F, k.line # n.line
                 PROVE  k # c[s][w]
    BY <1>7
  <2>2. k # None
    BY <1>7 DEF LinesIn
  <2>3. QED
    BY <2>1, <2>2 DEF s, c
<1> HIDE DEF G
<1>10. /\ Fit(Line, G, h)
       /\ \A x \in Line : Reads(G, h.l2, h.mem, x) =
            IF x = n.line THEN n.data ELSE Reads(F, h.l2, h.mem, x)
       /\ \A x \in Line : CleanIn(F, h.l2, x) /\ (x = n.line => ~n.dirty) =>
            CleanIn(G, h.l2, x)
  <2>1. n \in G
    BY <1>7
  <2>2. QED
    BY <1>1, <1>8, <1>9, <2>1, FrontPut
<1>11. Fit(Line, G, r)
  BY <1>6, <1>10, FrontOnly
<1>12. QED
  BY <1>1, <1>4, <1>5, <1>6, <1>10, <1>11 DEF PlainFine, StaysClean, G, r, F

-----------------------------------------------------------------------------
(* The calls of the machine.                                               *)

\* What a call does to what is read: it changes the line x it stores to, and
\* perhaps a line that the L2 gives up while its copy in front is dirty.  A clean
\* line stays so, but for x when the call dirties it.
Changes(LS, F, h, G, r, x, d, dirties) ==
    \A y \in LS :
        /\ \/ Reads(G, r.l2, r.mem, y) =
                IF y = x THEN d ELSE Reads(F, h.l2, h.mem, y)
           \/ y # x /\ (\E n \in F : n.line = y /\ n.dirty) /\ ~L2!Cached(r.l2, y)
        /\ (y = x => ~dirties) => StaysClean(F, h, G, r, y)

\* An L1 hit on way w, after which the way has line n.
LEMMA PlainHits ==
    ASSUME NEW h, PlainFine(h), NEW l \in Line, NEW w \in Plain!L1!Ways,
           Plain!L1!HitWay(h.l1, l, w), NEW n \in LineOf(Line), n.line = l,
           n = h.l1[Plain!L1!SetIndex(l)][w] \/ n.dirty
    PROVE  LET r == Plain!L1Place(h, l, w, n) IN
           /\ PlainFine(r)
           /\ Changes(Line, Front1(h), h, Front1(r), r, l, n.data, n.dirty)
           /\ h.l1[Plain!L1!SetIndex(l)][w] \in Front1(h)
           /\ h.l1[Plain!L1!SetIndex(l)][w].line = l
<1> DEFINE c == h.l1
           s == l % L1Sets
<1>1. /\ w \in 0..(L1Ways - 1) /\ Plain!L1!SetIndex(l) = s
      /\ c[s][w] # None /\ c[s][w].line = l
  BY PlainGeometry DEF Plain!L1!HitWay, Plain!L1!Holds
<1>2. /\ c \in ArrayFor(L1Sets, L1Ways, Line) /\ Filed(L1Sets, L1Ways, c)
      /\ L1Sets \in Nat \ {0} /\ L1Ways \in Nat \ {0} /\ Line \in SUBSET Line
      /\ Front1(h) = LinesIn(L1Sets, L1Ways, c)
  BY HierarchyAssumption DEF PlainFine, Front1
<1>3. c[s][w] \in Front1(h)
      /\ \A v \in 0..(L1Ways - 1) : c[s][v] # None /\ c[s][v].line = l => v = w
  <2> HIDE DEF c
  <2>1. QED
    BY <1>1, <1>2, HeldOnce
<1>4. NowhereElse(L1Sets, L1Ways, c, n, w)
  BY <1>3 DEF NowhereElse
<1>5. L2!Cached(h.l2, l) /\ (n.dirty \/ n.data = L2!CopyOf(h.l2, l).data)
  BY <1>1, <1>3 DEF PlainFine, Fit, Sound
<1>6. LET r == Plain!L1Place(h, n.line, w, n) IN
           /\ PlainFine(r) /\ r.l2 = h.l2 /\ r.mem = h.mem
           /\ \A x \in Line : Reads(Front1(r), r.l2, r.mem, x) =
                IF x = n.line THEN n.data ELSE Reads(Front1(h), h.l2, h.mem, x)
           /\ \A x \in Line : (x = n.line => ~n.dirty) =>
                StaysClean(Front1(h), h, Front1(r), r, x)
  <2>1. h.l1[n.line % L1Sets][w] # None => h.l1[n.line % L1Sets][w].line = n.line
    BY <1>1
  <2>2. NowhereElse(L1Sets, L1Ways, h.l1, n, w)
    BY <1>4
  <2> HIDE DEF c, s
  <2>3. QED
    BY <1>1, <1>5, <2>1, <2>2, PlainPlaces
<1>7. QED
  BY <1>1, <1>3, <1>6 DEF Changes

\* What an L1 miss has fetched for way w.
LEMMA PlainFetches ==
    ASSUME NEW h, PlainFine(h), NEW l \in Line, NEW w \in Plain!L1!Ways,
           Plain!L1Miss(l, w), hier = h
    PROVE  LET f == Plain!Fetched(h, l, w)
               n == Plain!L1!NewLine(l, Plain!L2!CopyOf(f.l2, l).data)
           IN  /\ n \in LineOf(Line) /\ n.line = l /\ ~n.dirty
               /\ n.data = Reads(Front1(h), h.l2, h.mem, l)
               /\ \A k \in LineOf(Line) : k.line = l /\ (k = n \/ k.dirty) =>
                    LET r == Plain!L1Place(f, l, w, k) IN
                    /\ PlainFine(r)
                    /\ Changes(Line, Front1(h), h, Front1(r), r, l, k.data, k.dirty)
<1> DEFINE e == Plain!L1Evict(h, l, w)
           f == Plain!Fetched(h, l, w)
           c == f.l1
           s == l % L1Sets
           n == Plain!L1!NewLine(l, Plain!L2!CopyOf(f.l2, l).data)
<1>1. w \in 0..(L1Ways - 1) /\ s \in 0..(L1Sets - 1)
  BY PlainGeometry, Geometry
<1>2. f = Plain!L2Load(e, l)
  BY DEF Plain!Fetched
<1> HIDE DEF e, f
<1>3. /\ PlainFine(e) /\ Quiet(Line, Front1(h), h, Front1(e), e)
      /\ e.l1[s][w] = None
      /\ Thinned(L1Sets, L1Ways, h.l1, e.l1) /\ Front1(e) \subseteq Front1(h)
  BY <1>1, PlainEvicts DEF e
<1>4. /\ PlainFine(f) /\ L2!Cached(f.l2, l)
      /\ Kept(Line, Front1(e), e, Front1(f), f)
      /\ Thinned(L1Sets, L1Ways, e.l1, f.l1) /\ Front1(f) \subseteq Front1(e)
  BY <1>2, <1>3, PlainLoads
<1>5. \A v \in 0..(L1Ways - 1) : ~(h.l1[s][v] # None /\ h.l1[s][v].line = l)
  BY PlainGeometry DEF Plain!L1Miss, Plain!L1!Cached, Plain!L1!Holds
<1>6. ~ \E k \in Front1(h) : k.line = l
  <2> DEFINE b == h.l1
  <2>1. /\ b \in ArrayFor(L1Sets, L1Ways, Line) /\ Filed(L1Sets, L1Ways, b)
        /\ L1Sets \in Nat \ {0} /\ L1Ways \in Nat \ {0} /\ Line \in SUBSET Line
        /\ Front1(h) = LinesIn(L1Sets, L1Ways, b)
    BY HierarchyAssumption DEF PlainFine, Front1
  <2>2. \A v \in 0..(L1Ways - 1) : ~(b[s][v] # None /\ b[s][v].line = l)
    BY <1>5
  <2> HIDE DEF b
  <2>3. QED
    BY <2>1, <2>2, NotHeld
<1>7. c[s][w] = None /\ \A v \in 0..(L1Ways - 1) : ~(c[s][v] # None /\ c[s][v].line = l)
  BY <1>1, <1>3, <1>4, <1>5 DEF Thinned
<1> HIDE DEF s
<1>8. n \in LineOf(Line) /\ n.line = l /\ ~n.dirty /\ n.data = L2!CopyOf(f.l2, l).data
  <2>1. n = [line |-> l, data |-> L2!CopyOf(f.l2, l).data, dirty |-> FALSE]
    BY PlainL2 DEF Plain!L1!NewLine
  <2>2. PICK v \in L2!Ways : L2!Holds(f.l2, l, v)
    BY <1>4 DEF L2!Cached
  <2>3. L2!CopyOf(f.l2, l) = f.l2[L2!SetIndex(l)][v] /\ f.l2[L2!SetIndex(l)][v] # None
    <3>1. Behind(Line, f.l2, f.mem) /\ Line \in SUBSET Line
      BY <1>4 DEF PlainFine, Fit, Sound
    <3>2. QED
      BY <2>2, <3>1, Found DEF L2!Holds
  <2>4. L2!CopyOf(f.l2, l).data \in Data
    <3>1. L2!SetIndex(l) \in 0..(L2Sets - 1) /\ v \in 0..(L2Ways - 1)
      BY Geometry
    <3>2. f.l2 \in ArrayFor(L2Sets, L2Ways, Line)
      BY <1>4 DEF PlainFine, Fit, Sound, Behind
    <3>3. QED
      BY <2>3, <3>1, <3>2, SlotIn
  <2>5. QED
    BY <2>1, <2>4 DEF LineOf
<1> HIDE DEF n
<1>9. n.data = Reads(Front1(f), f.l2, f.mem, l)
  <2>1. ~ \E k \in Front1(f) : k.line = l
    BY <1>3, <1>4, <1>6
  <2>2. QED
    BY <1>4, <1>8, <2>1, ReadsBehind
<1>10. Kept(Line, Front1(h), h, Front1(f), f)
  BY <1>3, <1>4 DEF Kept, Quiet, StaysClean
<1>11. n.data = Reads(Front1(h), h.l2, h.mem, l)
  BY <1>6, <1>9, <1>10 DEF Kept
<1>12. ASSUME NEW k \in LineOf(Line), k.line = l, k = n \/ k.dirty
       PROVE  LET r == Plain!L1Place(f, l, w, k) IN
              /\ PlainFine(r)
              /\ Changes(Line, Front1(h), h, Front1(r), r, l, k.data, k.dirty)
  <2>1. NowhereElse(L1Sets, L1Ways, c, k, w)
    BY <1>7, <1>12 DEF NowhereElse, s
  <2>2. c[k.line % L1Sets][w] # None => c[k.line % L1Sets][w].line = k.line
    BY <1>7, <1>12 DEF s
  <2>3. k.dirty \/ k.data = L2!CopyOf(f.l2, k.line).data
    BY <1>8, <1>12
  <2>4. LET r == Plain!L1Place(f, k.line, w, k) IN
        /\ PlainFine(r) /\ r.l2 = f.l2 /\ r.mem = f.mem
        /\ \A x \in Line : Reads(Front1(r), r.l2, r.mem, x) =
             IF x = k.line THEN k.data ELSE Reads(Front1(f), f.l2, f.mem, x)
        /\ \A x \in Line : (x = k.line => ~k.dirty) =>
             StaysClean(Front1(f), f, Front1(r), r, x)
    BY <1>1, <1>4, <1>12, <2>1, <2>2, <2>3, PlainPlaces
  <2>5. QED
    BY <1>10, <1>12, <2>4 DEF Changes, Kept, StaysClean
<1>13. QED
  BY <1>8, <1>11, <1>12 DEF n, f

\* After an access to line x the front G, over r, is sound, and what is read of
\* x is d.  A line that is read differently is x, or it was dirty in front and
\* is nowhere but in the memory.
LEMMA Outcome ==
    ASSUME NEW LS \in SUBSET Line, NEW F, NEW h, NEW G, NEW r, Fit(LS, G, r),
           NEW x, NEW d, NEW q, Changes(LS, F, h, G, r, x, d, q), NEW y \in LS,
           Reads(G, r.l2, r.mem, y) # Reads(F, h.l2, h.mem, y)
    PROVE  \/ y = x /\ Reads(G, r.l2, r.mem, y) = d
           \/ /\ \E n \in F : n.line = y /\ n.dirty
              /\ \A n \in G : n.line # y
              /\ ~L2!Cached(r.l2, y)
BY DEF Changes, Fit, Sound

\* An array that holds nothing, and the first ranks of its ways.
Blank(N, W) == [s \in 0..(N - 1) |-> [w \in 0..(W - 1) |-> None]]
InOrder(N, W) == [s \in 0..(N - 1) |-> [w \in 0..(W - 1) |-> w]]

\* An empty array is an array, with nothing in it.
LEMMA EmptyArray ==
    ASSUME NEW N, NEW W, NEW LS
    PROVE  /\ Blank(N, W) \in ArrayFor(N, W, LS) /\ Filed(N, W, Blank(N, W))
           /\ LinesIn(N, W, Blank(N, W)) = {}
           /\ \A s \in 0..(N - 1), w \in 0..(W - 1) : Blank(N, W)[s][w] = None
BY DEF ArrayFor, Filed, LinesIn, Blank

\* The first ranks of the ways are ranks.
LEMMA FirstRanks ==
    ASSUME NEW N, NEW W
    PROVE  InOrder(N, W) \in RanksFor(N, W)
BY DEF RanksFor, InOrder

\* A hierarchy that holds nothing.
LEMMA FirstFit ==
    ASSUME NEW LS \in SUBSET Line, NEW h,
           {"l2", "used2", "mem"} \subseteq DOMAIN h,
           h = [f \in DOMAIN h |-> h[f]],
           h.l2 = Blank(L2Sets, L2Ways), h.used2 = InOrder(L2Sets, L2Ways),
           h.mem = [l \in LS |-> [o \in Offset |-> Zero]]
    PROVE  Fit(LS, {}, h)
<1> DEFINE c == h.l2
           m == h.mem
<1>1. c \in ArrayFor(L2Sets, L2Ways, LS) /\ Filed(L2Sets, L2Ways, c)
      /\ \A s \in 0..(L2Sets - 1), w \in 0..(L2Ways - 1) : c[s][w] = None
  BY EmptyArray, SMTT(40)
<1>2. m \in [LS -> Data]
  BY HierarchyAssumption DEF Data
<1>3. h.used2 \in L2!Ranks
  BY FirstRanks, Geometry DEF L2!Ranks, RanksFor
<1> HIDE DEF c, m
<1>4. Sound(LS, {}, c, m)
  BY <1>1, <1>2 DEF Sound, Behind
<1>5. QED
  BY <1>3, <1>4 DEF Fit, Shape, c, m

\* A copy of a line, in front or in the L2, is of data, and so is what is read.
LEMMA ReadsData ==
    ASSUME NEW LS \in SUBSET Line, NEW F, NEW h, Fit(LS, F, h), NEW x \in LS
    PROVE  Reads(F, h.l2, h.mem, x) \in Data
<1>1. CASE \E n \in F : n.line = x
  <2>1. PICK n \in F : n.line = x
    BY <1>1
  <2>2. Reads(F, h.l2, h.mem, x) = n.data
    BY <2>1, ReadsFront DEF Fit
  <2>3. n.data \in Data
    BY DEF Fit, Sound, LineOf
  <2>4. QED
    BY <2>2, <2>3
<1>2. CASE (~ \E n \in F : n.line = x) /\ L2!Cached(h.l2, x)
  <2>1. PICK v \in L2!Ways : L2!Holds(h.l2, x, v)
    BY <1>2 DEF L2!Cached
  <2>2. L2!CopyOf(h.l2, x) = h.l2[L2!SetIndex(x)][v] /\ h.l2[L2!SetIndex(x)][v] # None
    BY <2>1, Found DEF L2!Holds, Fit, Sound
  <2>3. L2!CopyOf(h.l2, x).data \in Data
    <3>1. L2!SetIndex(x) \in 0..(L2Sets - 1) /\ v \in 0..(L2Ways - 1)
      BY Geometry
    <3>2. h.l2 \in ArrayFor(L2Sets, L2Ways, LS)
      BY DEF Fit, Sound, Behind
    <3>3. QED
      BY <2>2, <3>1, <3>2, SlotIn
  <2>4. QED
    BY <1>2, <2>3, ReadsBehind
<1>3. CASE (~ \E n \in F : n.line = x) /\ ~L2!Cached(h.l2, x)
  <2>1. h.mem \in [LS -> Data]
    BY DEF Fit, Sound, Behind
  <2>2. QED
    BY <1>3, <2>1, ReadsBehind
<1>4. QED
  BY <1>1, <1>2, <1>3

-----------------------------------------------------------------------------

PlainReply == reply \in [op : {"none"}]
    \cup [op : {"load"}, line : Line, off : Offset, val : Byte]

\* The plain hierarchy is empty at first.
LEMMA PlainStart ==
    ASSUME Plain!Init
    PROVE  PlainFine(hier) /\ PlainReply
<1>1. hier = [l1 |-> Plain!L1!NoLines, used1 |-> Plain!L1!NoUses,
              l2 |-> Plain!L2!NoLines, used2 |-> Plain!L2!NoUses,
              mem |-> [l \in Line |-> [o \in Offset |-> Zero]]]
      /\ PlainReply
  BY DEF Plain!Init, PlainReply
<1>2. /\ hier.l1 = Blank(L1Sets, L1Ways) /\ hier.used1 = InOrder(L1Sets, L1Ways)
      /\ hier.l2 = Blank(L2Sets, L2Ways) /\ hier.used2 = InOrder(L2Sets, L2Ways)
      /\ hier.mem = [l \in Line |-> [o \in Offset |-> Zero]]
      /\ DOMAIN hier = {"l1", "used1", "l2", "used2", "mem"}
      /\ hier = [f \in DOMAIN hier |-> hier[f]]
  BY <1>1 DEF Plain!L1!NoLines, Plain!L1!NoUses, Plain!L2!NoLines, Plain!L2!NoUses,
              Plain!L1!Sets, Plain!L1!Ways, Plain!L2!Sets, Plain!L2!Ways,
              Blank, InOrder
<1>3. /\ hier.l1 \in ArrayFor(L1Sets, L1Ways, Line) /\ Filed(L1Sets, L1Ways, hier.l1)
      /\ Front1(hier) = {}
  <2>1. /\ Blank(L1Sets, L1Ways) \in ArrayFor(L1Sets, L1Ways, Line)
        /\ Filed(L1Sets, L1Ways, Blank(L1Sets, L1Ways))
        /\ LinesIn(L1Sets, L1Ways, Blank(L1Sets, L1Ways)) = {}
    BY EmptyArray
  <2>2. QED
    BY <1>2, <2>1 DEF Front1
<1>4. hier.used1 \in RanksFor(L1Sets, L1Ways)
  BY <1>2, FirstRanks
<1>5. Fit(Line, {}, hier)
  BY <1>2, FirstFit
<1>6. QED
  BY <1>1, <1>2, <1>3, <1>4, <1>5 DEF PlainFine

\* A store to line y that did what it should, or what the L2 loses of it.
PlainOutcome(y) ==
    LET then == Reads(Front1(hier'), hier'.l2, hier'.mem, y)
        now == Reads(Front1(hier), hier.l2, hier.mem, y)
    IN  /\ then # now =>
             \/ \E o \in Offset, v \in Byte :
                   Plain!Store(y, o, v) /\ then = [now EXCEPT ![o] = v]
             \/ /\ \E n \in Front1(hier) : n.line = y /\ n.dirty
                /\ \A n \in Front1(hier') : n.line # y
                /\ ~L2!Cached(hier'.l2, y)
        /\ \/ StaysClean(Front1(hier), hier, Front1(hier'), hier', y)
           \/ \E o \in Offset, v \in Byte : Plain!Store(y, o, v)

\* A call of the plain hierarchy keeps it fine and has one of the outcomes
\* allowed for every line.
LEMMA PlainStep ==
    ASSUME PlainFine(hier), PlainReply, Plain!Next
    PROVE  PlainFine(hier') /\ PlainReply' /\ \A y \in Line : PlainOutcome(y)
<1> DEFINE now(y) == Reads(Front1(hier), hier.l2, hier.mem, y)
<1>1. PICK l \in Line, o \in Offset :
        Plain!Load(l, o) \/ \E v \in Byte : Plain!Store(l, o, v)
  BY DEF Plain!Next
<1>2. Fit(Line, Front1(hier), hier) /\ Line \in SUBSET Line
  BY DEF PlainFine
<1>3. now(l) \in Data
  BY <1>2, ReadsData
<1>4. \A n : [op |-> "load", line |-> l, off |-> o, val |-> n] = Plain!Answer(l, o, n)
  BY DEF Plain!Answer
<1>5. ASSUME NEW d, NEW q, PlainFine(hier'),
             Changes(Line, Front1(hier), hier, Front1(hier'), hier', l, d, q),
             \/ d = now(l) /\ (q => ~CleanIn(Front1(hier), hier.l2, l))
             \/ \E v \in Byte : Plain!Store(l, o, v) /\ d = [now(l) EXCEPT ![o] = v]
      PROVE  \A y \in Line : PlainOutcome(y)
  <2>1. SUFFICES ASSUME NEW y \in Line
                 PROVE  PlainOutcome(y)
    OBVIOUS
  <2>2. Fit(Line, Front1(hier'), hier')
    BY <1>5 DEF PlainFine
  <2>3. \/ StaysClean(Front1(hier), hier, Front1(hier'), hier', y)
        \/ \E v \in Byte : Plain!Store(y, o, v)
    <3>1. CASE y = l /\ q
      BY <1>5, <3>1 DEF StaysClean
    <3>2. CASE ~(y = l /\ q)
      BY <1>5, <3>2 DEF Changes
    <3>3. QED
      BY <3>1, <3>2
  <2>4. CASE Reads(Front1(hier'), hier'.l2, hier'.mem, y) # now(y)
    <3>1. \/ y = l /\ Reads(Front1(hier'), hier'.l2, hier'.mem, y) = d
          \/ /\ \E n \in Front1(hier) : n.line = y /\ n.dirty
             /\ \A n \in Front1(hier') : n.line # y
             /\ ~L2!Cached(hier'.l2, y)
      BY <1>2, <1>5, <2>2, <2>4, Outcome
    <3>2. QED
      BY <1>5, <2>3, <2>4, <3>1 DEF PlainOutcome
  <2>5. QED
    BY <2>3, <2>4 DEF PlainOutcome
<1>6. CASE Plain!LoadHit(l, o)
  <2>1. PICK w \in Plain!L1!Ways :
          /\ Plain!L1!HitWay(hier.l1, l, w)
          /\ hier' = Plain!L1Place(hier, l, w, hier.l1[Plain!L1!SetIndex(l)][w])
          /\ reply' = Plain!Answer(l, o, hier.l1[Plain!L1!SetIndex(l)][w].data[o])
    BY <1>6 DEF Plain!LoadHit
  <2> DEFINE n == hier.l1[Plain!L1!SetIndex(l)][w]
  <2>2. n \in LineOf(Line) /\ n.line = l /\ n.data \in Data
    <3>1. w \in 0..(L1Ways - 1) /\ Plain!L1!SetIndex(l) \in 0..(L1Sets - 1)
      BY PlainGeometry, Geometry
    <3>2. n # None /\ n.line = l
      BY <2>1 DEF Plain!L1!HitWay, Plain!L1!Holds
    <3>3. QED
      BY <3>1, <3>2, SlotIn DEF PlainFine
  <2>3. /\ PlainFine(hier')
        /\ Changes(Line, Front1(hier), hier, Front1(hier'), hier', l, n.data, n.dirty)
        /\ n \in Front1(hier)
    BY <2>1, <2>2, PlainHits
  <2>4. n.data = now(l)
    BY <1>2, <2>2, <2>3, ReadsFront DEF Fit
  <2>5. n.data[o] \in Byte
    BY <2>2 DEF Data
  <2>6. PlainReply'
    BY <2>1, <2>5, <1>4 DEF PlainReply
  <2>7. n.dirty => ~CleanIn(Front1(hier), hier.l2, l)
    BY <2>2, <2>3 DEF CleanIn
  <2>8. QED
    BY <1>5, <2>3, <2>4, <2>6, <2>7
<1>7. CASE Plain!LoadMiss(l, o)
  <2>1. PICK w \in Plain!L1!Ways :
          LET f == Plain!Fetched(hier, l, w)
              n == Plain!L1!NewLine(l, Plain!L2!CopyOf(f.l2, l).data)
          IN  /\ Plain!L1Miss(l, w)
              /\ hier' = Plain!L1Place(f, l, w, n)
              /\ reply' = Plain!Answer(l, o, n.data[o])
    BY <1>7 DEF Plain!LoadMiss
  <2> DEFINE f == Plain!Fetched(hier, l, w)
             n == Plain!L1!NewLine(l, Plain!L2!CopyOf(f.l2, l).data)
  <2>2. /\ n \in LineOf(Line) /\ n.line = l /\ n.data = now(l) /\ ~n.dirty
        /\ PlainFine(hier')
        /\ Changes(Line, Front1(hier), hier, Front1(hier'), hier', l, n.data, n.dirty)
    BY <2>1, PlainFetches
  <2> HIDE DEF n
  <2>3. n.data[o] \in Byte
    BY <1>3, <2>2 DEF Data
  <2>4. PlainReply'
    BY <2>1, <2>3, <1>4 DEF PlainReply, n
  <2>5. QED
    BY <1>5, <2>2, <2>4
<1>8. ASSUME NEW v \in Byte, Plain!StoreHit(l, o, v)
      PROVE  PlainFine(hier') /\ PlainReply' /\ \A y \in Line : PlainOutcome(y)
  <2>1. PICK w \in Plain!L1!Ways :
          /\ Plain!L1!HitWay(hier.l1, l, w)
          /\ hier' = Plain!L1Place(hier, l, w,
                        Plain!L1Stored(hier.l1[Plain!L1!SetIndex(l)][w], o, v))
          /\ reply' = [op |-> "none"]
    BY <1>8 DEF Plain!StoreHit
  <2> DEFINE n == hier.l1[Plain!L1!SetIndex(l)][w]
             k == Plain!L1Stored(n, o, v)
  <2>2. n \in LineOf(Line) /\ n.line = l
    <3>1. w \in 0..(L1Ways - 1) /\ Plain!L1!SetIndex(l) \in 0..(L1Sets - 1)
      BY PlainGeometry, Geometry
    <3>2. n # None /\ n.line = l
      BY <2>1 DEF Plain!L1!HitWay, Plain!L1!Holds
    <3>3. QED
      BY <3>1, <3>2, SlotIn DEF PlainFine
  <2> HIDE DEF n
  <2>3. k \in LineOf(Line) /\ k.line = l /\ k.dirty /\ k.data = [n.data EXCEPT ![o] = v]
    BY <2>2 DEF Plain!L1Stored, LineOf, Data
  <2> HIDE DEF k
  <2>4. /\ PlainFine(hier')
        /\ Changes(Line, Front1(hier), hier, Front1(hier'), hier', l, k.data, k.dirty)
        /\ n \in Front1(hier)
    BY <2>1, <2>3, PlainHits DEF k, n
  <2>5. n.data = now(l)
    BY <1>2, <2>2, <2>4, ReadsFront DEF Fit
  <2>6. Plain!Store(l, o, v) /\ k.data = [now(l) EXCEPT ![o] = v]
    BY <1>8, <2>3, <2>5 DEF Plain!Store
  <2>7. PlainReply'
    BY <2>1 DEF PlainReply
  <2> HIDE DEF now
  <2>8. QED
    BY <1>5, <2>4, <2>6, <2>7
<1>9. ASSUME NEW v \in Byte, Plain!StoreMiss(l, o, v)
      PROVE  PlainFine(hier') /\ PlainReply' /\ \A y \in Line : PlainOutcome(y)
  <2>1. PICK w \in Plain!L1!Ways :
          LET f == Plain!Fetched(hier, l, w)
              n == Plain!L1!NewLine(l, Plain!L2!CopyOf(f.l2, l).data)
          IN  /\ Plain!L1Miss(l, w)
              /\ hier' = Plain!L1Place(f, l, w, Plain!L1Stored(n, o, v))
              /\ reply' = [op |-> "none"]
    BY <1>9 DEF Plain!StoreMiss
  <2> DEFINE f == Plain!Fetched(hier, l, w)
             n == Plain!L1!NewLine(l, Plain!L2!CopyOf(f.l2, l).data)
             k == Plain!L1Stored(n, o, v)
  <2>2. n \in LineOf(Line) /\ n.line = l /\ n.data = now(l)
    BY <2>1, PlainFetches
  <2> HIDE DEF n
  <2>3. k \in LineOf(Line) /\ k.line = l /\ k.dirty /\ k.data = [n.data EXCEPT ![o] = v]
    BY <2>2 DEF Plain!L1Stored, LineOf, Data
  <2> HIDE DEF k
  <2>4. /\ PlainFine(hier')
        /\ Changes(Line, Front1(hier), hier, Front1(hier'), hier', l, k.data, k.dirty)
    BY <2>1, <2>3, PlainFetches DEF k, n
  <2>5. Plain!Store(l, o, v) /\ k.data = [now(l) EXCEPT ![o] = v]
    BY <1>9, <2>2, <2>3 DEF Plain!Store
  <2>6. PlainReply'
    BY <2>1 DEF PlainReply
  <2> HIDE DEF now
  <2>7. QED
    BY <1>5, <2>4, <2>5, <2>6
<1>10. QED
  BY <1>1, <1>6, <1>7, <1>8, <1>9 DEF Plain!Load, Plain!Store

\* What the properties of MCHierarchies say of the plain hierarchy.
LEMMA PlainFacts ==
    ASSUME PlainFine(hier), PlainReply
    PROVE  /\ Plain!TypeOK
           /\ Plain!Copies = Front1(hier)
           /\ L2!Includes(Plain!Copies, hier)
           /\ Plain!Agree
           /\ Plain!View = [l \in Line |-> Reads(Front1(hier), hier.l2, hier.mem, l)]
<1>1. Plain!Copies = Front1(hier)
  BY PlainGeometry DEF Plain!Copies, Front1, LinesIn
<1>2. Sound(Line, Front1(hier), hier.l2, hier.mem) /\ Line \in SUBSET Line
      /\ Behind(Line, hier.l2, hier.mem)
  BY DEF PlainFine, Fit, Sound
<1>3. L2!Includes(Plain!Copies, hier)
  BY <1>1, <1>2 DEF L2!Includes, Sound
<1>4. Plain!Agree
  <2>1. ASSUME NEW l \in Line, L2!Cached(hier.l2, l), ~L2!CopyOf(hier.l2, l).dirty
        PROVE  L2!CopyOf(hier.l2, l).data = hier.mem[l]
    <3>1. PICK v \in L2!Ways : L2!Holds(hier.l2, l, v)
      BY <2>1 DEF L2!Cached
    <3>2. L2!CopyOf(hier.l2, l) = hier.l2[L2!SetIndex(l)][v]
      BY <1>2, <3>1, Found
    <3>3. L2!SetIndex(l) \in 0..(L2Sets - 1) /\ v \in 0..(L2Ways - 1)
      BY Geometry
    <3>4. QED
      BY <1>2, <2>1, <3>1, <3>2, <3>3 DEF Behind, L2!Holds
  <2>2. QED
    BY <1>1, <1>2, <2>1, PlainL2 DEF Plain!Agree, Plain!L2!AllAgree, Sound
<1>5. Plain!View = [l \in Line |-> Reads(Front1(hier), hier.l2, hier.mem, l)]
  BY <1>1, PlainL2 DEF Plain!View, Plain!L2!Flattened, Reads
<1>6. Plain!TypeOK
  <2>1. hier \in [l1 : Plain!L1!Array, used1 : Plain!L1!Ranks, l2 : Plain!L2!Array,
                  used2 : Plain!L2!Ranks, mem : [Line -> [Offset -> Byte]]]
    <3>1. Plain!L1!Array = ArrayFor(L1Sets, L1Ways, Line)
          /\ Plain!L1!Ranks = RanksFor(L1Sets, L1Ways)
      BY DEF Plain!L1!Array, ArrayFor, Plain!L1!Sets, Plain!L1!Ways, Plain!L1!CacheLine,
             LineOf, Data, Plain!L1!Data, Plain!L1!Ranks, RanksFor
    <3>2. Plain!L2!Array = ArrayFor(L2Sets, L2Ways, Line) /\ Plain!L2!Ranks = L2!Ranks
      BY DEF Plain!L2!Array, ArrayFor, Plain!L2!Sets, Plain!L2!Ways, Plain!L2!CacheLine,
             LineOf, Data, Plain!L2!Data, Plain!L2!Ranks, L2!Ranks, L2!Sets, L2!Ways
    <3>3. /\ hier = [f \in DOMAIN hier |-> hier[f]]
          /\ DOMAIN hier = {"l1", "used1", "l2", "used2", "mem"}
          /\ hier.l1 \in Plain!L1!Array /\ hier.used1 \in Plain!L1!Ranks
          /\ hier.l2 \in Plain!L2!Array /\ hier.used2 \in Plain!L2!Ranks
          /\ hier.mem \in [Line -> [Offset -> Byte]]
      BY <1>2, <3>1, <3>2 DEF PlainFine, Fit, Shape, Behind, Data
    <3>4. QED
      BY <3>3
  <2>2. QED
    BY <2>1 DEF Plain!TypeOK, PlainReply
<1>7. QED
  BY <1>1, <1>3, <1>4, <1>5, <1>6

-----------------------------------------------------------------------------
(* Part 4.  The SMTCache in front.                                         *)

\* Induction over the naturals, with a set for what is shown of them.
LEMMA NaturalInduction ==
    ASSUME NEW N, 0 \in N, \A n \in Nat : n \in N => n + 1 \in N
    PROVE  Nat \subseteq N
<1>1. SUFFICES ASSUME Nat \ N # {} PROVE FALSE
  OBVIOUS
<1>2. PICK n \in Nat \ N : \A k \in Nat \ N : n <= k
  BY <1>1, LeastOf
<1>3. n - 1 \in Nat /\ ~(n <= n - 1) /\ (n - 1) + 1 = n
  BY <1>2
<1>4. n - 1 \in N
  BY <1>2, <1>3
<1>5. QED
  BY <1>2, <1>3, <1>4

\* A function on the parts of 1..n that writes back the lines q of its argument,
\* the one of the highest index last.
WritesBack(h, q, n, it) ==
    it = [s \in SUBSET (1..n) |->
            IF s = {} THEN h
            ELSE Smt!WriteBackBorrowed(it[s \ {Smt!Max(s)}], q[Smt!Max(s)])]

\* There is a function that writes back the first n of the lines q, for every
\* n.
LEMMA WritesBackExists ==
    ASSUME NEW h, NEW q
    PROVE  \A n \in Nat : \E it : WritesBack(h, q, n, it)
<1> DEFINE N == {n \in Nat : \E it : WritesBack(h, q, n, it)}
<1>1. 0 \in N
  <2> DEFINE it == [s \in SUBSET (1..0) |-> h]
  <2>1. \A s \in SUBSET (1..0) : s = {}
    OBVIOUS
  <2>2. WritesBack(h, q, 0, it)
    BY <2>1 DEF WritesBack
  <2>3. QED
    BY <2>2
<1>2. ASSUME NEW n \in Nat, n \in N
      PROVE  n + 1 \in N
  <2>1. PICK it : WritesBack(h, q, n, it)
    BY <1>2
  <2> DEFINE up == [s \in SUBSET (1..(n + 1)) |->
                      IF n + 1 \in s THEN Smt!WriteBackBorrowed(it[s \ {n + 1}], q[n + 1])
                      ELSE it[s]]
             top(s) == Smt!Max(s)
  <2>2. ASSUME NEW s \in SUBSET (1..(n + 1)), s # {}
        PROVE  up[s] = Smt!WriteBackBorrowed(up[s \ {top(s)}], q[top(s)])
    <3>1. CASE n + 1 \in s
      <4>1. top(s) = n + 1
        <5>1. \A y \in s : y \in Int /\ n + 1 >= y
          OBVIOUS
        <5>2. \A x \in s : (\A y \in s : x >= y) => x = n + 1
          BY <3>1, <5>1
        <5>3. QED
          BY <3>1, <5>1, <5>2 DEF Smt!Max
      <4>2. s \ {n + 1} \in SUBSET (1..(n + 1)) /\ n + 1 \notin s \ {n + 1}
        OBVIOUS
      <4>3. up[s \ {n + 1}] = it[s \ {n + 1}]
        BY <4>2
      <4>4. QED
        BY <3>1, <4>1, <4>3
    <3>2. CASE n + 1 \notin s
      <4>1. s \in SUBSET (1..n)
        BY <3>2
      <4> HIDE DEF top
      <4>2. up[s] = it[s] /\ up[s \ {top(s)}] = it[s \ {top(s)}]
        BY <3>2
      <4> HIDE DEF up
      <4>3. it[s] = Smt!WriteBackBorrowed(it[s \ {top(s)}], q[top(s)])
        BY <2>1, <2>2, <4>1 DEF WritesBack, top
      <4>4. QED
        BY <4>2, <4>3
    <3>3. QED
      BY <3>1, <3>2
  <2>3. up[{}] = h
    <3>1. up[{}] = it[{}]
      OBVIOUS
    <3>2. it[{}] = h
      BY <2>1 DEF WritesBack
    <3>3. QED
      BY <3>1, <3>2
  <2>4. up = [s \in SUBSET (1..(n + 1)) |-> up[s]]
    OBVIOUS
  <2> HIDE DEF up
  <2>5. WritesBack(h, q, n + 1, up)
    BY <2>2, <2>3, <2>4 DEF WritesBack, top
  <2>6. QED
    BY <2>5
<1>3. QED
  BY <1>1, <1>2, NaturalInduction

\* The hierarchy is at[k] after the first k of n lines q have been written back.
FlushRun(h, q, n, at) ==
    /\ at[0] = h
    /\ \A k \in 0..(n - 1) : at[k + 1] = Smt!WriteBackBorrowed(at[k], q[k + 1])
    /\ Smt!FoldLeft(Smt!WriteBackBorrowed, h, q) = at[n]

\* The fold goes through the lines in order.
LEMMA FlushIsStepwise ==
    ASSUME NEW h, NEW q, NEW n \in Nat, DOMAIN q = 1..n
    PROVE  \E at : FlushRun(h, q, n, at)
<1> DEFINE it == CHOOSE it : WritesBack(h, q, n, it)
           at == [k \in 0..n |-> it[1..k]]
<1>1. WritesBack(h, q, n, it)
  BY WritesBackExists
<1>2. Smt!FoldLeft(Smt!WriteBackBorrowed, h, q) = it[1..n]
  BY DEF Smt!FoldLeft, Smt!MapThenFoldSet, WritesBack
<1> HIDE DEF it
<1>3. it[1..0] = h
  BY <1>1 DEF WritesBack
<1>4. ASSUME NEW k \in 0..(n - 1)
      PROVE  it[1..(k + 1)] = Smt!WriteBackBorrowed(it[1..k], q[k + 1])
  <2> DEFINE s == 1..(k + 1)
  <2>1. Smt!Max(s) = k + 1
    <3>1. k + 1 \in s /\ \A y \in s : k + 1 >= y
      OBVIOUS
    <3>2. \A x \in s : (\A y \in s : x >= y) => x = k + 1
      OBVIOUS
    <3>3. QED
      BY <3>1, <3>2 DEF Smt!Max
  <2>2. s \in SUBSET (1..n) /\ s # {} /\ s \ {k + 1} = 1..k
    OBVIOUS
  <2> HIDE DEF s
  <2>3. it[s] = Smt!WriteBackBorrowed(it[s \ {Smt!Max(s)}], q[Smt!Max(s)])
    BY <1>1, <2>2 DEF WritesBack
  <2>4. QED
    BY <2>1, <2>2, <2>3 DEF s
<1>5. QED
  <2>1. at[0] = h /\ at[n] = it[1..n]
    BY <1>3
  <2>2. \A k \in 0..(n - 1) : at[k] = it[1..k] /\ at[k + 1] = it[1..(k + 1)]
    OBVIOUS
  <2> HIDE DEF at
  <2>3. FlushRun(h, q, n, at)
    BY <1>2, <1>4, <2>1, <2>2 DEF FlushRun
  <2>4. QED
    BY <2>3

-----------------------------------------------------------------------------
(* The slices.                                                             *)

LinesOf(d) == IF d = "High" THEN HighLine ELSE LowLine

SliceOf == [owner : {"High", "Low"} \cup {None},
            cache : ArrayFor(L1Sets, L1Ways, Line), rank : RanksFor(L1Sets, L1Ways)]

\* Slice q is well formed, and its lines are of its owner.
SliceFine(q) ==
    /\ q \in SliceOf /\ Filed(L1Sets, L1Ways, q.cache)
    /\ \A n \in LinesIn(L1Sets, L1Ways, q.cache) :
        q.owner # None /\ n.line \in LinesOf(q.owner)

SlicesFine(S) ==
    /\ S = [i \in DOMAIN S |-> S[i]] /\ \E n \in SliceCounts : DOMAIN S = 0..(n - 1)
    /\ \A i \in DOMAIN S : SliceFine(S[i])
    /\ \A i, j \in DOMAIN S : S[i].owner = S[j].owner /\ S[i].owner # None => i = j

LinesOfSlice(S, i) == LinesIn(L1Sets, L1Ways, S[i].cache)
FrontS(S) == UNION {LinesOfSlice(S, i) : i \in DOMAIN S}

\* The slices with q for slice i.
WithSlice(S, i, q) == [S EXCEPT ![i] = q]

\* A line is in one slice.
LEMMA OneSlice ==
    ASSUME NEW S, SlicesFine(S), NEW i \in DOMAIN S, NEW j \in DOMAIN S,
           NEW n \in LinesOfSlice(S, i), NEW k \in LinesOfSlice(S, j), n.line = k.line
    PROVE  i = j
<1>1. /\ S[i].owner \in {"High", "Low"} /\ n.line \in LinesOf(S[i].owner)
      /\ S[j].owner \in {"High", "Low"} /\ k.line \in LinesOf(S[j].owner)
  <2>1. SliceFine(S[i]) /\ SliceFine(S[j])
    BY DEF SlicesFine
  <2>2. S[i].owner \in {"High", "Low"} \cup {None} /\ S[j].owner \in {"High", "Low"} \cup {None}
    BY <2>1 DEF SliceFine, SliceOf
  <2>3. QED
    BY <2>1, <2>2 DEF SliceFine, LinesOfSlice
<1>2. S[i].owner = S[j].owner
  BY <1>1, HierarchyAssumption DEF LinesOf
<1>3. S[i].owner # None
  BY <1>1, HierarchyAssumption
<1>4. QED
  BY <1>2, <1>3 DEF SlicesFine

\* Giving slice i the state q, when no other slice has its owner.
LEMMA SetSlice ==
    ASSUME NEW S, SlicesFine(S), NEW i \in DOMAIN S, NEW q, SliceFine(q),
           \A j \in DOMAIN S : q.owner = S[j].owner /\ q.owner # None => i = j
    PROVE  LET R == WithSlice(S, i, q) IN
           /\ SlicesFine(R) /\ DOMAIN R = DOMAIN S
           /\ R[i] = q /\ \A j \in DOMAIN S : j # i => R[j] = S[j]
           /\ FrontS(R) = (FrontS(S) \ LinesOfSlice(S, i)) \cup LinesIn(L1Sets, L1Ways, q.cache)
<1> DEFINE R == WithSlice(S, i, q)
<1>1. /\ DOMAIN R = DOMAIN S /\ R[i] = q /\ \A j \in DOMAIN S : j # i => R[j] = S[j]
      /\ R = [j \in DOMAIN R |-> R[j]]
  BY DEF WithSlice, SlicesFine
<1> HIDE DEF R
<1>2. SlicesFine(R)
  <2>1. \A j \in DOMAIN R : SliceFine(R[j])
    BY <1>1 DEF SlicesFine
  <2>2. \A j, k \in DOMAIN R : R[j].owner = R[k].owner /\ R[j].owner # None => j = k
    BY <1>1 DEF SlicesFine
  <2>3. QED
    BY <1>1, <2>1, <2>2 DEF SlicesFine
<1>3. \A j \in DOMAIN S : j # i => LinesOfSlice(R, j) = LinesOfSlice(S, j)
  BY <1>1 DEF LinesOfSlice
<1>4. LinesOfSlice(R, i) = LinesIn(L1Sets, L1Ways, q.cache)
  BY <1>1 DEF LinesOfSlice
<1>5. \A j \in DOMAIN S : j # i => \A n \in LinesOfSlice(S, j) : n \notin LinesOfSlice(S, i)
  BY OneSlice
<1>6. FrontS(R) = (FrontS(S) \ LinesOfSlice(S, i)) \cup LinesIn(L1Sets, L1Ways, q.cache)
  <2>1. ASSUME NEW n \in FrontS(R)
        PROVE  n \in (FrontS(S) \ LinesOfSlice(S, i)) \cup LinesIn(L1Sets, L1Ways, q.cache)
    <3>1. PICK j \in DOMAIN S : n \in LinesOfSlice(R, j)
      BY <1>1 DEF FrontS
    <3>2. QED
      BY <3>1, <1>3, <1>4, <1>5 DEF FrontS
  <2>2. ASSUME NEW n \in FrontS(S), n \notin LinesOfSlice(S, i)
        PROVE  n \in FrontS(R)
    <3>1. PICK j \in DOMAIN S : n \in LinesOfSlice(S, j)
      BY DEF FrontS
    <3>2. QED
      BY <3>1, <2>2, <1>1, <1>3 DEF FrontS
  <2>3. LinesIn(L1Sets, L1Ways, q.cache) \subseteq FrontS(R)
    BY <1>1, <1>4 DEF FrontS
  <2>4. QED
    BY <2>1, <2>2, <2>3
<1>7. QED
  BY <1>1, <1>2, <1>6 DEF R

\* Array c without line l.
Cleared(c, l) ==
    [c EXCEPT ![l % L1Sets] = [w \in 0..(L1Ways - 1) |->
        IF c[l % L1Sets][w] # None /\ c[l % L1Sets][w].line = l THEN None
        ELSE c[l % L1Sets][w]]]

\* Taking line l out of an array removes that line only.
LEMMA ClearedIn ==
    ASSUME NEW c \in ArrayFor(L1Sets, L1Ways, Line), Filed(L1Sets, L1Ways, c),
           NEW l \in Line
    PROVE  LET d == Cleared(c, l) IN
           /\ d \in ArrayFor(L1Sets, L1Ways, Line) /\ Filed(L1Sets, L1Ways, d)
           /\ Thinned(L1Sets, L1Ways, c, d)
           /\ LinesIn(L1Sets, L1Ways, d) = {n \in LinesIn(L1Sets, L1Ways, c) : n.line # l}
<1> DEFINE s == l % L1Sets
           d == Cleared(c, l)
           gone(t, v) == t = s /\ c[s][v] # None /\ c[s][v].line = l
<1>1. s \in 0..(L1Sets - 1)
  BY Geometry
<1>2. d \in ArrayFor(L1Sets, L1Ways, Line)
  <2>1. [w \in 0..(L1Ways - 1) |-> IF c[s][w] # None /\ c[s][w].line = l THEN None ELSE c[s][w]]
            \in [0..(L1Ways - 1) -> LineOf(Line) \cup {None}]
    BY <1>1 DEF ArrayFor
  <2>2. QED
    BY <1>1, <2>1 DEF ArrayFor, Cleared
<1>3. \A t \in 0..(L1Sets - 1), v \in 0..(L1Ways - 1) :
         d[t][v] = IF gone(t, v) THEN None ELSE c[t][v]
  BY <1>1 DEF ArrayFor, Cleared
<1> HIDE DEF d
<1>4. \A t \in 0..(L1Sets - 1), v \in 0..(L1Ways - 1) :
        c[t][v] # None => (gone(t, v) <=> c[t][v].line = l)
  BY DEF Filed
<1> HIDE DEF gone, s
<1>5. \A t \in 0..(L1Sets - 1), v \in 0..(L1Ways - 1) :
         /\ d[t][v] # None => d[t][v] = c[t][v] /\ c[t][v].line # l
         /\ c[t][v] # None /\ c[t][v].line # l => d[t][v] = c[t][v]
  BY <1>3, <1>4
<1>6. Filed(L1Sets, L1Ways, d)
  BY <1>5 DEF Filed
<1>7. Thinned(L1Sets, L1Ways, c, d)
  BY <1>3 DEF Thinned
<1>8. LinesIn(L1Sets, L1Ways, d) = {n \in LinesIn(L1Sets, L1Ways, c) : n.line # l}
  <2>1. ASSUME NEW n \in LinesIn(L1Sets, L1Ways, d)
        PROVE  n \in LinesIn(L1Sets, L1Ways, c) /\ n.line # l
    BY <1>5 DEF LinesIn
  <2>2. ASSUME NEW n \in LinesIn(L1Sets, L1Ways, c), n.line # l
        PROVE  n \in LinesIn(L1Sets, L1Ways, d)
    BY <1>5, <2>2 DEF LinesIn
  <2>3. QED
    BY <2>1, <2>2
<1>9. QED
  BY <1>2, <1>6, <1>7, <1>8 DEF d

\* Every slice gives up line l.
Purged(S, l) == [i \in DOMAIN S |-> [S[i] EXCEPT !.cache = Cleared(S[i].cache, l)]]

\* Slices R are slices S with some lines gone.
Thinner(S, R) ==
    /\ DOMAIN R = DOMAIN S
    /\ \A i \in DOMAIN S :
        /\ R[i].owner = S[i].owner /\ R[i].rank = S[i].rank
        /\ Thinned(L1Sets, L1Ways, S[i].cache, R[i].cache)

\* Taking line l out of every slice removes that line only.
LEMMA PurgeSlices ==
    ASSUME NEW S, SlicesFine(S), NEW l \in Line
    PROVE  LET R == Purged(S, l) IN
           /\ SlicesFine(R) /\ Thinner(S, R)
           /\ FrontS(R) = {n \in FrontS(S) : n.line # l}
<1> DEFINE R == Purged(S, l)
<1>1. ASSUME NEW i \in DOMAIN S
      PROVE  /\ SliceFine(R[i]) /\ R[i].owner = S[i].owner /\ R[i].rank = S[i].rank
             /\ Thinned(L1Sets, L1Ways, S[i].cache, R[i].cache)
             /\ LinesOfSlice(R, i) = {n \in LinesOfSlice(S, i) : n.line # l}
  <2> DEFINE q == S[i]
             d == Cleared(q.cache, l)
  <2>1. R[i] = [q EXCEPT !.cache = d]
    BY DEF Purged
  <2>2. SliceFine(q)
    BY DEF SlicesFine
  <2>3. q \in SliceOf /\ Filed(L1Sets, L1Ways, q.cache)
        /\ q.cache \in ArrayFor(L1Sets, L1Ways, Line)
    BY <2>2 DEF SliceFine, SliceOf
  <2>4. /\ d \in ArrayFor(L1Sets, L1Ways, Line) /\ Filed(L1Sets, L1Ways, d)
        /\ Thinned(L1Sets, L1Ways, q.cache, d)
        /\ LinesIn(L1Sets, L1Ways, d) =
             {n \in LinesIn(L1Sets, L1Ways, q.cache) : n.line # l}
    <3> DEFINE c == q.cache
    <3>1. c \in ArrayFor(L1Sets, L1Ways, Line) /\ Filed(L1Sets, L1Ways, c)
      BY <2>3
    <3> HIDE DEF c, q
    <3>2. /\ Cleared(c, l) \in ArrayFor(L1Sets, L1Ways, Line)
          /\ Filed(L1Sets, L1Ways, Cleared(c, l))
          /\ Thinned(L1Sets, L1Ways, c, Cleared(c, l))
          /\ LinesIn(L1Sets, L1Ways, Cleared(c, l)) =
               {n \in LinesIn(L1Sets, L1Ways, c) : n.line # l}
      BY <3>1, ClearedIn
    <3>3. QED
      BY <3>2 DEF c
  <2> HIDE DEF d, q, R
  <2>5. /\ R[i] \in SliceOf /\ R[i].cache = d /\ R[i].owner = q.owner
        /\ R[i].rank = q.rank
    BY <2>1, <2>3, <2>4 DEF SliceOf
  <2>6. SliceFine(R[i])
    BY <2>2, <2>4, <2>5 DEF SliceFine
  <2>7. QED
    BY <2>4, <2>5, <2>6 DEF LinesOfSlice, q
<1>2. DOMAIN R = DOMAIN S /\ R = [i \in DOMAIN R |-> R[i]]
  BY DEF Purged
<1> HIDE DEF R
<1>3. SlicesFine(R)
  <2>1. \A i \in DOMAIN R : SliceFine(R[i]) /\ R[i].owner = S[i].owner
    BY <1>1, <1>2
  <2>2. QED
    BY <1>2, <2>1 DEF SlicesFine
<1>4. Thinner(S, R)
  BY <1>1, <1>2 DEF Thinner
<1>5. FrontS(R) = {n \in FrontS(S) : n.line # l}
  BY <1>1, <1>2 DEF FrontS
<1>6. QED
  BY <1>3, <1>4, <1>5 DEF R

\* The L2's operators are those of MCHierarchies.
LEMMA SmtL2 ==
    /\ \A c, l : Smt!L2!Cached(c, l) = L2!Cached(c, l)
    /\ \A c, l : Smt!L2!CopyOf(c, l) = L2!CopyOf(c, l)
    /\ \A h, l : Smt!L2!HitWayOf(h, l) = L2!HitWayOf(h, l)
    /\ \A h, l : Smt!L2!VictimWay(h, l) = L2!VictimWay(h, l)
    /\ \A h, l, w, n : Smt!L2!Place(h, l, w, n) = L2!Place(h, l, w, n)
    /\ \A h, l, d : Smt!L2!StoreWithRoom(h, l, d) = L2!StoreWithRoom(h, l, d)
    /\ \A c, l, w : Smt!L2!Drop(c, l, w) = L2!Drop(c, l, w)
    /\ \A m, n : Smt!L2!WriteBack(m, n) = L2!WriteBack(m, n)
    /\ \A l, d : Smt!L2!NewLine(l, d) = L2!NewLine(l, d)
    /\ \A l : Smt!L2!SetIndex(l) = L2!SetIndex(l)
BY DEF Smt!L2!Cached, L2!Cached, Smt!L2!CopyOf, L2!CopyOf,
       Smt!L2!HitWayOf, L2!HitWayOf, Smt!L2!VictimWay, L2!VictimWay,
       Smt!L2!Place, L2!Place, Smt!L2!StoreWithRoom, L2!StoreWithRoom,
       Smt!L2!Drop, L2!Drop, Smt!L2!WriteBack, L2!WriteBack,
       Smt!L2!NewLine, L2!NewLine, Smt!L2!SetIndex, L2!SetIndex,
       Smt!L2!DirtyLine, L2!DirtyLine, Smt!L2!HitWay, L2!HitWay,
       Smt!L2!Holds, L2!Holds, Smt!L2!Ways, L2!Ways, Smt!L2!Put, L2!Put,
       Smt!L2!Touch, L2!Touch, Smt!L2!Victim, L2!Victim,
       Smt!L2!FirstEmpty, L2!FirstEmpty, Smt!L2!LeastRecent, L2!LeastRecent

SmtTaken(h, l, w, old) ==
    [h EXCEPT !.l2 = Smt!L2!Drop(@, l, w), !.mem = Smt!L2!WriteBack(@, old)]

\* The L2 takes a victim out in the same way with the SMTCache in front.
LEMMA SmtTakes ==
    ASSUME NEW h, NEW l, NEW w, NEW old
    PROVE  SmtTaken(h, l, w, old) = Taken(h, l, w, old)
BY DEF SmtTaken, Taken, Smt!L2!Drop, L2!Drop, Smt!L2!WriteBack,
       L2!WriteBack, Smt!L2!SetIndex, L2!SetIndex

\* The SMTCache's read of a line that the L2 has.
LEMMA SmtL2Hit ==
    ASSUME NEW h, NEW l, L2!Cached(h.l2, l)
    PROVE  Smt!Filled(h, l) = L2!Place(h, l, L2!HitWayOf(h, l), L2!CopyOf(h.l2, l))
BY SmtL2 DEF Smt!Filled, Smt!L2!LoadLine

\* Its read of one that the L2 has not.
LEMMA SmtL2Miss ==
    ASSUME NEW h, NEW l, ~L2!Cached(h.l2, l)
    PROVE  LET w == L2!VictimWay(h, l)
               old == h.l2[L2!SetIndex(l)][w]
               t == Taken(h, l, w, old)
           IN  Smt!Filled(h, l) =
                 Answered(IF old = None THEN t ELSE Smt!InvalidateLine(t, old.line), l, w)
<1> DEFINE w == Smt!L2!VictimWay(h, l)
           old == h.l2[Smt!L2!SetIndex(l)][w]
           t == SmtTaken(h, l, w, old)
           e == Smt!L2!Evict(h, l, w, Smt!InvalidateLine)
<1>1. e = IF old = None THEN t ELSE Smt!InvalidateLine(t, old.line)
  BY DEF Smt!L2!Evict, SmtTaken
<1>2. Smt!Filled(h, l) = Smt!L2!Place(e, l, w, Smt!L2!NewLine(l, e.mem[l]))
  BY SmtL2 DEF Smt!Filled, Smt!L2!LoadLine
<1> HIDE DEF e
<1>3. Smt!Filled(h, l) = Answered(e, l, w)
  BY <1>2, SmtL2 DEF Answered
<1>4. w = L2!VictimWay(h, l) /\ old = h.l2[L2!SetIndex(l)][w] /\ t = Taken(h, l, w, old)
  BY SmtL2, SmtTakes
<1> HIDE DEF t, old, w
<1>5. QED
  BY <1>1, <1>3, <1>4


\* The operators of the SMTCache in terms of arrays.
LEMMA SmtGeometry ==
    /\ Smt!SM!Ways = 0..(L1Ways - 1) /\ Smt!SM!Sets = 0..(L1Sets - 1)
    /\ \A l : Smt!SM!SetIndex(l) = l % L1Sets
    /\ \A c, l, w : Smt!SM!Drop(c, l, w) = With(c, l % L1Sets, w, None)
    /\ \A c, l, w, n : Smt!SM!Put(c, l, w, n) = With(c, l % L1Sets, w, n)
    /\ \A r, s, w : Smt!SM!Touch(r, s, w) = Touched(L1Ways, r, s, w)
    /\ \A c, l : Smt!Without(c, l) = Cleared(c, l)
    /\ \A d : Smt!SM!LinesOf(d) = LinesOf(d)
    /\ Smt!SM!NoLines = Blank(L1Sets, L1Ways)
BY DEF Smt!SM!Ways, Smt!SM!Sets, Smt!SM!SetIndex, Smt!SM!Drop, Smt!SM!Put,
       Smt!SM!Touch, With, Touched, Smt!Without, Smt!SM!Holds, Cleared,
       Smt!SM!LinesOf, LinesOf, Smt!SM!NoLines, Blank

\* A line is found in a slice where it is.
LEMMA SliceHit ==
    ASSUME NEW q, SliceFine(q), NEW l \in Line
    PROVE  /\ Smt!SM!Cached(q.cache, l) <=>
                \E n \in LinesIn(L1Sets, L1Ways, q.cache) : n.line = l
           /\ Smt!SM!Cached(q.cache, l) =>
                Smt!SM!CopyOf(q.cache, l) \in LinesIn(L1Sets, L1Ways, q.cache)
                /\ Smt!SM!CopyOf(q.cache, l).line = l
<1> DEFINE c == q.cache
           s == l % L1Sets
<1>1. /\ c \in ArrayFor(L1Sets, L1Ways, Line) /\ Filed(L1Sets, L1Ways, c)
      /\ L1Sets \in Nat \ {0} /\ L1Ways \in Nat \ {0} /\ Line \in SUBSET Line
  BY HierarchyAssumption DEF SliceFine, SliceOf
<1> HIDE DEF c
<1>2. \A w : Smt!SM!Holds(c, l, w) <=> c[s][w] # None /\ c[s][w].line = l
  BY SmtGeometry DEF Smt!SM!Holds
<1>3. CASE Smt!SM!Cached(c, l)
  <2>1. PICK v \in Smt!SM!Ways : Smt!SM!Holds(c, l, v)
    BY <1>3 DEF Smt!SM!Cached
  <2> DEFINE w == CHOOSE w \in Smt!SM!Ways : Smt!SM!Holds(c, l, w)
  <2>2. w \in 0..(L1Ways - 1) /\ c[s][w] # None /\ c[s][w].line = l
    BY <2>1, <1>2, SmtGeometry
  <2>3. Smt!SM!CopyOf(c, l) = c[s][w]
    BY SmtGeometry DEF Smt!SM!CopyOf
  <2> HIDE DEF w
  <2>4. /\ c[l % L1Sets][w] \in LinesIn(L1Sets, L1Ways, c)
        /\ \A n \in LinesIn(L1Sets, L1Ways, c) : n.line = l => n = c[l % L1Sets][w]
        /\ \A u \in 0..(L1Ways - 1) :
              c[l % L1Sets][u] # None /\ c[l % L1Sets][u].line = l => u = w
        /\ \A u \in 0..(w - 1) : ~(c[l % L1Sets][u] # None /\ c[l % L1Sets][u].line = l)
    BY <1>1, <2>2, HeldOnce
  <2>5. QED
    BY <1>3, <2>2, <2>3, <2>4 DEF c
<1>4. CASE ~Smt!SM!Cached(c, l)
  <2>1. \A w \in 0..(L1Ways - 1) : ~(c[s][w] # None /\ c[s][w].line = l)
    BY <1>2, <1>4, SmtGeometry DEF Smt!SM!Cached
  <2>2. ~ \E n \in LinesIn(L1Sets, L1Ways, c) : n.line = l
    BY <1>1, <2>1, NotHeld
  <2>3. QED
    BY <1>4, <2>2 DEF c
<1>5. QED
  BY <1>3, <1>4

-----------------------------------------------------------------------------
(* The hierarchy.                                                          *)

SmtFine(h) ==
    /\ DOMAIN h = {"slices", "l2", "used2", "mem", "panicked"}
    /\ h.panicked = FALSE
    /\ SlicesFine(h.slices)
    /\ Fit(Line, FrontS(h.slices), h)

\* The hierarchy with slices R.
WithSlices(h, R) == [h EXCEPT !.slices = R]

\* Replacing the slices changes nothing behind them.
LEMMA SetSlices ==
    ASSUME NEW h, Shape(h), "slices" \in DOMAIN h, NEW R
    PROVE  LET r == WithSlices(h, R) IN
           /\ Shape(r) /\ DOMAIN r = DOMAIN h /\ r.slices = R
           /\ r.l2 = h.l2 /\ r.mem = h.mem /\ r.used2 = h.used2
           /\ "panicked" \in DOMAIN h => r.panicked = h.panicked
BY DEF WithSlices, Shape

\* The hierarchy without a line in its slices, as the listener makes it.
SmtWithout(h, l) ==
    [h EXCEPT !.slices = [i \in Smt!Slices |->
        [h.slices[i] EXCEPT !.cache = Smt!Without(h.slices[i].cache, l)]]]

\* What the listener does, of which holders are the slices with the line.
LEMMA SmtInvalidateIs ==
    ASSUME NEW h, NEW l, NEW holders,
           holders = {i \in Smt!Slices : Smt!SM!Cached(h.slices[i].cache, l)}
    PROVE  LET n == Smt!SM!CopyOf(h.slices[CHOOSE i \in holders : TRUE].cache, l)
               out == SmtWithout(h, l)
           IN  Smt!InvalidateLine(h, l) =
                  IF holders = {} THEN h
                  ELSE IF n.dirty THEN Smt!L2!StoreWithRoom(out, l, n.data) ELSE out
BY DEF Smt!InvalidateLine, SmtWithout

\* The slices have no copy of line k afterwards, and the L2 still has room for l.
SmtInvalidated(h, r, l, w, k) ==
    /\ Room(Line, h, r, l, w) /\ DOMAIN r = DOMAIN h
    /\ r.panicked = FALSE
    /\ SlicesFine(r.slices) /\ Thinner(h.slices, r.slices)
    /\ FrontS(r.slices) = {n \in FrontS(h.slices) : n.line # k}

\* invalidate_line, called by an L2 that has taken line k out: the slices
\* have no copy of it afterwards, and the L2 still has room for l.
LEMMA SmtInvalidates ==
    ASSUME NEW h, SmtFine(h), DOMAIN h.slices = DOMAIN hier.slices,
           NEW l \in Line, NEW w \in L2!Ways,
           L2!Victim(h.l2, h.used2, L2!SetIndex(l), w),
           NEW e, Room(Line, h, e, l, w), SameFront(h, e),
           h.l2[L2!SetIndex(l)][w] # None
    PROVE  LET k == h.l2[L2!SetIndex(l)][w].line
               r == Smt!InvalidateLine(e, k)
           IN  SmtInvalidated(h, r, l, w, k)
<1> DEFINE k == h.l2[L2!SetIndex(l)][w].line
           r == Smt!InvalidateLine(e, k)
           S == h.slices
           holders == {i \in DOMAIN S : Smt!SM!Cached(S[i].cache, k)}
           R == Purged(S, k)
           out == WithSlices(e, R)
<1>1. k \in Line
  BY Geometry, SlotIn DEF SmtFine, Fit, Sound, Behind
<1>2. e.slices = S /\ e.panicked = FALSE /\ DOMAIN e = DOMAIN h /\ "slices" \in DOMAIN e
      /\ "panicked" \in DOMAIN e /\ Shape(e) /\ SlicesFine(S)
  BY DEF SameFront, SmtFine, Room
<1> HIDE DEF k
<1>3. \A i \in DOMAIN S :
        /\ i \in holders <=> \E n \in LinesOfSlice(S, i) : n.line = k
        /\ i \in holders => /\ Smt!SM!CopyOf(S[i].cache, k) \in LinesOfSlice(S, i)
                            /\ Smt!SM!CopyOf(S[i].cache, k).line = k
  <2>1. \A i \in DOMAIN S : SliceFine(S[i])
    BY <1>2 DEF SlicesFine
  <2> HIDE DEF S
  <2>2. QED
    BY <1>1, <2>1, SliceHit DEF LinesOfSlice
<1>4. CASE holders = {}
  <2>1. r = e
    BY <1>2, <1>4 DEF Smt!InvalidateLine, Smt!Slices
  <2>2. \A n \in FrontS(S) : n.line # k
    BY <1>3, <1>4 DEF FrontS
  <2>3. Thinner(S, S)
    BY DEF Thinner, Thinned
  <2>4. QED
    BY <1>2, <2>1, <2>2, <2>3 DEF k, SmtInvalidated
<1>5. CASE holders # {}
  <2> DEFINE i == CHOOSE i \in holders : TRUE
             n == Smt!SM!CopyOf(S[i].cache, k)
  <2>1. i \in holders
    BY <1>5
  <2>2. SmtWithout(e, k) = out
    <3>1. [j \in Smt!Slices |-> [S[j] EXCEPT !.cache = Smt!Without(S[j].cache, k)]] = R
      <4>1. \A j \in DOMAIN S : [S[j] EXCEPT !.cache = Smt!Without(S[j].cache, k)]
                                    = [S[j] EXCEPT !.cache = Cleared(S[j].cache, k)]
        BY SmtGeometry
      <4>2. QED
        BY <1>2, <4>1 DEF Smt!Slices, Purged
    <3>2. SmtWithout(e, k) = [e EXCEPT !.slices = [j \in Smt!Slices |->
                               [S[j] EXCEPT !.cache = Smt!Without(S[j].cache, k)]]]
      <4> HIDE DEF S
      <4>1. QED
        BY <1>2 DEF SmtWithout
    <3> HIDE DEF R
    <3>3. QED
      BY <3>1, <3>2 DEF WithSlices
  <2>3. r = IF n.dirty THEN Smt!L2!StoreWithRoom(out, k, n.data) ELSE out
    <3>1. {j \in Smt!Slices : Smt!SM!Cached(e.slices[j].cache, k)} = holders
      BY <1>2 DEF Smt!Slices
    <3> HIDE DEF out, holders, S
    <3>2. QED
      BY <1>2, <1>5, <2>2, <3>1, SmtInvalidateIs
  <2> HIDE DEF r, i, holders, S
  <2>4. n \in FrontS(S) /\ n.line = k
    BY <1>3, <2>1 DEF FrontS, holders
  <2>5. n.data \in Data
    BY <2>4 DEF SmtFine, Fit, Sound, LineOf, S
  <2> HIDE DEF n
  <2>6. SlicesFine(R) /\ Thinner(S, R) /\ FrontS(R) = {x \in FrontS(S) : x.line # k}
    BY <1>1, <1>2, PurgeSlices
  <2> HIDE DEF R
  <2>7. /\ out.slices = R /\ DOMAIN out = DOMAIN h /\ out.panicked = FALSE
        /\ Room(Line, h, out, l, w)
    <3>1. /\ Shape(out) /\ DOMAIN out = DOMAIN e /\ out.slices = R
          /\ out.l2 = e.l2 /\ out.mem = e.mem /\ out.panicked = e.panicked
      BY <1>2, SetSlices
    <3> HIDE DEF out
    <3>2. QED
      BY <1>2, <3>1 DEF Room
  <2> HIDE DEF out
  <2>8. Room(Line, h, r, l, w) /\ r.slices = R /\ r.panicked = FALSE /\ DOMAIN r = DOMAIN h
    <3>1. CASE n.dirty
      <4>1. /\ Room(Line, h, L2!StoreWithRoom(out, k, n.data), l, w)
            /\ SameFront(out, L2!StoreWithRoom(out, k, n.data))
        <5>1. Behind(Line, h.l2, h.mem)
          BY DEF SmtFine, Fit, Sound
        <5>2. Line \in SUBSET Line
          OBVIOUS
        <5>3. QED
          BY <2>5, <2>7, <5>1, <5>2, RoomStore DEF k
      <4>2. r = L2!StoreWithRoom(out, k, n.data)
        BY <3>1, <2>3, SmtL2
      <4>3. QED
        BY <4>1, <4>2, <2>7, <1>2 DEF SameFront, SmtFine
    <3>2. CASE ~n.dirty
      BY <3>2, <2>3, <2>7
    <3>3. QED
      BY <3>1, <3>2
  <2>9. QED
    BY <2>6, <2>8 DEF r, S, k, SmtInvalidated
<1>6. QED
  BY <1>4, <1>5

\* The hierarchy with q for slice i.
WithSliceIn(h, i, q) == [h EXCEPT !.slices[i] = q]

\* From h to r slice i has become q, and nothing else has changed.
SliceSet(h, r, i, q) ==
    /\ Shape(r) /\ DOMAIN r = DOMAIN h
    /\ r.l2 = h.l2 /\ r.mem = h.mem /\ r.panicked = h.panicked
    /\ SlicesFine(r.slices) /\ DOMAIN r.slices = DOMAIN h.slices
    /\ r.slices[i] = q
    /\ \A j \in DOMAIN h.slices : j # i => r.slices[j] = h.slices[j]
    /\ FrontS(r.slices) = (FrontS(h.slices) \ LinesOfSlice(h.slices, i))
                            \cup LinesIn(L1Sets, L1Ways, q.cache)

\* No slice but i, perhaps, has owner o.
OwnerOnly(S, i, o) == \A j \in DOMAIN S : o = S[j].owner /\ o # None => i = j

\* Slice i gets the state q and nothing else changes.
LEMMA SetSliceIn ==
    ASSUME NEW h, Shape(h), DOMAIN h = {"slices", "l2", "used2", "mem", "panicked"},
           SlicesFine(h.slices), NEW i \in DOMAIN h.slices, NEW q, SliceFine(q),
           OwnerOnly(h.slices, i, q.owner)
    PROVE  SliceSet(h, WithSliceIn(h, i, q), i, q)
<1> DEFINE S == h.slices
           R == WithSlice(S, i, q)
           r == WithSliceIn(h, i, q)
<1>1. r = WithSlices(h, R)
  BY DEF WithSliceIn, WithSlices, WithSlice
<1> HIDE DEF r
<1>2. /\ SlicesFine(R) /\ DOMAIN R = DOMAIN S
      /\ R[i] = q /\ \A j \in DOMAIN S : j # i => R[j] = S[j]
      /\ FrontS(R) = (FrontS(S) \ LinesOfSlice(S, i)) \cup LinesIn(L1Sets, L1Ways, q.cache)
  <2>1. SlicesFine(S) /\ i \in DOMAIN S
        /\ \A j \in DOMAIN S : q.owner = S[j].owner /\ q.owner # None => i = j
    BY DEF OwnerOnly
  <2> HIDE DEF S
  <2>2. QED
    BY <2>1, SetSlice
<1> HIDE DEF R
<1>3. /\ Shape(r) /\ DOMAIN r = DOMAIN h /\ r.slices = R
      /\ r.l2 = h.l2 /\ r.mem = h.mem /\ r.panicked = h.panicked
  BY <1>1, SetSlices
<1>4. QED
  BY <1>2, <1>3 DEF r, S, SliceSet

\* Slice i with another array.
WithCache(h, i, c) == [h EXCEPT !.slices[i].cache = c]
\* The same when only the slice's array is replaced.
LEMMA SetCache ==
    ASSUME NEW h, Shape(h), DOMAIN h = {"slices", "l2", "used2", "mem", "panicked"},
           SlicesFine(h.slices), NEW i \in DOMAIN h.slices,
           NEW c \in ArrayFor(L1Sets, L1Ways, Line), Filed(L1Sets, L1Ways, c),
           \A n \in LinesIn(L1Sets, L1Ways, c) :
              h.slices[i].owner # None /\ n.line \in LinesOf(h.slices[i].owner)
    PROVE  LET r == WithCache(h, i, c) IN
           /\ SliceSet(h, r, i, r.slices[i]) /\ r.slices[i].cache = c
           /\ r.slices[i].owner = h.slices[i].owner /\ r.slices[i].rank = h.slices[i].rank
<1> DEFINE p == h.slices[i]
           q == [p EXCEPT !.cache = c]
           r == WithCache(h, i, c)
<1>1. r = WithSliceIn(h, i, q)
  BY DEF WithSliceIn, WithCache
<1>2. SliceFine(p)
  BY DEF SlicesFine
<1>3. q \in SliceOf /\ q.cache = c /\ q.owner = p.owner /\ q.rank = p.rank
  <2> HIDE DEF p
  <2>1. p \in SliceOf
    BY <1>2 DEF SliceFine
  <2>2. QED
    BY <2>1 DEF SliceOf
<1> HIDE DEF q, r
<1>4. SliceFine(q)
  BY <1>3 DEF SliceFine
<1>5. OwnerOnly(h.slices, i, q.owner)
  BY <1>3 DEF SlicesFine, OwnerOnly
<1>6. SliceSet(h, WithSliceIn(h, i, q), i, q)
  BY <1>4, <1>5, SetSliceIn
<1>7. SliceSet(h, r, i, q) /\ r.slices[i] = q
  BY <1>1, <1>6 DEF SliceSet
<1>8. QED
  BY <1>3, <1>7 DEF r

\* A load that the SMTCache sends to the L2.
LEMMA SmtLoads ==
    ASSUME NEW h, SmtFine(h), DOMAIN h.slices = DOMAIN hier.slices, NEW l \in Line
    PROVE  LET r == Smt!Filled(h, l) IN
           /\ SmtFine(r) /\ L2!Cached(r.l2, l)
           /\ Kept(Line, FrontS(h.slices), h, FrontS(r.slices), r)
           /\ Thinner(h.slices, r.slices) /\ FrontS(r.slices) \subseteq FrontS(h.slices)
<1> DEFINE r == Smt!Filled(h, l)
           w == L2!VictimWay(h, l)
           old == h.l2[L2!SetIndex(l)][w]
           t == Taken(h, l, w, old)
           e == IF old = None THEN t ELSE Smt!InvalidateLine(t, old.line)
           F == FrontS(h.slices)
<1>1. /\ Fit(Line, F, h) /\ Line \in SUBSET Line /\ Behind(Line, h.l2, h.mem)
      /\ DOMAIN h = {"slices", "l2", "used2", "mem", "panicked"} /\ Shape(h)
      /\ SlicesFine(h.slices) /\ h.panicked = FALSE
      /\ Thinner(h.slices, h.slices)
  BY DEF SmtFine, Fit, Sound, Thinner, Thinned
<1> HIDE DEF r, F
<1>2. CASE L2!Cached(h.l2, l)
  <2>1. r = L2!Place(h, l, L2!HitWayOf(h, l), L2!CopyOf(h.l2, l))
    BY <1>2, SmtL2Hit DEF r
  <2>2. Fit(Line, F, r) /\ SameFront(h, r) /\ Quiet(Line, F, h, F, r)
    BY <1>1, <1>2, <2>1, Reload
  <2>3. r.slices = h.slices /\ r.panicked = h.panicked /\ DOMAIN r = DOMAIN h
    BY <1>1, <2>2 DEF SameFront
  <2>4. FrontS(r.slices) = F
    BY <2>3 DEF F
  <2>5. L2!Cached(r.l2, l) /\ Kept(Line, F, h, F, r)
    BY <1>2, <2>2 DEF Quiet, Kept, StaysClean
  <2>6. SmtFine(r)
    BY <1>1, <2>2, <2>3, <2>4 DEF SmtFine
  <2>7. QED
    BY <1>1, <2>3, <2>4, <2>5, <2>6 DEF F, r
<1>3. CASE ~L2!Cached(h.l2, l)
  <2>1. r = Answered(e, l, w)
    BY <1>3, SmtL2Miss DEF r
  <2>2. w \in L2!Ways /\ L2!Victim(h.l2, h.used2, L2!SetIndex(l), w)
    BY <1>1, VictimExists DEF Shape
  <2>3. Room(Line, h, t, l, w) /\ SameFront(h, t)
    <3> HIDE DEF w
    <3>1. QED
      BY <1>1, <2>2, RoomStart DEF Taken
  <2> HIDE DEF t, w
  <2>4. /\ Room(Line, h, e, l, w) /\ DOMAIN e = DOMAIN h /\ e.panicked = FALSE
        /\ SlicesFine(e.slices) /\ Thinner(h.slices, e.slices)
        /\ FrontS(e.slices) = {n \in F : old = None \/ n.line # old.line}
    <3>1. CASE old = None
      <4>1. e = t
        BY <3>1
      <4> HIDE DEF e
      <4>2. e.slices = h.slices /\ e.panicked = h.panicked /\ DOMAIN e = DOMAIN h
        BY <4>1, <2>3, <1>1 DEF SameFront
      <4>3. QED
        BY <3>1, <4>1, <4>2, <2>3, <1>1 DEF F
    <3>2. CASE old # None
      <4>1. e = Smt!InvalidateLine(t, old.line)
        BY <3>2
      <4> HIDE DEF e
      <4>2. h.l2[L2!SetIndex(l)][w] # None
        BY <3>2
      <4> DEFINE k == h.l2[L2!SetIndex(l)][w].line
                 x == Smt!InvalidateLine(t, k)
      <4>3. SmtInvalidated(h, x, l, w, k)
        <5> HIDE DEF old
        <5>1. QED
          BY <4>2, <2>2, <2>3, SmtInvalidates
      <4>4. x = e /\ k = old.line
        BY <4>1
      <4> HIDE DEF x, k
      <4>5. QED
        BY <3>2, <4>3, <4>4 DEF F, SmtInvalidated
    <3>3. QED
      BY <3>1, <3>2
  <2> HIDE DEF e
  <2> DEFINE G == FrontS(e.slices)
  <2>5. /\ Fit(Line, G, r) /\ SameFront(e, r) /\ Kept(Line, F, h, G, r)
        /\ L2!Cached(r.l2, l)
    <3>1. G \subseteq F /\ \A n \in F : n \in G <=> old = None \/ n.line # old.line
      BY <2>4
    <3>2. Fit(Line, F, h) /\ Line \in SUBSET Line
      BY <1>1
    <3> HIDE DEF G
    <3>3. QED
      BY <3>1, <3>2, <1>3, <2>1, <2>2, <2>4, Refill DEF Answered
  <2>6. r.slices = e.slices /\ r.panicked = e.panicked /\ DOMAIN r = DOMAIN h
    BY <1>1, <2>4, <2>5 DEF SameFront
  <2>7. FrontS(r.slices) = G
    BY <2>6
  <2>8. QED
    BY <1>1, <2>4, <2>5, <2>6, <2>7 DEF SmtFine, F, r
<1>4. QED
  BY <1>2, <1>3

\* The SMTCache's write-back of a line that the L2 has, with the slices
\* borrowed or not, does not reach the listener.
LEMMA SmtL2Store ==
    ASSUME NEW h, NEW n, L2!Cached(h.l2, n.line)
    PROVE  /\ Smt!WriteBack(h, n) = IF n = None \/ ~n.dirty THEN h
                                    ELSE L2!StoreWithRoom(h, n.line, n.data)
           /\ Smt!WriteBackBorrowed(h, n) = IF n = None \/ ~n.dirty THEN h
                                            ELSE L2!StoreWithRoom(h, n.line, n.data)
BY SmtL2 DEF Smt!WriteBack, Smt!WriteBackBorrowed, Smt!L2!StoreLine

\* The victim in way w of slice i leaves it, written back into its slot of the L2.
SmtVictim(h, i, l, w) == h.slices[i].cache[l % L1Sets][w]
SmtEmptied(h, i, l, w) ==
    [h EXCEPT !.slices[i].cache = With(h.slices[i].cache, l % L1Sets, w, None)]
SmtEvicted(h, i, l, w) == Smt!WriteBack(SmtEmptied(h, i, l, w), SmtVictim(h, i, l, w))

\* A slice's victim leaves it, written back into its slot of the L2: every
\* line reads as before.
LEMMA SmtEvicts ==
    ASSUME NEW h, SmtFine(h), NEW i \in DOMAIN h.slices, NEW l \in Line,
           NEW w \in 0..(L1Ways - 1)
    PROVE  LET r == SmtEvicted(h, i, l, w) IN
           /\ SmtFine(r)
           /\ Quiet(Line, FrontS(h.slices), h, FrontS(r.slices), r)
           /\ r.slices[i].cache[l % L1Sets][w] = None
           /\ Thinner(h.slices, r.slices) /\ FrontS(r.slices) \subseteq FrontS(h.slices)
<1> DEFINE S == h.slices
           c == S[i].cache
           s == l % L1Sets
           n == c[s][w]
           d == With(c, s, w, None)
           out == WithCache(h, i, d)
           r == SmtEvicted(h, i, l, w)
           F == FrontS(S)
<1>1. /\ Fit(Line, F, h) /\ Line \in SUBSET Line /\ s \in 0..(L1Sets - 1)
      /\ DOMAIN h = {"slices", "l2", "used2", "mem", "panicked"} /\ Shape(h)
      /\ SlicesFine(S) /\ h.panicked = FALSE
      /\ L1Sets \in Nat \ {0} /\ L1Ways \in Nat \ {0}
  BY Geometry, HierarchyAssumption DEF SmtFine, Fit
<1>2. SliceFine(S[i])
  BY <1>1 DEF SlicesFine
<1>3. /\ c \in ArrayFor(L1Sets, L1Ways, Line) /\ Filed(L1Sets, L1Ways, c)
      /\ \A k \in LinesIn(L1Sets, L1Ways, c) :
           S[i].owner # None /\ k.line \in LinesOf(S[i].owner)
  BY <1>2 DEF SliceFine, SliceOf
<1>4. r = Smt!WriteBack(out, n)
  BY DEF SmtEvicted, SmtEmptied, SmtVictim, WithCache
<1> HIDE DEF s, c
<1>5. /\ d \in ArrayFor(L1Sets, L1Ways, Line) /\ Filed(L1Sets, L1Ways, d)
      /\ d[s][w] = None
      /\ Thinned(L1Sets, L1Ways, c, d)
      /\ LinesIn(L1Sets, L1Ways, d) = LinesIn(L1Sets, L1Ways, c) \ {n}
  <2>1. /\ With(c, s, w, None) \in ArrayFor(L1Sets, L1Ways, Line)
        /\ Filed(L1Sets, L1Ways, With(c, s, w, None))
        /\ With(c, s, w, None)[s][w] = None
        /\ \A t \in 0..(L1Sets - 1), u \in 0..(L1Ways - 1) :
             <<t, u>> # <<s, w>> => With(c, s, w, None)[t][u] = c[t][u]
        /\ LinesIn(L1Sets, L1Ways, With(c, s, w, None)) =
              LinesIn(L1Sets, L1Ways, c) \ {c[s][w]}
    BY <1>1, <1>3, DropIn
  <2>2. Thinned(L1Sets, L1Ways, c, With(c, s, w, None))
    BY <2>1 DEF Thinned
  <2>3. QED
    BY <2>1, <2>2
<1> HIDE DEF d, r, F
<1>6. /\ Shape(out) /\ out.l2 = h.l2 /\ out.mem = h.mem /\ DOMAIN out = DOMAIN h
      /\ out.panicked = FALSE /\ SlicesFine(out.slices)
      /\ Thinner(S, out.slices) /\ out.slices[i].cache = d
      /\ FrontS(out.slices) = (F \ LinesIn(L1Sets, L1Ways, c)) \cup LinesIn(L1Sets, L1Ways, d)
  <2>1. \A k \in LinesIn(L1Sets, L1Ways, d) :
           S[i].owner # None /\ k.line \in LinesOf(S[i].owner)
    BY <1>3, <1>5
  <2>2. /\ SliceSet(h, out, i, out.slices[i]) /\ out.slices[i].cache = d
        /\ out.slices[i].owner = h.slices[i].owner /\ out.slices[i].rank = h.slices[i].rank
    BY <1>1, <1>5, <2>1, SetCache
  <2> HIDE DEF out
  <2>3. Thinner(S, out.slices)
    BY <1>5, <2>2 DEF Thinner, Thinned, c, SliceSet
  <2>4. QED
    BY <1>1, <2>2, <2>3 DEF F, c, LinesOfSlice, SliceSet
<1> HIDE DEF out
<1>7. Fit(Line, F, out) /\ Quiet(Line, F, h, F, out)
  BY <1>1, <1>6, FrontOnly
<1>8. LinesIn(L1Sets, L1Ways, c) \subseteq F /\ None \notin F
  <2>1. LinesIn(L1Sets, L1Ways, c) \subseteq F
    BY DEF F, FrontS, LinesOfSlice, c
  <2>2. QED
    BY <2>1 DEF F, FrontS, LinesOfSlice, LinesIn
<1>9. CASE n = None
  <2>1. r = out
    BY <1>9, <1>4 DEF Smt!WriteBack
  <2>2. FrontS(r.slices) = F
    BY <1>9, <1>5, <1>6, <1>8, <2>1
  <2>3. QED
    BY <1>1, <1>5, <1>6, <1>7, <2>1, <2>2 DEF SmtFine, r, F, s
<1>10. CASE n # None
  <2> DEFINE G == F \ {n}
  <2>1. n \in F /\ n \in LinesIn(L1Sets, L1Ways, c)
    BY <1>1, <1>8, <1>10 DEF LinesIn
  <2>2. r = IF n.dirty THEN L2!StoreWithRoom(out, n.line, n.data) ELSE out
    <3>1. L2!Cached(out.l2, n.line)
      BY <1>7, <2>1 DEF Fit, Sound
    <3> HIDE DEF n
    <3>2. QED
      BY <1>4, <1>10, <3>1, SmtL2Store
  <2>3. F \ {n} \subseteq G /\ G \subseteq F
    OBVIOUS
  <2> HIDE DEF n, G
  <2>4. Fit(Line, G, r) /\ SameFront(out, r) /\ Quiet(Line, F, out, G, r)
    BY <1>1, <1>7, <2>1, <2>2, <2>3, Retire
  <2>5. r.slices = out.slices /\ r.panicked = FALSE /\ DOMAIN r = DOMAIN h
    BY <1>1, <1>6, <2>4 DEF SameFront
  <2>6. FrontS(r.slices) = G
    BY <1>5, <1>6, <1>8, <2>5, <2>1 DEF G
  <2>7. Quiet(Line, F, h, G, r)
    BY <1>7, <2>4 DEF Quiet, StaysClean
  <2>8. QED
    BY <1>1, <1>5, <1>6, <2>3, <2>4, <2>5, <2>6, <2>7 DEF SmtFine, r, F, s
<1>11. QED
  BY <1>9, <1>10

\* Slice i ends an access with line n in way w.
SmtKept(h, i, n, w) ==
    [h EXCEPT !.slices[i].cache = With(h.slices[i].cache, n.line % L1Sets, w, n),
              !.slices[i].rank =
                  Touched(L1Ways, h.slices[i].rank, n.line % L1Sets, w)]

\* What Keep assigns.
LEMMA SmtKeepIs ==
    ASSUME NEW h, NEW i, NEW w, NEW n, Smt!Keep(h, i, n.line, w, n)
    PROVE  hier' = SmtKept(h, i, n, w)
BY SmtGeometry DEF Smt!Keep, SmtKept

\* A slice that ends an access with a line of its owner is fine, and so is
\* the hierarchy.
LEMMA SmtKeeps ==
    ASSUME NEW h, SmtFine(h), NEW i \in DOMAIN h.slices,
           NEW n \in LineOf(Line), NEW w \in 0..(L1Ways - 1),
           NowhereElse(L1Sets, L1Ways, h.slices[i].cache, n, w),
           LET old == h.slices[i].cache[n.line % L1Sets][w]
           IN  old # None => old.line = n.line,
           h.slices[i].owner # None, n.line \in LinesOf(h.slices[i].owner),
           L2!Cached(h.l2, n.line),
           n.dirty \/ n.data = L2!CopyOf(h.l2, n.line).data
    PROVE  LET r == SmtKept(h, i, n, w) IN
           /\ SmtFine(r) /\ r.l2 = h.l2 /\ r.mem = h.mem
           /\ DOMAIN r.slices = DOMAIN h.slices
           /\ \A x \in Line : Reads(FrontS(r.slices), r.l2, r.mem, x) =
                IF x = n.line THEN n.data ELSE Reads(FrontS(h.slices), h.l2, h.mem, x)
           /\ \A x \in Line : (x = n.line => ~n.dirty) =>
                StaysClean(FrontS(h.slices), h, FrontS(r.slices), r, x)
<1> DEFINE p == h.slices[i]
           c == p.cache
           s == n.line % L1Sets
           d == With(c, s, w, n)
           u == Touched(L1Ways, p.rank, s, w)
           q == [[p EXCEPT !.cache = d] EXCEPT !.rank = u]
           r == SmtKept(h, i, n, w)
           F == FrontS(h.slices)
           G == FrontS(r.slices)
<1>1. /\ Fit(Line, F, h) /\ Line \in SUBSET Line
      /\ DOMAIN h = {"slices", "l2", "used2", "mem", "panicked"} /\ Shape(h)
      /\ SlicesFine(h.slices) /\ h.panicked = FALSE
      /\ L1Sets \in Nat \ {0} /\ L1Ways \in Nat \ {0}
  BY HierarchyAssumption DEF SmtFine, Fit
<1>2. n.line \in Line /\ s \in 0..(L1Sets - 1) /\ n # None
  BY Geometry DEF LineOf
<1>3. SliceFine(p)
  BY <1>1 DEF SlicesFine
<1>4. r = WithSliceIn(h, i, q)
  <2> HIDE DEF d, u
  <2>1. QED
    BY DEF SmtKept, WithSliceIn, d, u
<1> HIDE DEF s
<1>5. /\ d \in ArrayFor(L1Sets, L1Ways, Line) /\ Filed(L1Sets, L1Ways, d)
      /\ LinesIn(L1Sets, L1Ways, d) = (LinesIn(L1Sets, L1Ways, c) \ {c[s][w]}) \cup {n}
  <2>1. c \in ArrayFor(L1Sets, L1Ways, Line) /\ Filed(L1Sets, L1Ways, c)
        /\ NowhereElse(L1Sets, L1Ways, c, n, w)
    BY <1>3 DEF SliceFine, SliceOf
  <2> HIDE DEF c
  <2>2. HasPut(L1Sets, L1Ways, Line, c, With(c, n.line % L1Sets, w, n),
               n.line % L1Sets, n, w)
    BY <1>1, <2>1, PutAway
  <2>3. QED
    BY <2>2 DEF HasPut, s
<1>6. u \in RanksFor(L1Sets, L1Ways)
  <2>1. p.rank \in RanksFor(L1Sets, L1Ways)
    BY <1>3 DEF SliceFine, SliceOf
  <2> HIDE DEF p
  <2>2. QED
    BY <1>1, <1>2, <2>1, TouchType
<1> HIDE DEF d, u
<1>7. q \in SliceOf /\ q.cache = d /\ q.owner = p.owner
  <2>1. p \in SliceOf
    BY <1>3 DEF SliceFine
  <2> HIDE DEF p
  <2>2. QED
    BY <1>5, <1>6, <2>1 DEF SliceOf
<1> HIDE DEF q
<1>8. SliceFine(q)
  <2>1. \A k \in LinesIn(L1Sets, L1Ways, c) : k.line \in LinesOf(p.owner)
    BY <1>3 DEF SliceFine
  <2>2. QED
    BY <1>5, <1>7, <2>1 DEF SliceFine
<1>9. OwnerOnly(h.slices, i, q.owner)
  BY <1>1, <1>7 DEF SlicesFine, OwnerOnly
<1>10. SliceSet(h, r, i, q)
  BY <1>1, <1>4, <1>8, <1>9, SetSliceIn
<1> HIDE DEF r, F, G
<1>11. G = (F \ LinesIn(L1Sets, L1Ways, c)) \cup (LinesIn(L1Sets, L1Ways, c) \ {c[s][w]}) \cup {n}
  BY <1>5, <1>7, <1>10 DEF SliceSet, LinesOfSlice, F, G
<1>12. LinesIn(L1Sets, L1Ways, c) \subseteq F
  BY DEF F, FrontS, LinesOfSlice
<1>13. G \subseteq {k \in F : k.line # n.line} \cup {n}
  <2>1. SUFFICES ASSUME NEW k \in G, k # n
                 PROVE  k \in F /\ k.line # n.line
    OBVIOUS
  <2>2. k \in F
    BY <1>11, <1>12, <2>1
  <2>3. ASSUME k.line = n.line
        PROVE  FALSE
    <3>1. PICK j \in DOMAIN r.slices : k \in LinesOfSlice(r.slices, j)
      BY DEF G, FrontS
    <3>2. n \in LinesOfSlice(r.slices, i) /\ i \in DOMAIN r.slices /\ SlicesFine(r.slices)
      BY <1>5, <1>7, <1>10 DEF LinesOfSlice, SliceSet
    <3>3. i = j
      BY <2>3, <3>1, <3>2, OneSlice
    <3>4. k \in LinesIn(L1Sets, L1Ways, d) /\ n \in LinesIn(L1Sets, L1Ways, d)
      BY <1>7, <1>10, <3>1, <3>2, <3>3 DEF LinesOfSlice, SliceSet
    <3>5. PICK t \in 0..(L1Sets - 1), v \in 0..(L1Ways - 1) : k = d[t][v] /\ k # None
      BY <3>4 DEF LinesIn
    <3>6. PICK t2 \in 0..(L1Sets - 1), v2 \in 0..(L1Ways - 1) : n = d[t2][v2]
      BY <3>4 DEF LinesIn
    <3>7. t = k.line % L1Sets /\ t2 = n.line % L1Sets
      BY <1>2, <1>5, <3>5, <3>6 DEF Filed
    <3>8. v = v2
      <4>1. t = t2
        BY <2>3, <3>7
      <4>2. d[t][v] # None /\ d[t][v2] # None /\ d[t][v2].line = d[t][v].line
        BY <1>2, <2>3, <3>5, <3>6, <4>1
      <4>3. QED
        BY <1>5, <4>2 DEF Filed
    <3>9. QED
      BY <2>1, <2>3, <3>5, <3>6, <3>7, <3>8
  <2>4. QED
    BY <2>2, <2>3
<1>14. \A k \in F : k.line # n.line => k \in G
  <2>1. SUFFICES ASSUME NEW k \in F, k.line # n.line
                 PROVE  k # c[s][w]
    BY <1>11
  <2>2. k # None
    BY DEF F, FrontS, LinesOfSlice, LinesIn
  <2>3. QED
    BY <2>1, <2>2 DEF s
<1>15. /\ Fit(Line, G, h)
       /\ \A x \in Line : Reads(G, h.l2, h.mem, x) =
            IF x = n.line THEN n.data ELSE Reads(F, h.l2, h.mem, x)
       /\ \A x \in Line : CleanIn(F, h.l2, x) /\ (x = n.line => ~n.dirty) =>
            CleanIn(G, h.l2, x)
  <2>1. n \in G
    BY <1>11
  <2>2. QED
    BY <1>1, <1>13, <1>14, <2>1, FrontPut
<1>16. Shape(r) /\ r.l2 = h.l2 /\ r.mem = h.mem
  BY <1>10 DEF SliceSet
<1>17. Fit(Line, G, r)
  BY <1>15, <1>16, FrontOnly
<1>18. SmtFine(r)
  BY <1>1, <1>10, <1>17 DEF SmtFine, SliceSet, G
<1>19. QED
  <2>1. \A x \in Line : (x = n.line => ~n.dirty) => StaysClean(F, h, G, r, x)
    BY <1>15, <1>16 DEF StaysClean
  <2>2. QED
    BY <1>10, <1>15, <1>16, <1>18, <2>1 DEF SliceSet, G, F, r

\* Copies that are like the L2's are dropped.
LEMMA DropAll ==
    ASSUME NEW LS \in SUBSET Line, NEW F, NEW h, Fit(LS, F, h), NEW G, G \subseteq F,
           \A n \in F : n \notin G => n.data = L2!CopyOf(h.l2, n.line).data
    PROVE  Fit(LS, G, h) /\ Quiet(LS, F, h, G, h)
<1> DEFINE c == h.l2
           m == h.mem
<1>1. Sound(LS, F, c, m) /\ Sound(LS, G, c, m)
  BY DEF Fit, Sound
<1> HIDE DEF c, m
<1>2. ASSUME NEW x \in LS
      PROVE  Reads(G, c, m, x) = Reads(F, c, m, x)
  <2>1. CASE \E n \in G : n.line = x
    <3>1. PICK n \in G : n.line = x
      BY <2>1
    <3>2. Reads(G, c, m, n.line) = n.data
      BY <1>1, ReadsFront
    <3>3. Reads(F, c, m, n.line) = n.data
      BY <1>1, ReadsFront
    <3>4. QED
      BY <3>1, <3>2, <3>3
  <2>2. CASE (~ \E n \in G : n.line = x) /\ \E n \in F : n.line = x
    <3>1. PICK n \in F : n.line = x
      BY <2>2
    <3>2. Reads(F, c, m, n.line) = n.data
      BY <1>1, ReadsFront
    <3>3. Reads(G, c, m, x) = IF L2!Cached(c, x) THEN L2!CopyOf(c, x).data ELSE m[x]
      BY <2>2, ReadsBehind
    <3>4. L2!Cached(c, x) /\ n.data = L2!CopyOf(c, x).data
      BY <1>1, <2>2, <3>1 DEF Sound, c
    <3>5. QED
      BY <3>1, <3>2, <3>3, <3>4
  <2>3. CASE ~ \E n \in F : n.line = x
    <3>1. ~ \E n \in G : n.line = x
      BY <2>3
    <3>2. QED
      BY <2>3, <3>1, ReadsBehind
  <2>4. QED
    BY <2>1, <2>2, <2>3
<1>3. \A x \in LS : CleanIn(F, c, x) => CleanIn(G, c, x)
  BY DEF CleanIn
<1>4. QED
  BY <1>1, <1>2, <1>3 DEF Fit, Quiet, StaysClean, c, m

\* A line of the front is written back, and stays there.
LEMMA FlushStep ==
    ASSUME NEW F, NEW h, Fit(Line, F, h), NEW n \in F \cup {None}
    PROVE  LET r == Smt!WriteBackBorrowed(h, n) IN
           /\ Fit(Line, F, r) /\ SameFront(h, r) /\ Quiet(Line, F, h, F, r)
           /\ n # None /\ n.dirty => L2!CopyOf(r.l2, n.line).data = n.data
           /\ \A k \in F : n = None \/ k.line # n.line =>
                L2!CopyOf(r.l2, k.line) = L2!CopyOf(h.l2, k.line)
<1> DEFINE r == Smt!WriteBackBorrowed(h, n)
<1>1. Line \in SUBSET Line
  OBVIOUS
<1>2. CASE n = None \/ ~n.dirty
  <2>1. r = h
    BY <1>2 DEF Smt!WriteBackBorrowed
  <2> HIDE DEF r
  <2>2. SameFront(h, h) /\ Quiet(Line, F, h, F, h)
    BY DEF SameFront, Quiet, StaysClean
  <2>3. QED
    BY <1>2, <2>1, <2>2 DEF r
<1>3. CASE n # None /\ n.dirty
  <2>1. L2!Cached(h.l2, n.line) /\ n \in LineOf(Line) /\ n \in F /\ Behind(Line, h.l2, h.mem)
        /\ Shape(h)
    BY <1>3 DEF Fit, Sound
  <2>2. r = L2!StoreWithRoom(h, n.line, n.data)
    BY <1>3, <2>1, SmtL2Store
  <2>3. F \ {n} \subseteq F /\ F \subseteq F
    OBVIOUS
  <2> HIDE DEF r
  <2>4. Fit(Line, F, r) /\ SameFront(h, r) /\ Quiet(Line, F, h, F, r)
    BY <1>1, <1>3, <2>1, <2>2, <2>3, Retire
  <2> DEFINE w == L2!HitWayOf(h, n.line)
             k == L2!DirtyLine(n.line, n.data)
  <2>5. r.l2 = L2!Put(h.l2, n.line, w, k)
    BY <1>1, <2>1, <2>2, StoreFields DEF LineOf
  <2>6. w \in L2!Ways /\ L2!Holds(h.l2, n.line, w) /\ n.line \in Line
    BY <1>1, <2>1, HitWayHolds DEF LineOf
  <2>7. k \in LineOf(Line) /\ k.line = n.line /\ k.data = n.data /\ k.dirty
    BY <2>1 DEF L2!DirtyLine, LineOf
  <2> HIDE DEF k, w
  <2>8. L2!Holds(h.l2, k.line, w) /\ r.l2 = L2!Put(h.l2, k.line, w, k)
    BY <2>5, <2>6, <2>7
  <2>9. LET d == L2!Put(h.l2, k.line, w, k)
            old == h.l2[L2!SetIndex(k.line)][w]
        IN  /\ Behind(Line, d, h.mem)
            /\ L2!Cached(d, k.line) /\ L2!CopyOf(d, k.line) = k
            /\ \A x \in Line : x # k.line =>
                /\ L2!Cached(d, x) <=> L2!Cached(h.l2, x) /\ (old = None \/ old.line # x)
                /\ L2!Cached(d, x) => L2!CopyOf(d, x) = L2!CopyOf(h.l2, x)
    <3> DEFINE c == h.l2
               m == h.mem
    <3>1. Behind(Line, c, m) /\ L2!Holds(c, k.line, w)
      BY <2>1, <2>8
    <3> HIDE DEF c, m
    <3>2. LET d == L2!Put(c, k.line, w, k)
              old == c[L2!SetIndex(k.line)][w]
          IN  /\ Behind(Line, d, m)
              /\ L2!Cached(d, k.line) /\ L2!CopyOf(d, k.line) = k
              /\ \A x \in Line : x # k.line =>
                  /\ L2!Cached(d, x) <=> L2!Cached(c, x) /\ (old = None \/ old.line # x)
                  /\ L2!Cached(d, x) => L2!CopyOf(d, x) = L2!CopyOf(c, x)
      BY <1>1, <2>6, <2>7, <3>1, PutBehind
    <3>3. QED
      BY <3>2 DEF c, m
  <2>10. L2!CopyOf(r.l2, n.line) = k
         /\ \A x \in Line : x # n.line /\ L2!Cached(r.l2, x) =>
                L2!CopyOf(r.l2, x) = L2!CopyOf(h.l2, x)
    BY <2>7, <2>8, <2>9
  <2>11. \A j \in F : j.line \in Line /\ L2!Cached(r.l2, j.line)
    BY <2>4 DEF Fit, Sound, LineOf
  <2>12. QED
    BY <1>3, <2>4, <2>7, <2>10, <2>11 DEF r
<1>4. QED
  BY <1>2, <1>3

\* The slots of an array, numbered from 1 on, set by set.
SlotNumbers(N, W) == 1..(N * W)
IsSlot(W, p, s, w) == (p - 1) \div W = s /\ (p - 1) % W = w

\* Every slot of an array has a number.
LEMMA SlotNumber ==
    ASSUME NEW N \in Nat \ {0}, NEW W \in Nat \ {0},
           NEW s \in 0..(N - 1), NEW w \in 0..(W - 1)
    PROVE  \E p \in SlotNumbers(N, W) : IsSlot(W, p, s, w)
<1> DEFINE p == s * W + w + 1
<1>1. s * W \in Nat /\ (s + 1) * W = s * W + W /\ N * W \in Nat
  OBVIOUS
<1>2. (s + 1) * W <= N * W
  OBVIOUS
<1>3. p \in 1..(N * W)
  BY <1>1, <1>2
<1>4. (p - 1) \div W = s /\ (p - 1) % W = w
  OBVIOUS
<1>5. QED
  BY <1>3, <1>4 DEF SlotNumbers, IsSlot

\* Every number is that of a slot.
LEMMA NumberedSlot ==
    ASSUME NEW N \in Nat \ {0}, NEW W \in Nat \ {0}, NEW p \in 1..(N * W)
    PROVE  (p - 1) \div W \in 0..(N - 1) /\ (p - 1) % W \in 0..(W - 1)
<1> DEFINE a == (p - 1) \div W
           b == (p - 1) % W
<1>1. N * W \in Nat /\ p - 1 \in Nat
  OBVIOUS
<1>2. a \in Nat /\ b \in 0..(W - 1) /\ p - 1 = a * W + b
  BY <1>1
<1> HIDE DEF a, b
<1>3. ASSUME a >= N PROVE FALSE
  <2>1. a * W >= N * W
    BY <1>2, <1>3
  <2>2. QED
    BY <1>1, <1>2, <2>1
<1>4. QED
  BY <1>2, <1>3 DEF a, b

\* The lines of slice i in the order in which they are written back.
SlotLine(h, i, p) == h.slices[i].cache[(p - 1) \div L1Ways][(p - 1) % L1Ways]
SliceLines(h, i) == [p \in 1..(L1Sets * L1Ways) |-> SlotLine(h, i, p)]

\* flush_slice writes the lines of the slice back in the order of their
\* slots, then empties it.
LEMMA SmtFlushedIs ==
    ASSUME NEW h, NEW i
    PROVE  Smt!Flushed(h, i) =
             WithCache(Smt!FoldLeft(Smt!WriteBackBorrowed, h, SliceLines(h, i)), i,
                       Blank(L1Sets, L1Ways))
BY SmtGeometry DEF Smt!Flushed, SliceLines, SlotLine, WithCache

\* Once all lines of a slice have been written back the L2 has them, and the
\* slice still does.
LEMMA WrittenBack ==
    ASSUME NEW h, SmtFine(h), NEW i \in DOMAIN h.slices
    PROVE  LET r == Smt!FoldLeft(Smt!WriteBackBorrowed, h, SliceLines(h, i))
               F == FrontS(h.slices)
           IN  /\ Fit(Line, F, r) /\ SameFront(h, r) /\ Quiet(Line, F, h, F, r)
               /\ \A n \in LinesOfSlice(h.slices, i) :
                    L2!CopyOf(r.l2, n.line).data = n.data
<1> DEFINE q == SliceLines(h, i)
           N == L1Sets * L1Ways
           F == FrontS(h.slices)
           r == Smt!FoldLeft(Smt!WriteBackBorrowed, h, q)
<1>1. N \in Nat /\ DOMAIN q = 1..N /\ L1Sets \in Nat \ {0} /\ L1Ways \in Nat \ {0}
  BY HierarchyAssumption DEF SliceLines
<1>2. \A n \in LinesOfSlice(h.slices, i) : \E p \in 1..N : n = q[p]
  <2>1. SUFFICES ASSUME NEW n \in LinesOfSlice(h.slices, i)
                 PROVE  \E p \in 1..N : n = q[p]
    OBVIOUS
  <2>2. PICK s \in 0..(L1Sets - 1), w \in 0..(L1Ways - 1) : n = h.slices[i].cache[s][w]
    BY DEF LinesOfSlice, LinesIn
  <2>3. PICK p \in SlotNumbers(L1Sets, L1Ways) : IsSlot(L1Ways, p, s, w)
    BY <1>1, SlotNumber
  <2>4. p \in 1..N /\ (p - 1) \div L1Ways = s /\ (p - 1) % L1Ways = w
    BY <2>3 DEF SlotNumbers, IsSlot
  <2>5. QED
    BY <2>2, <2>4 DEF SliceLines, SlotLine
<1>3. \A p \in 1..N : q[p] \in F \cup {None}
  <2>1. SUFFICES ASSUME NEW p \in 1..N, q[p] # None
                 PROVE  q[p] \in F
    OBVIOUS
  <2> DEFINE s == (p - 1) \div L1Ways
             w == (p - 1) % L1Ways
  <2>2. s \in 0..(L1Sets - 1) /\ w \in 0..(L1Ways - 1)
    BY <1>1, NumberedSlot
  <2>3. q[p] = h.slices[i].cache[s][w]
    BY DEF SliceLines, SlotLine
  <2> HIDE DEF q, s, w
  <2>4. q[p] \in LinesOfSlice(h.slices, i)
    BY <2>1, <2>2, <2>3 DEF LinesOfSlice, LinesIn
  <2>5. QED
    BY <2>4 DEF FrontS
<1>4. Fit(Line, F, h)
  BY DEF SmtFine
<1> HIDE DEF q, N
<1>5. PICK at : /\ at[0] = h
                /\ \A k \in 0..(N - 1) :
                     at[k + 1] = Smt!WriteBackBorrowed(at[k], q[k + 1])
                /\ r = at[N]
  <2>1. \E at : FlushRun(h, q, N, at)
    BY <1>1, FlushIsStepwise
  <2>2. QED
    BY <2>1 DEF FlushRun
<1> HIDE DEF r, F
<1> DEFINE Good(k) ==
             /\ Fit(Line, F, at[k]) /\ SameFront(h, at[k]) /\ Quiet(Line, F, h, F, at[k])
             /\ \A p \in 1..k : q[p] # None /\ q[p].dirty =>
                    L2!CopyOf(at[k].l2, q[p].line).data = q[p].data
           K == {k \in Nat : k <= N => Good(k)}
<1>6. 0 \in K
  BY <1>4, <1>5 DEF SameFront, Quiet, StaysClean
<1>7. ASSUME NEW k \in Nat, k \in K
      PROVE  k + 1 \in K
  <2>1. SUFFICES ASSUME k + 1 <= N
                 PROVE  Good(k + 1)
    OBVIOUS
  <2>2. Good(k) /\ k \in 0..(N - 1) /\ k + 1 \in 1..N
    BY <1>1, <1>7, <2>1
  <2> DEFINE a == at[k]
             b == at[k + 1]
             n == q[k + 1]
  <2>3. n \in F \cup {None} /\ b = Smt!WriteBackBorrowed(a, n)
    BY <1>3, <1>5, <2>2
  <2>4. Fit(Line, F, a) /\ SameFront(h, a) /\ Quiet(Line, F, h, F, a)
        /\ \A p \in 1..k : q[p] # None /\ q[p].dirty =>
               L2!CopyOf(a.l2, q[p].line).data = q[p].data
    BY <2>2
  <2> HIDE DEF a, b, n
  <2>5. /\ Fit(Line, F, b) /\ SameFront(a, b) /\ Quiet(Line, F, a, F, b)
        /\ n # None /\ n.dirty => L2!CopyOf(b.l2, n.line).data = n.data
        /\ \A x \in F : n = None \/ x.line # n.line =>
             L2!CopyOf(b.l2, x.line) = L2!CopyOf(a.l2, x.line)
    BY <2>3, <2>4, FlushStep
  <2>6. SameFront(h, b) /\ Quiet(Line, F, h, F, b)
    BY <2>4, <2>5 DEF SameFront, Quiet, StaysClean
  <2>7. ASSUME NEW p \in 1..(k + 1), q[p] # None, q[p].dirty
        PROVE  L2!CopyOf(b.l2, q[p].line).data = q[p].data
    <3>1. q[p] \in F
      BY <1>1, <1>3, <2>2, <2>7
    <3>2. CASE n # None /\ q[p].line = n.line
      <4>1. q[p] = n
        BY <2>3, <2>4, <3>1, <3>2 DEF Fit, Sound
      <4>2. QED
        BY <2>5, <2>7, <3>2, <4>1
    <3>3. CASE n = None \/ q[p].line # n.line
      <4>1. p \in 1..k
        BY <2>7, <3>3 DEF n
      <4>2. QED
        BY <2>4, <2>5, <2>7, <3>1, <3>3, <4>1
    <3>4. QED
      BY <3>2, <3>3
  <2>8. QED
    BY <2>5, <2>6, <2>7 DEF b
<1>8. N \in K
  BY <1>1, <1>6, <1>7, NaturalInduction
<1>9. Good(N)
  BY <1>1, <1>8
<1>10. ASSUME NEW n \in LinesOfSlice(h.slices, i)
       PROVE  L2!CopyOf(r.l2, n.line).data = n.data
  <2>1. PICK p \in 1..N : n = q[p]
    BY <1>2
  <2>2. n \in F /\ n # None
    BY DEF F, FrontS, LinesOfSlice, LinesIn
  <2>3. CASE n.dirty
    BY <1>5, <1>9, <2>1, <2>2, <2>3
  <2>4. CASE ~n.dirty
    BY <1>5, <1>9, <2>2, <2>4 DEF Fit, Sound
  <2>5. QED
    BY <2>3, <2>4
<1>11. QED
  BY <1>5, <1>9, <1>10 DEF r, F, q

\* A slice is flushed: it holds nothing then, and nothing else has changed.
LEMMA SmtFlushes ==
    ASSUME NEW h, SmtFine(h), NEW i \in DOMAIN h.slices
    PROVE  LET r == Smt!Flushed(h, i) IN
           /\ SmtFine(r) /\ DOMAIN r.slices = DOMAIN h.slices
           /\ r.slices[i].cache = Blank(L1Sets, L1Ways)
           /\ \A j \in DOMAIN h.slices : r.slices[j].owner = h.slices[j].owner
           /\ FrontS(r.slices) \subseteq FrontS(h.slices)
           /\ Quiet(Line, FrontS(h.slices), h, FrontS(r.slices), r)
<1> DEFINE g == Smt!FoldLeft(Smt!WriteBackBorrowed, h, SliceLines(h, i))
           S == h.slices
           F == FrontS(S)
           none == Blank(L1Sets, L1Ways)
           r == Smt!Flushed(h, i)
           G == FrontS(r.slices)
<1>1. /\ Fit(Line, F, g) /\ SameFront(h, g) /\ Quiet(Line, F, h, F, g)
      /\ \A n \in LinesOfSlice(S, i) : L2!CopyOf(g.l2, n.line).data = n.data
  BY WrittenBack
<1>2. r = WithCache(g, i, none)
  BY SmtFlushedIs
<1>3. /\ DOMAIN h = {"slices", "l2", "used2", "mem", "panicked"}
      /\ SlicesFine(S) /\ h.panicked = FALSE
  BY DEF SmtFine
<1> HIDE DEF g
<1>4. /\ DOMAIN g = DOMAIN h /\ g.slices = S /\ g.panicked = FALSE /\ Shape(g)
      /\ i \in DOMAIN g.slices
  BY <1>1, <1>3 DEF SameFront, Fit
<1>5. /\ none \in ArrayFor(L1Sets, L1Ways, Line) /\ Filed(L1Sets, L1Ways, none)
      /\ LinesIn(L1Sets, L1Ways, none) = {}
  BY EmptyArray
<1> HIDE DEF S, none, r, F
<1>6. LET x == WithCache(g, i, none) IN
      /\ SliceSet(g, x, i, x.slices[i]) /\ x.slices[i].cache = none
      /\ x.slices[i].owner = g.slices[i].owner /\ x.slices[i].rank = g.slices[i].rank
  BY <1>3, <1>4, <1>5, SetCache
<1>7. /\ SliceSet(g, r, i, r.slices[i]) /\ r.slices[i].cache = none
      /\ r.slices[i].owner = S[i].owner
  BY <1>2, <1>4, <1>6
<1>8. /\ Shape(r) /\ DOMAIN r = DOMAIN h /\ r.l2 = g.l2 /\ r.mem = g.mem
      /\ r.panicked = FALSE /\ SlicesFine(r.slices) /\ DOMAIN r.slices = DOMAIN S
      /\ G = F \ LinesOfSlice(S, i)
      /\ \A j \in DOMAIN S : r.slices[j].owner = S[j].owner
  BY <1>4, <1>5, <1>7 DEF SliceSet, F
<1> HIDE DEF G
<1>9. Fit(Line, G, g) /\ Quiet(Line, F, g, G, g)
  <2>1. G \subseteq F /\ \A n \in F : n \notin G => n.data = L2!CopyOf(g.l2, n.line).data
    BY <1>1, <1>8
  <2>2. Line \in SUBSET Line
    OBVIOUS
  <2>3. QED
    BY <1>1, <2>1, <2>2, DropAll
<1>10. Fit(Line, G, r) /\ Quiet(Line, G, g, G, r)
  BY <1>8, <1>9, FrontOnly
<1>11. Quiet(Line, F, h, G, r)
  BY <1>1, <1>9, <1>10 DEF Quiet, StaysClean
<1>12. SmtFine(r)
  BY <1>3, <1>8, <1>10 DEF SmtFine, G
<1>13. QED
  BY <1>7, <1>8, <1>11, <1>12 DEF r, S, F, G, none

\* Slice i of h has been given to class d.
Owning(h, i, d) == [h EXCEPT !.slices[i].owner = d]

\* A slice is given to a class that has no other, once it holds no other class's
\* lines.
LEMMA SmtGives ==
    ASSUME NEW h, SmtFine(h), NEW i \in DOMAIN h.slices, NEW d \in {"High", "Low"},
           \A n \in LinesOfSlice(h.slices, i) : h.slices[i].owner = d,
           \A j \in DOMAIN h.slices : j # i => h.slices[j].owner # d
    PROVE  LET r == Owning(h, i, d) IN
           /\ SmtFine(r) /\ DOMAIN r.slices = DOMAIN h.slices
           /\ r.slices[i].owner = d
           /\ FrontS(r.slices) = FrontS(h.slices)
           /\ Quiet(Line, FrontS(h.slices), h, FrontS(r.slices), r)
<1> DEFINE S == h.slices
           p == S[i]
           q == [p EXCEPT !.owner = d]
           r == Owning(h, i, d)
           F == FrontS(S)
<1>1. /\ Fit(Line, F, h) /\ h.panicked = FALSE
      /\ DOMAIN h = {"slices", "l2", "used2", "mem", "panicked"} /\ Shape(h)
      /\ SlicesFine(S)
  BY DEF SmtFine, Fit
<1>2. SliceFine(p)
  BY <1>1 DEF SlicesFine
<1>3. r = WithSliceIn(h, i, q)
  BY DEF Owning, WithSliceIn
<1>4. q \in SliceOf /\ q.cache = p.cache /\ q.owner = d /\ q.rank = p.rank
  <2>1. p \in SliceOf
    BY <1>2 DEF SliceFine
  <2> HIDE DEF p
  <2>2. QED
    BY <2>1 DEF SliceOf
<1> HIDE DEF q, r
<1>5. SliceFine(q)
  <2>1. \A n \in LinesIn(L1Sets, L1Ways, p.cache) : p.owner = d /\ n.line \in LinesOf(p.owner)
    BY <1>2 DEF SliceFine, LinesOfSlice
  <2>2. d # None
    BY HierarchyAssumption
  <2>3. QED
    BY <1>2, <1>4, <2>1, <2>2 DEF SliceFine
<1>6. OwnerOnly(S, i, q.owner)
  BY <1>4 DEF OwnerOnly
<1>7. SliceSet(h, r, i, q)
  BY <1>1, <1>3, <1>5, <1>6, SetSliceIn
<1> HIDE DEF F
<1>8. FrontS(r.slices) = F
  <2>1. LinesOfSlice(S, i) = LinesIn(L1Sets, L1Ways, p.cache) /\ LinesOfSlice(S, i) \subseteq F
    BY DEF LinesOfSlice, F, FrontS
  <2>2. QED
    BY <1>4, <1>7, <2>1 DEF SliceSet, F
<1>9. Fit(Line, F, r) /\ Quiet(Line, F, h, F, r)
  BY <1>1, <1>7, FrontOnly DEF SliceSet
<1>10. SmtFine(r)
  BY <1>1, <1>7, <1>8, <1>9 DEF SmtFine, SliceSet
<1>11. QED
  BY <1>4, <1>7, <1>8, <1>9, <1>10 DEF SliceSet, r, F

\* The slice that a class finds its own, or takes.
LEMMA SmtClaims ==
    ASSUME SmtFine(hier), domain \in {"High", "Low"},
           NEW i \in DOMAIN hier.slices, Smt!SM!Active(i)
    PROVE  LET r == Smt!Claim(i) IN
           /\ SmtFine(r) /\ DOMAIN r.slices = DOMAIN hier.slices
           /\ r.slices[i].owner = domain
           /\ FrontS(r.slices) \subseteq FrontS(hier.slices)
           /\ Quiet(Line, FrontS(hier.slices), hier, FrontS(r.slices), r)
<1> DEFINE S == hier.slices
           F == FrontS(S)
           b == IF Smt!SM!Reassigned(i) THEN Smt!Flushed(hier, i) ELSE hier
           r == Smt!Claim(i)
<1>1. r = Owning(b, i, domain)
  BY DEF Smt!Claim, Owning
<1>2. /\ Smt!SM!Slices = DOMAIN S
      /\ Smt!SM!Reassigned(i) <=> \A j \in DOMAIN S : S[j].owner \notin {domain, None}
      /\ Smt!SM!Owned(i) => S[i].owner = domain
      /\ Smt!SM!Claimed(i) => S[i].owner = None /\ \A j \in DOMAIN S : S[j].owner # domain
  BY DEF Smt!SM!Slices, Smt!SM!Reassigned, Smt!SM!Owned, Smt!SM!Claimed
<1>3. SlicesFine(S) /\ domain # None
  BY HierarchyAssumption DEF SmtFine
<1> HIDE DEF r, b
<1>4. /\ SmtFine(b) /\ DOMAIN b.slices = DOMAIN S
      /\ FrontS(b.slices) \subseteq F /\ Quiet(Line, F, hier, FrontS(b.slices), b)
      /\ \A n \in LinesOfSlice(b.slices, i) : b.slices[i].owner = domain
      /\ \A j \in DOMAIN S : j # i => b.slices[j].owner # domain
  <2>1. CASE Smt!SM!Reassigned(i)
    <3>1. b = Smt!Flushed(hier, i)
      BY <2>1 DEF b
    <3>2. /\ SmtFine(b) /\ DOMAIN b.slices = DOMAIN S
          /\ b.slices[i].cache = Blank(L1Sets, L1Ways)
          /\ \A j \in DOMAIN S : b.slices[j].owner = S[j].owner
          /\ FrontS(b.slices) \subseteq F
          /\ Quiet(Line, F, hier, FrontS(b.slices), b)
      BY <3>1, SmtFlushes
    <3>3. LinesOfSlice(b.slices, i) = {}
      BY <3>2, EmptyArray DEF LinesOfSlice
    <3>4. QED
      BY <1>2, <2>1, <3>2, <3>3
  <2>2. CASE ~Smt!SM!Reassigned(i)
    <3>1. b = hier
      BY <2>2 DEF b
    <3>2. Quiet(Line, F, hier, F, hier)
      BY DEF Quiet, StaysClean
    <3>3. CASE Smt!SM!Owned(i)
      BY <1>2, <1>3, <3>1, <3>2, <3>3 DEF SlicesFine
    <3>4. CASE Smt!SM!Claimed(i)
      <4>1. \A n \in LinesOfSlice(S, i) : FALSE
        BY <1>2, <1>3, <3>4 DEF SlicesFine, SliceFine, LinesOfSlice
      <4>2. QED
        BY <1>2, <3>1, <3>2, <3>4, <4>1
    <3>5. QED
      BY <2>2, <3>3, <3>4 DEF Smt!SM!Active
  <2>3. QED
    BY <2>1, <2>2
<1>5. LET x == Owning(b, i, domain) IN
      /\ SmtFine(x) /\ DOMAIN x.slices = DOMAIN b.slices
      /\ x.slices[i].owner = domain
      /\ FrontS(x.slices) = FrontS(b.slices)
      /\ Quiet(Line, FrontS(b.slices), b, FrontS(x.slices), x)
  BY <1>4, SmtGives
<1>6. Quiet(Line, F, hier, FrontS(r.slices), r)
  BY <1>1, <1>4, <1>5 DEF Quiet, StaysClean
<1>7. QED
  BY <1>1, <1>4, <1>5, <1>6 DEF r

\* A line of a class is in no slice but its owner's.
LEMMA SmtElsewhere ==
    ASSUME NEW S, SlicesFine(S), NEW i \in DOMAIN S, NEW j \in DOMAIN S,
           NEW k \in LinesOfSlice(S, j),
           S[i].owner \in {"High", "Low"}, k.line \in LinesOf(S[i].owner)
    PROVE  i = j
<1>1. S[j].owner \in {"High", "Low"} /\ k.line \in LinesOf(S[j].owner)
  BY DEF SlicesFine, SliceFine, SliceOf, LinesOfSlice
<1>2. S[i].owner = S[j].owner /\ S[i].owner # None
  BY <1>1, HierarchyAssumption DEF LinesOf
<1>3. QED
  BY <1>2 DEF SlicesFine

\* An SMTCache hit on way w of slice i, after which the way has line n.
LEMMA SmtHits ==
    ASSUME NEW h, SmtFine(h), NEW i \in DOMAIN h.slices, NEW n \in LineOf(Line),
           h.slices[i].owner \in {"High", "Low"}, n.line \in LinesOf(h.slices[i].owner),
           NEW w \in Smt!SM!Ways, Smt!SM!HitWay(h.slices[i].cache, n.line, w),
           n = h.slices[i].cache[Smt!SM!SetIndex(n.line)][w] \/ n.dirty
    PROVE  LET r == SmtKept(h, i, n, w)
               old == h.slices[i].cache[Smt!SM!SetIndex(n.line)][w]
           IN  /\ SmtFine(r)
               /\ Changes(Line, FrontS(h.slices), h, FrontS(r.slices), r,
                          n.line, n.data, n.dirty)
               /\ old \in FrontS(h.slices) /\ old.line = n.line
<1> DEFINE c == h.slices[i].cache
           l == n.line
           s == l % L1Sets
<1>1. /\ w \in 0..(L1Ways - 1) /\ Smt!SM!SetIndex(l) = s
      /\ c[s][w] # None /\ c[s][w].line = l /\ l \in Line
  BY SmtGeometry DEF Smt!SM!HitWay, Smt!SM!Holds, LineOf
<1>2. SliceFine(h.slices[i]) /\ h.slices[i].owner # None
  BY HierarchyAssumption DEF SmtFine, SlicesFine
<1>3. /\ c \in ArrayFor(L1Sets, L1Ways, Line) /\ Filed(L1Sets, L1Ways, c)
      /\ L1Sets \in Nat \ {0} /\ L1Ways \in Nat \ {0} /\ Line \in SUBSET Line
  BY <1>2, HierarchyAssumption DEF SliceFine, SliceOf
<1>4. /\ c[s][w] \in LinesIn(L1Sets, L1Ways, c)
      /\ \A v \in 0..(L1Ways - 1) : c[s][v] # None /\ c[s][v].line = l => v = w
  <2> HIDE DEF c, l
  <2>1. QED
    BY <1>1, <1>3, HeldOnce
<1>5. c[s][w] \in FrontS(h.slices)
  BY <1>4 DEF FrontS, LinesOfSlice
<1>6. NowhereElse(L1Sets, L1Ways, c, n, w)
  BY <1>4 DEF NowhereElse
<1>7. L2!Cached(h.l2, l) /\ (n.dirty \/ n.data = L2!CopyOf(h.l2, l).data)
  BY <1>1, <1>5 DEF SmtFine, Fit, Sound
<1>8. LET r == SmtKept(h, i, n, w) IN
           /\ SmtFine(r) /\ r.l2 = h.l2 /\ r.mem = h.mem
           /\ DOMAIN r.slices = DOMAIN h.slices
           /\ \A x \in Line : Reads(FrontS(r.slices), r.l2, r.mem, x) =
                IF x = n.line THEN n.data ELSE Reads(FrontS(h.slices), h.l2, h.mem, x)
           /\ \A x \in Line : (x = n.line => ~n.dirty) =>
                StaysClean(FrontS(h.slices), h, FrontS(r.slices), r, x)
  <2>1. LET old == h.slices[i].cache[n.line % L1Sets][w]
        IN  old # None => old.line = n.line
    BY <1>1
  <2>2. NowhereElse(L1Sets, L1Ways, h.slices[i].cache, n, w)
    BY <1>6
  <2> HIDE DEF c, s
  <2>3. QED
    BY <1>1, <1>2, <1>7, <2>1, <2>2, SmtKeeps, ZenonT(40)
<1>9. QED
  BY <1>1, <1>5, <1>8 DEF Changes

\* What an SMTCache miss has fetched for way w of slice i.
LEMMA SmtFetches ==
    ASSUME NEW h, SmtFine(h), DOMAIN h.slices = DOMAIN hier.slices,
           NEW i \in DOMAIN h.slices, NEW l \in Line,
           h.slices[i].owner \in {"High", "Low"}, l \in LinesOf(h.slices[i].owner),
           NEW w \in Smt!SM!Ways, ~Smt!SM!Cached(h.slices[i].cache, l)
    PROVE  LET f == Smt!Missed(h, i, l, w)
               n == Smt!NewLine(f, l)
           IN  /\ n \in LineOf(Line) /\ n.line = l /\ ~n.dirty
               /\ n.data = Reads(FrontS(h.slices), h.l2, h.mem, l)
               /\ \A k \in LineOf(Line) : k.line = l /\ (k = n \/ k.dirty) =>
                    LET r == SmtKept(f, i, k, w) IN
                    /\ SmtFine(r)
                    /\ Changes(Line, FrontS(h.slices), h, FrontS(r.slices), r,
                               l, k.data, k.dirty)
<1> DEFINE e == SmtEvicted(h, i, l, w)
           f == Smt!Missed(h, i, l, w)
           F == FrontS(h.slices)
           E == FrontS(e.slices)
           G == FrontS(f.slices)
           c == f.slices[i].cache
           s == l % L1Sets
           n == Smt!NewLine(f, l)
<1>1. w \in 0..(L1Ways - 1) /\ s \in 0..(L1Sets - 1)
  BY SmtGeometry, Geometry
<1>2. f = Smt!Filled(e, l)
  BY SmtGeometry DEF Smt!Missed, SmtEvicted, SmtEmptied, SmtVictim
<1> HIDE DEF e, f
<1>3. /\ SmtFine(e) /\ Quiet(Line, F, h, E, e)
      /\ e.slices[i].cache[s][w] = None
      /\ Thinner(h.slices, e.slices) /\ E \subseteq F
  BY <1>1, SmtEvicts DEF e
<1>4. /\ SmtFine(f) /\ L2!Cached(f.l2, l)
      /\ Kept(Line, E, e, G, f)
      /\ Thinner(e.slices, f.slices) /\ G \subseteq E
  <2>1. DOMAIN e.slices = DOMAIN hier.slices
    BY <1>3 DEF Thinner
  <2>2. QED
    BY <1>2, <1>3, <2>1, SmtLoads
<1>5. \A v \in 0..(L1Ways - 1) :
        ~(h.slices[i].cache[s][v] # None /\ h.slices[i].cache[s][v].line = l)
  BY SmtGeometry DEF Smt!SM!Cached, Smt!SM!Holds
<1>6. ~ \E k \in F : k.line = l
  <2>1. SUFFICES ASSUME NEW k \in F, k.line = l
                 PROVE  FALSE
    OBVIOUS
  <2>2. PICK j \in DOMAIN h.slices : k \in LinesOfSlice(h.slices, j)
    BY DEF FrontS
  <2>3. SlicesFine(h.slices)
    BY DEF SmtFine
  <2>4. i = j
    BY <2>1, <2>2, <2>3, SmtElsewhere
  <2> DEFINE b == h.slices[i].cache
  <2>5. /\ b \in ArrayFor(L1Sets, L1Ways, Line) /\ Filed(L1Sets, L1Ways, b)
        /\ L1Sets \in Nat \ {0} /\ L1Ways \in Nat \ {0} /\ Line \in SUBSET Line
        /\ k \in LinesIn(L1Sets, L1Ways, b)
    BY <2>2, <2>3, <2>4, HierarchyAssumption
       DEF SlicesFine, SliceFine, SliceOf, LinesOfSlice
  <2>6. Absent(L1Sets, L1Ways, b, l)
    BY <1>5 DEF Absent
  <2> HIDE DEF b
  <2>7. ~ \E x \in LinesIn(L1Sets, L1Ways, b) : x.line = l
    BY <2>5, <2>6, SittingNowhere
  <2>8. QED
    BY <2>1, <2>5, <2>7
<1>7. c[s][w] = None /\ \A v \in 0..(L1Ways - 1) : ~(c[s][v] # None /\ c[s][v].line = l)
  <2> DEFINE a == h.slices[i].cache
             b == e.slices[i].cache
  <2>1. Thinned(L1Sets, L1Ways, a, b) /\ Thinned(L1Sets, L1Ways, b, c)
    BY <1>3, <1>4 DEF Thinner
  <2>2. b[s][w] = None /\ \A v \in 0..(L1Ways - 1) : ~(a[s][v] # None /\ a[s][v].line = l)
    BY <1>3, <1>5
  <2> HIDE DEF a, b, c, s
  <2>3. \A v \in 0..(L1Ways - 1) :
            /\ b[s][v] = a[s][v] \/ b[s][v] = None
            /\ c[s][v] = b[s][v] \/ c[s][v] = None
    BY <1>1, <2>1 DEF Thinned
  <2>4. QED
    BY <1>1, <2>2, <2>3
<1>8. /\ i \in DOMAIN f.slices /\ f.slices[i].owner = h.slices[i].owner
      /\ h.slices[i].owner # None
  BY <1>3, <1>4, HierarchyAssumption DEF Thinner
<1> HIDE DEF s
<1>9. n \in LineOf(Line) /\ n.line = l /\ ~n.dirty /\ n.data = L2!CopyOf(f.l2, l).data
  <2>1. n = [line |-> l, data |-> L2!CopyOf(f.l2, l).data, dirty |-> FALSE]
    BY SmtL2 DEF Smt!NewLine, Smt!SM!NewLine
  <2>2. PICK v \in L2!Ways : L2!Holds(f.l2, l, v)
    BY <1>4 DEF L2!Cached
  <2>3. L2!CopyOf(f.l2, l) = f.l2[L2!SetIndex(l)][v] /\ f.l2[L2!SetIndex(l)][v] # None
    <3>1. Behind(Line, f.l2, f.mem) /\ Line \in SUBSET Line
      BY <1>4 DEF SmtFine, Fit, Sound
    <3>2. QED
      BY <2>2, <3>1, Found DEF L2!Holds
  <2>4. L2!CopyOf(f.l2, l).data \in Data
    <3>1. L2!SetIndex(l) \in 0..(L2Sets - 1) /\ v \in 0..(L2Ways - 1)
      BY Geometry
    <3>2. f.l2 \in ArrayFor(L2Sets, L2Ways, Line)
      BY <1>4 DEF SmtFine, Fit, Sound, Behind
    <3>3. QED
      BY <2>3, <3>1, <3>2, SlotIn
  <2>5. QED
    BY <2>1, <2>4 DEF LineOf
<1> HIDE DEF n, F, E, G
<1>10. n.data = Reads(G, f.l2, f.mem, l)
  <2>1. ~ \E k \in G : k.line = l
    BY <1>3, <1>4, <1>6
  <2>2. QED
    BY <1>4, <1>9, <2>1, ReadsBehind
<1>11. Kept(Line, F, h, G, f)
  BY <1>3, <1>4 DEF Kept, Quiet, StaysClean
<1>12. n.data = Reads(F, h.l2, h.mem, l)
  BY <1>6, <1>10, <1>11 DEF Kept
<1>13. ASSUME NEW k \in LineOf(Line), k.line = l, k = n \/ k.dirty
       PROVE  LET r == SmtKept(f, i, k, w) IN
              /\ SmtFine(r)
              /\ Changes(Line, F, h, FrontS(r.slices), r, l, k.data, k.dirty)
  <2>1. NowhereElse(L1Sets, L1Ways, f.slices[i].cache, k, w)
    BY <1>7, <1>13 DEF NowhereElse, s
  <2>2. LET old == f.slices[i].cache[k.line % L1Sets][w]
        IN  old # None => old.line = k.line
    BY <1>7, <1>13 DEF s
  <2>3. k.dirty \/ k.data = L2!CopyOf(f.l2, k.line).data
    BY <1>9, <1>13
  <2>4. f.slices[i].owner # None /\ k.line \in LinesOf(f.slices[i].owner)
        /\ L2!Cached(f.l2, k.line)
    BY <1>4, <1>8, <1>13
  <2>5. LET r == SmtKept(f, i, k, w) IN
        /\ SmtFine(r) /\ r.l2 = f.l2 /\ r.mem = f.mem
        /\ DOMAIN r.slices = DOMAIN f.slices
        /\ \A x \in Line : Reads(FrontS(r.slices), r.l2, r.mem, x) =
             IF x = k.line THEN k.data ELSE Reads(FrontS(f.slices), f.l2, f.mem, x)
        /\ \A x \in Line : (x = k.line => ~k.dirty) =>
             StaysClean(FrontS(f.slices), f, FrontS(r.slices), r, x)
    <3>1. /\ w \in 0..(L1Ways - 1) /\ SmtFine(f) /\ i \in DOMAIN f.slices
          /\ k \in LineOf(Line)
      BY <1>1, <1>4, <1>8, <1>13
    <3> HIDE DEF c
    <3>2. QED
      BY <3>1, <2>1, <2>2, <2>3, <2>4, SmtKeeps
  <2>6. QED
    BY <1>11, <1>13, <2>5 DEF Changes, Kept, StaysClean, G
<1>14. QED
  BY <1>9, <1>12, <1>13 DEF n, f, F

\* The SMTCache's hierarchy is empty at first.
LEMMA SmtStart ==
    ASSUME Smt!Init
    PROVE  SmtFine(hier) /\ domain \in {"High", "Low"}
<1>1. PICK n \in SliceCounts :
        hier = [slices |-> [i \in 0..(n - 1) |->
                    [owner |-> None, cache |-> Smt!SM!NoLines, rank |-> Smt!SM!NoUses]],
                l2 |-> Smt!L2!NoLines, used2 |-> Smt!L2!NoUses,
                mem |-> [l \in Line |-> [o \in Offset |-> Zero]],
                panicked |-> FALSE]
  BY DEF Smt!Init
<1> DEFINE q == [owner |-> None, cache |-> Blank(L1Sets, L1Ways),
                 rank |-> InOrder(L1Sets, L1Ways)]
<1>2. /\ hier.slices = [i \in 0..(n - 1) |-> q]
      /\ hier.l2 = Blank(L2Sets, L2Ways) /\ hier.used2 = InOrder(L2Sets, L2Ways)
      /\ hier.mem = [l \in Line |-> [o \in Offset |-> Zero]]
      /\ hier.panicked = FALSE
      /\ DOMAIN hier = {"slices", "l2", "used2", "mem", "panicked"}
      /\ hier = [f \in DOMAIN hier |-> hier[f]]
  BY <1>1 DEF Smt!SM!NoLines, Smt!SM!NoUses, Smt!L2!NoLines, Smt!L2!NoUses,
              Smt!SM!Sets, Smt!SM!Ways, Smt!L2!Sets, Smt!L2!Ways,
              Blank, InOrder
<1>3. LinesIn(L1Sets, L1Ways, q.cache) = {} /\ SliceFine(q)
  <2>1. /\ Blank(L1Sets, L1Ways) \in ArrayFor(L1Sets, L1Ways, Line)
        /\ Filed(L1Sets, L1Ways, Blank(L1Sets, L1Ways))
        /\ LinesIn(L1Sets, L1Ways, Blank(L1Sets, L1Ways)) = {}
    BY EmptyArray
  <2>2. InOrder(L1Sets, L1Ways) \in RanksFor(L1Sets, L1Ways)
    BY FirstRanks
  <2>3. QED
    BY <2>1, <2>2 DEF SliceFine, SliceOf
<1>4. q.owner = None
  OBVIOUS
<1> HIDE DEF q
<1>5. SlicesFine(hier.slices) /\ FrontS(hier.slices) = {}
  BY <1>2, <1>3, <1>4 DEF SlicesFine, FrontS, LinesOfSlice
<1>6. Fit(Line, {}, hier)
  BY <1>2, FirstFit
<1>7. SmtFine(hier)
  BY <1>2, <1>5, <1>6 DEF SmtFine
<1>8. QED
  BY <1>7 DEF Smt!Init

SmtOutcome(y) ==
    LET then == Reads(FrontS(hier'.slices), hier'.l2, hier'.mem, y)
        now == Reads(FrontS(hier.slices), hier.l2, hier.mem, y)
    IN  /\ then # now =>
             \/ \E o \in Offset, v \in Byte :
                   Smt!Store(y, o, v) /\ then = [now EXCEPT ![o] = v]
             \/ /\ \E n \in FrontS(hier.slices) : n.line = y /\ n.dirty
                /\ \A n \in FrontS(hier'.slices) : n.line # y
                /\ ~L2!Cached(hier'.l2, y)
        /\ \/ StaysClean(FrontS(hier.slices), hier, FrontS(hier'.slices), hier', y)
           \/ \E o \in Offset, v \in Byte : Smt!Store(y, o, v)

\* An access to line l keeps line k: the line it finds or reads, n, or what a
\* store makes of it.
SmtKeepsLine(l, i, w, n, k) ==
    LET h == Smt!Claim(i)
        c == h.slices[i].cache
    IN  /\ Smt!SM!Active(i)
        /\ IF Smt!SM!Cached(c, l)
           THEN /\ Smt!SM!HitWay(c, l, w) /\ n = c[Smt!SM!SetIndex(l)][w]
                /\ Smt!Keep(h, i, l, w, k)
           ELSE /\ n = Smt!NewLine(Smt!Missed(h, i, l, w), l)
                /\ Smt!Keep(Smt!Missed(h, i, l, w), i, l, w, k)

\* A load of the SMTCache keeps the line it found or read.
LEMMA SmtLoadIs ==
    ASSUME NEW l, NEW o, Smt!Load(l, o)
    PROVE  \E i \in Smt!Slices, w \in Smt!SM!Ways : \E n : SmtKeepsLine(l, i, w, n, n)
BY DEF Smt!Load, Smt!Access, SmtKeepsLine

\* A store keeps that line with one byte changed.
LEMMA SmtStoreIs ==
    ASSUME NEW l, NEW o, NEW v, Smt!Store(l, o, v)
    PROVE  \E i \in Smt!Slices, w \in Smt!SM!Ways : \E n :
                SmtKeepsLine(l, i, w, n, Smt!SM!Stored(n, o, v))
BY DEF Smt!Store, Smt!Access, SmtKeepsLine

\* An access to line l, of a class that may.
LEMMA SmtAccesses ==
    ASSUME SmtFine(hier), domain \in {"High", "Low"},
           NEW i \in DOMAIN hier.slices, NEW w \in Smt!SM!Ways,
           NEW l \in LinesOf(domain), NEW n, NEW k,
           SmtKeepsLine(l, i, w, n, k),
           n \in LineOf(Line) /\ n.line = l =>
               k \in LineOf(Line) /\ k.line = l /\ (k = n \/ k.dirty)
    PROVE  /\ SmtFine(hier')
           /\ Changes(Line, FrontS(hier.slices), hier, FrontS(hier'.slices), hier',
                      l, k.data, k.dirty)
           /\ n.data = Reads(FrontS(hier.slices), hier.l2, hier.mem, l)
           /\ n \in LineOf(Line) /\ n.line = l
           /\ n.dirty => ~CleanIn(FrontS(hier.slices), hier.l2, l)
<1> DEFINE h == Smt!Claim(i)
           c == h.slices[i].cache
           F == FrontS(hier.slices)
           G == FrontS(h.slices)
           f == Smt!Missed(h, i, l, w)
<1>1. l \in Line /\ Smt!SM!Active(i)
  BY HierarchyAssumption DEF LinesOf, SmtKeepsLine
<1>2. /\ SmtFine(h) /\ DOMAIN h.slices = DOMAIN hier.slices
      /\ h.slices[i].owner = domain
      /\ G \subseteq F
      /\ Quiet(Line, F, hier, G, h)
  BY <1>1, SmtClaims
<1>3. ASSUME NEW r, NEW d, NEW q, Changes(Line, G, h, FrontS(r.slices), r, l, d, q)
      PROVE  Changes(Line, F, hier, FrontS(r.slices), r, l, d, q)
  <2> HIDE DEF G, F, h
  <2>1. QED
    BY <1>2, <1>3 DEF Changes, Quiet, StaysClean
<1>4. Reads(F, hier.l2, hier.mem, l) = Reads(G, h.l2, h.mem, l)
  <2> HIDE DEF G, F, h
  <2>1. QED
    BY <1>1, <1>2 DEF Quiet
<1>5. CASE Smt!SM!Cached(c, l)
  <2>1. /\ Smt!SM!HitWay(c, l, w) /\ n = c[Smt!SM!SetIndex(l)][w]
        /\ Smt!Keep(h, i, l, w, k)
    BY <1>5 DEF SmtKeepsLine
  <2>2. n \in LineOf(Line) /\ n.line = l
    <3>1. /\ w \in 0..(L1Ways - 1) /\ Smt!SM!SetIndex(l) \in 0..(L1Sets - 1)
          /\ n # None /\ n.line = l
      BY <1>1, <2>1, SmtGeometry, Geometry DEF Smt!SM!HitWay, Smt!SM!Holds
    <3>2. c \in ArrayFor(L1Sets, L1Ways, Line)
      BY <1>2 DEF SmtFine, SlicesFine, SliceFine, SliceOf
    <3> HIDE DEF c
    <3>3. QED
      BY <2>1, <3>1, <3>2, SlotIn
  <2>3. k \in LineOf(Line) /\ k.line = l /\ (k = n \/ k.dirty)
    BY <2>2
  <2>4. hier' = SmtKept(h, i, k, w)
    BY <2>1, <2>3, SmtKeepIs
  <2>5. LET r == SmtKept(h, i, k, w)
            old == h.slices[i].cache[Smt!SM!SetIndex(k.line)][w]
        IN  /\ SmtFine(r)
            /\ Changes(Line, FrontS(h.slices), h, FrontS(r.slices), r,
                       k.line, k.data, k.dirty)
            /\ old \in FrontS(h.slices) /\ old.line = k.line
    <3>1. /\ h.slices[i].owner \in {"High", "Low"}
          /\ k.line \in LinesOf(h.slices[i].owner)
          /\ Smt!SM!HitWay(h.slices[i].cache, k.line, w)
          /\ k = h.slices[i].cache[Smt!SM!SetIndex(k.line)][w] \/ k.dirty
          /\ i \in DOMAIN h.slices /\ SmtFine(h)
      BY <1>2, <2>1, <2>3
    <3> HIDE DEF h
    <3>2. QED
      BY <2>3, <3>1, SmtHits, SMTT(40)
  <2>6. n \in G
    BY <2>1, <2>3, <2>5
  <2>7. n.data = Reads(G, h.l2, h.mem, l)
    <3>1. Sound(Line, G, h.l2, h.mem) /\ Line \in SUBSET Line
      BY <1>2 DEF SmtFine, Fit
    <3> HIDE DEF G, h
    <3>2. QED
      BY <2>2, <2>6, <3>1, ReadsFront
  <2>8. SmtFine(hier') /\ Changes(Line, G, h, FrontS(hier'.slices), hier', l, k.data, k.dirty)
    BY <2>3, <2>4, <2>5
  <2>9. n.dirty => ~CleanIn(F, hier.l2, l)
    BY <1>2, <2>2, <2>6 DEF CleanIn
  <2>10. QED
    BY <1>3, <1>4, <2>2, <2>7, <2>8, <2>9
<1>6. CASE ~Smt!SM!Cached(c, l)
  <2>1. n = Smt!NewLine(f, l) /\ Smt!Keep(f, i, l, w, k)
    BY <1>6 DEF SmtKeepsLine
  <2>2. /\ n \in LineOf(Line) /\ n.line = l /\ ~n.dirty
        /\ n.data = Reads(G, h.l2, h.mem, l)
        /\ \A x \in LineOf(Line) : x.line = l /\ (x = n \/ x.dirty) =>
             LET r == SmtKept(f, i, x, w) IN
             /\ SmtFine(r)
             /\ Changes(Line, G, h, FrontS(r.slices), r, l, x.data, x.dirty)
    <3>1. /\ h.slices[i].owner \in {"High", "Low"} /\ l \in LinesOf(h.slices[i].owner)
          /\ ~Smt!SM!Cached(h.slices[i].cache, l) /\ i \in DOMAIN h.slices
          /\ SmtFine(h) /\ DOMAIN h.slices = DOMAIN hier.slices
      BY <1>2, <1>6
    <3> HIDE DEF h, c
    <3>2. LET p == Smt!NewLine(f, l) IN
          /\ p \in LineOf(Line) /\ p.line = l /\ ~p.dirty
          /\ p.data = Reads(FrontS(h.slices), h.l2, h.mem, l)
          /\ \A x \in LineOf(Line) : x.line = l /\ (x = p \/ x.dirty) =>
               LET r == SmtKept(f, i, x, w) IN
               /\ SmtFine(r)
               /\ Changes(Line, FrontS(h.slices), h, FrontS(r.slices), r,
                          l, x.data, x.dirty)
      BY <1>1, <3>1, SmtFetches
    <3>3. QED
      BY <2>1, <3>2
  <2>3. k \in LineOf(Line) /\ k.line = l /\ (k = n \/ k.dirty)
    BY <2>2
  <2>4. hier' = SmtKept(f, i, k, w)
    BY <2>1, <2>3, SmtKeepIs
  <2>5. SmtFine(hier') /\ Changes(Line, G, h, FrontS(hier'.slices), hier', l, k.data, k.dirty)
    BY <2>2, <2>3, <2>4
  <2>6. QED
    BY <1>3, <1>4, <2>2, <2>5
<1>7. QED
  BY <1>5, <1>6

\* A call of the SMTCache's hierarchy keeps it fine, does not panic, and has
\* one of the outcomes allowed for every line.
LEMMA SmtStep ==
    ASSUME SmtFine(hier), domain \in {"High", "Low"}, Smt!Next
    PROVE  SmtFine(hier') /\ domain' \in {"High", "Low"} /\ \A y \in Line : SmtOutcome(y)
<1> DEFINE F == FrontS(hier.slices)
           now(y) == Reads(F, hier.l2, hier.mem, y)
<1>1. Fit(Line, F, hier) /\ Line \in SUBSET Line
  BY DEF SmtFine
<1>2. CASE \E d \in Smt!SM!Domains : Smt!SetRequester(d)
  <2>1. hier' = hier /\ domain' \in {"High", "Low"}
    BY <1>2 DEF Smt!SetRequester, Smt!SM!Domains
  <2>2. \A y \in Line : SmtOutcome(y)
    BY <2>1 DEF SmtOutcome, StaysClean
  <2>3. QED
    BY <2>1, <2>2
<1>3. ASSUME NEW l \in LinesOf(domain), NEW o \in Offset,
             Smt!Load(l, o) \/ \E v \in Byte : Smt!Store(l, o, v)
      PROVE  SmtFine(hier') /\ domain' \in {"High", "Low"} /\ \A y \in Line : SmtOutcome(y)
  <2>1. l \in Line /\ domain' = domain
    BY <1>3, HierarchyAssumption DEF LinesOf, Smt!Load, Smt!Store
  <2>2. now(l) \in Data
    BY <1>1, <2>1, ReadsData
  <2>3. ASSUME NEW d, NEW q, SmtFine(hier'),
               Changes(Line, F, hier, FrontS(hier'.slices), hier', l, d, q),
               \/ d = now(l) /\ (q => ~CleanIn(F, hier.l2, l))
               \/ \E v \in Byte : Smt!Store(l, o, v) /\ d = [now(l) EXCEPT ![o] = v]
        PROVE  \A y \in Line : SmtOutcome(y)
    <3>1. SUFFICES ASSUME NEW y \in Line
                   PROVE  SmtOutcome(y)
      OBVIOUS
    <3>2. Fit(Line, FrontS(hier'.slices), hier')
      BY <2>3 DEF SmtFine
    <3>3. \/ StaysClean(F, hier, FrontS(hier'.slices), hier', y)
          \/ \E v \in Byte : Smt!Store(y, o, v)
      <4>1. CASE y = l /\ q
        BY <2>3, <4>1 DEF StaysClean
      <4>2. CASE ~(y = l /\ q)
        BY <2>3, <4>2 DEF Changes
      <4>3. QED
        BY <4>1, <4>2
    <3>4. CASE Reads(FrontS(hier'.slices), hier'.l2, hier'.mem, y) # now(y)
      <4>1. \/ y = l /\ Reads(FrontS(hier'.slices), hier'.l2, hier'.mem, y) = d
            \/ /\ \E n \in F : n.line = y /\ n.dirty
               /\ \A n \in FrontS(hier'.slices) : n.line # y
               /\ ~L2!Cached(hier'.l2, y)
        BY <1>1, <2>3, <3>2, <3>4, Outcome
      <4>2. QED
        BY <2>3, <3>3, <3>4, <4>1 DEF SmtOutcome
    <3>5. QED
      BY <3>3, <3>4 DEF SmtOutcome
  <2>4. CASE Smt!Load(l, o)
    <3>1. PICK i \in Smt!Slices, w \in Smt!SM!Ways : \E n : SmtKeepsLine(l, i, w, n, n)
      BY <2>4, SmtLoadIs
    <3> DEFINE n == CHOOSE n : SmtKeepsLine(l, i, w, n, n)
    <3> HIDE DEF n
    <3>2. i \in DOMAIN hier.slices
      BY DEF Smt!Slices
    <3>3. /\ SmtFine(hier')
          /\ Changes(Line, F, hier, FrontS(hier'.slices), hier', l, n.data, n.dirty)
          /\ n.data = now(l) /\ (n.dirty => ~CleanIn(F, hier.l2, l))
      <4>1. SmtKeepsLine(l, i, w, n, n)
        BY <3>1 DEF n
      <4>2. QED
        BY <3>2, <4>1, SmtAccesses
    <3>4. QED
      BY <2>1, <2>3, <3>3
  <2>5. ASSUME NEW v \in Byte, Smt!Store(l, o, v)
        PROVE  SmtFine(hier') /\ domain' \in {"High", "Low"} /\ \A y \in Line : SmtOutcome(y)
    <3>1. PICK i \in Smt!Slices, w \in Smt!SM!Ways : \E n :
              SmtKeepsLine(l, i, w, n, Smt!SM!Stored(n, o, v))
      BY <2>5, SmtStoreIs
    <3> DEFINE n == CHOOSE n : SmtKeepsLine(l, i, w, n, Smt!SM!Stored(n, o, v))
               k == Smt!SM!Stored(n, o, v)
    <3>2. i \in DOMAIN hier.slices
      BY DEF Smt!Slices
    <3> HIDE DEF n
    <3>3. n \in LineOf(Line) /\ n.line = l =>
            k \in LineOf(Line) /\ k.line = l /\ k.dirty /\ k.data = [n.data EXCEPT ![o] = v]
      BY DEF Smt!SM!Stored, LineOf, Data
    <3>4. SmtKeepsLine(l, i, w, n, k)
      BY <3>1 DEF n
    <3> HIDE DEF k
    <3>5. /\ SmtFine(hier')
          /\ Changes(Line, F, hier, FrontS(hier'.slices), hier', l, k.data, k.dirty)
          /\ n.data = now(l) /\ n \in LineOf(Line) /\ n.line = l
      BY <3>2, <3>3, <3>4, SmtAccesses
    <3>6. k.data = [now(l) EXCEPT ![o] = v]
      BY <3>3, <3>5
    <3> HIDE DEF now
    <3>7. QED
      BY <2>1, <2>3, <2>5, <3>5, <3>6
  <2>6. QED
    BY <1>3, <2>4, <2>5
<1>4. QED
  BY <1>2, <1>3, SmtGeometry DEF Smt!Next

\* What the properties of MCHierarchies say of the SMTCache's hierarchy.
LEMMA SmtFacts ==
    ASSUME SmtFine(hier), domain \in {"High", "Low"}
    PROVE  /\ Smt!TypeOK
           /\ Smt!Copies = FrontS(hier.slices)
           /\ L2!Includes(Smt!Copies, hier)
           /\ Smt!Agree
           /\ Smt!View = [l \in Line |-> Reads(FrontS(hier.slices), hier.l2, hier.mem, l)]
           /\ ~hier.panicked
<1> DEFINE F == FrontS(hier.slices)
<1>1. Smt!Copies = F
  BY SmtGeometry DEF Smt!Copies, FrontS, LinesOfSlice, LinesIn, Smt!Slices
<1>2. Sound(Line, F, hier.l2, hier.mem) /\ Line \in SUBSET Line
      /\ Behind(Line, hier.l2, hier.mem)
  BY DEF SmtFine, Fit, Sound
<1> HIDE DEF F
<1>3. L2!Includes(Smt!Copies, hier)
  BY <1>1, <1>2 DEF L2!Includes, Sound
<1>4. Smt!Agree
  <2>1. ASSUME NEW l \in Line, L2!Cached(hier.l2, l), ~L2!CopyOf(hier.l2, l).dirty
        PROVE  L2!CopyOf(hier.l2, l).data = hier.mem[l]
    <3>1. PICK v \in L2!Ways : L2!Holds(hier.l2, l, v)
      BY <2>1 DEF L2!Cached
    <3>2. L2!CopyOf(hier.l2, l) = hier.l2[L2!SetIndex(l)][v]
      BY <1>2, <3>1, Found
    <3>3. L2!SetIndex(l) \in 0..(L2Sets - 1) /\ v \in 0..(L2Ways - 1)
      BY Geometry
    <3>4. QED
      BY <1>2, <2>1, <3>1, <3>2, <3>3 DEF Behind, L2!Holds
  <2>2. QED
    BY <1>1, <1>2, <2>1, SmtL2 DEF Smt!Agree, Smt!L2!AllAgree, Sound
<1>5. Smt!View = [l \in Line |-> Reads(F, hier.l2, hier.mem, l)]
  BY <1>1, SmtL2 DEF Smt!View, Smt!L2!Flattened, Reads
<1>6. Smt!TypeOK
  <2>1. PICK n \in SliceCounts : DOMAIN hier.slices = 0..(n - 1)
    BY DEF SmtFine, SlicesFine
  <2>2. Smt!SM!SliceState = SliceOf
    BY DEF Smt!SM!SliceState, SliceOf, Smt!SM!Array, ArrayFor, Smt!SM!Sets, Smt!SM!Ways,
           Smt!SM!CacheLine, LineOf, Data, Smt!SM!Data, Smt!SM!Ranks, RanksFor,
           Smt!SM!Domains
  <2>3. Smt!L2!Array = ArrayFor(L2Sets, L2Ways, Line) /\ Smt!L2!Ranks = L2!Ranks
    BY DEF Smt!L2!Array, ArrayFor, Smt!L2!Sets, Smt!L2!Ways, Smt!L2!CacheLine,
           LineOf, Data, Smt!L2!Data, Smt!L2!Ranks, L2!Ranks, L2!Sets, L2!Ways
  <2>4. hier.slices \in [0..(n - 1) -> Smt!SM!SliceState]
    BY <2>1, <2>2 DEF SmtFine, SlicesFine, SliceFine
  <2>5. /\ hier = [f \in DOMAIN hier |-> hier[f]]
        /\ DOMAIN hier = {"slices", "l2", "used2", "mem", "panicked"}
        /\ hier.l2 \in Smt!L2!Array /\ hier.used2 \in Smt!L2!Ranks
        /\ hier.mem \in [Line -> [Offset -> Byte]]
        /\ hier.panicked = FALSE
    BY <1>2, <2>3 DEF SmtFine, Fit, Shape, Behind, Data
  <2>6. hier \in [slices : [0..(n - 1) -> Smt!SM!SliceState],
                  l2 : Smt!L2!Array, used2 : Smt!L2!Ranks,
                  mem : [Line -> [Offset -> Byte]], panicked : BOOLEAN]
    BY <2>4, <2>5
  <2>7. QED
    BY <2>6 DEF Smt!TypeOK, Smt!SM!Domains
<1>7. QED
  BY <1>1, <1>3, <1>4, <1>5, <1>6 DEF SmtFine, F

-----------------------------------------------------------------------------
(* Part 5.  The BackCache in front.                                        *)

(* The slots of the backup.                                                *)

EntryOf == [line : BackLine, data : Data, dirty : BOOLEAN, used : BOOLEAN]
SlotType == [enabled : BOOLEAN, entry : EntryOf \cup {None}]

\* The line of an entry, as the primary would have it.
Bare(e) == [line |-> e.line, data |-> e.data, dirty |-> e.dirty]

\* A slot that is not enabled is empty, and no two slots have the same line.
SlotsFine(b) ==
    /\ b \in [Slot -> SlotType]
    /\ \A s \in Slot : b[s].entry # None => b[s].enabled
    /\ \A s, t \in Slot :
        b[s].entry # None /\ b[t].entry # None /\ b[s].entry.line = b[t].entry.line
            => s = t

\* The lines that the backup b has.
Spare(b) == {Bare(b[s].entry) : s \in {s \in Slot : b[s].entry # None}}

\* Slot s with entry e.
WithEntry(b, s, e) == [b EXCEPT ![s].entry = e]

\* No slot but s has line x.
NoOther(b, s, x) == \A t \in Slot : b[t].entry # None /\ b[t].entry.line = x => t = s

\* What a backup slot holds is a line, and the slot is enabled.
LEMMA EntryFields ==
    ASSUME NEW b, SlotsFine(b), NEW s \in Slot, b[s].entry # None
    PROVE  /\ b[s].entry \in EntryOf /\ b[s].enabled
           /\ Bare(b[s].entry) \in LineOf(BackLine) /\ Bare(b[s].entry) \in Spare(b)
           /\ Bare(b[s].entry).line = b[s].entry.line
           /\ Bare(b[s].entry).data = b[s].entry.data
           /\ Bare(b[s].entry).dirty = b[s].entry.dirty
<1>1. b[s].entry \in EntryOf /\ b[s].enabled
  BY DEF SlotsFine, SlotType
<1> DEFINE e == b[s].entry
<1>2. e \in EntryOf /\ Bare(e) \in Spare(b)
  BY <1>1 DEF Spare
<1> HIDE DEF e
<1>3. /\ Bare(e) \in LineOf(BackLine) /\ Bare(e).line = e.line
      /\ Bare(e).data = e.data /\ Bare(e).dirty = e.dirty
  BY <1>2 DEF Bare, LineOf, EntryOf
<1>4. QED
  BY <1>1, <1>2, <1>3 DEF e

\* A line of the backup is in one slot.
LEMMA SpareOnce ==
    ASSUME NEW b, SlotsFine(b), NEW k \in Spare(b)
    PROVE  \E s \in Slot : /\ b[s].entry # None /\ k = Bare(b[s].entry)
                           /\ k.line = b[s].entry.line
                           /\ NoOther(b, s, k.line)
<1>1. PICK s \in Slot : b[s].entry # None /\ k = Bare(b[s].entry)
  BY DEF Spare
<1>2. k.line = b[s].entry.line
  BY <1>1, EntryFields
<1>3. NoOther(b, s, k.line)
  BY <1>1, <1>2 DEF NoOther, SlotsFine
<1>4. QED
  BY <1>1, <1>2, <1>3

\* From b to c slot s has got entry e, and nothing else has changed.
EntrySet(b, c, s, e) ==
    /\ SlotsFine(c)
    /\ c[s].entry = e /\ \A t \in Slot : c[t].enabled = b[t].enabled
    /\ \A t \in Slot : t # s => c[t].entry = b[t].entry
    /\ Spare(c) = {k \in Spare(b) : b[s].entry = None \/ k.line # b[s].entry.line}
                    \cup (IF e = None THEN {} ELSE {Bare(e)})

\* A slot gets an entry of a line that no other slot has.
LEMMA SetEntry ==
    ASSUME NEW b, SlotsFine(b), NEW s \in Slot, NEW e \in EntryOf \cup {None},
           e # None => b[s].enabled /\ NoOther(b, s, e.line)
    PROVE  EntrySet(b, WithEntry(b, s, e), s, e)
<1> DEFINE c == WithEntry(b, s, e)
<1>1. b \in [Slot -> SlotType] /\ b[s] \in SlotType
  BY DEF SlotsFine
<1>2. /\ c = [c EXCEPT ![s] = [b[s] EXCEPT !.entry = e]] /\ c \in [Slot -> SlotType]
      /\ c[s].entry = e /\ c[s].enabled = b[s].enabled
      /\ \A t \in Slot : t # s => c[t] = b[t]
  <2>1. c = [b EXCEPT ![s] = [b[s] EXCEPT !.entry = e]]
    BY DEF WithEntry
  <2> HIDE DEF c
  <2> DEFINE q == [b[s] EXCEPT !.entry = e]
  <2>2. q \in SlotType /\ q.entry = e /\ q.enabled = b[s].enabled
    BY <1>1 DEF SlotType
  <2> HIDE DEF q
  <2>3. QED
    BY <1>1, <2>1, <2>2 DEF q
<1> HIDE DEF c
<1>3. SlotsFine(c)
  BY <1>2 DEF SlotsFine, NoOther
<1>4. ASSUME NEW k \in Spare(c)
      PROVE  k \in {x \in Spare(b) : b[s].entry = None \/ x.line # b[s].entry.line}
                     \cup (IF e = None THEN {} ELSE {Bare(e)})
  <2>1. PICK t \in Slot : c[t].entry # None /\ k = Bare(c[t].entry)
                          /\ k.line = c[t].entry.line
    BY <1>3, SpareOnce
  <2>2. CASE t = s
    BY <1>2, <2>1, <2>2
  <2>3. CASE t # s
    <3>1. b[t].entry # None /\ k = Bare(b[t].entry) /\ k.line = b[t].entry.line
      BY <1>2, <2>1, <2>3
    <3>2. k \in Spare(b)
      BY <3>1 DEF Spare
    <3>3. b[s].entry # None => b[t].entry.line # b[s].entry.line
      BY <2>3, <3>1 DEF SlotsFine
    <3>4. QED
      BY <3>1, <3>2, <3>3
  <2>4. QED
    BY <2>2, <2>3
<1>5. ASSUME NEW k \in Spare(b), b[s].entry = None \/ k.line # b[s].entry.line
      PROVE  k \in Spare(c)
  <2>1. PICK t \in Slot : b[t].entry # None /\ k = Bare(b[t].entry)
                          /\ k.line = b[t].entry.line
    BY SpareOnce
  <2>2. t # s
    BY <1>5, <2>1
  <2>3. QED
    BY <1>2, <2>1, <2>2 DEF Spare
<1>6. e # None => Bare(e) \in Spare(c)
  BY <1>2 DEF Spare
<1>7. QED
  BY <1>2, <1>3, <1>4, <1>5, <1>6 DEF EntrySet, c

\* Where a line is found in the backup.
LEMMA SlotFound ==
    ASSUME NEW b, SlotsFine(b), NEW l
    PROVE  /\ Back!BC!InBackup(b, l) <=> \E k \in Spare(b) : k.line = l
           /\ Back!BC!InBackup(b, l) =>
                LET s == Back!BC!SlotOf(b, l) IN
                /\ s \in Slot /\ b[s].entry # None /\ b[s].entry.line = l
                /\ NoOther(b, s, l)
<1>1. \A s \in Slot : Back!BC!InSlot(b, l, s) <=> b[s].entry # None /\ b[s].entry.line = l
  BY DEF Back!BC!InSlot, Back!BC!Enabled, SlotsFine
<1>2. ASSUME NEW k \in Spare(b), k.line = l
      PROVE  Back!BC!InBackup(b, l)
  <2>1. PICK s \in Slot : b[s].entry # None /\ k.line = b[s].entry.line
    BY SpareOnce
  <2>2. QED
    BY <1>1, <1>2, <2>1 DEF Back!BC!InBackup
<1>3. ASSUME Back!BC!InBackup(b, l)
      PROVE  LET s == Back!BC!SlotOf(b, l) IN
             /\ s \in Slot /\ b[s].entry # None /\ b[s].entry.line = l
             /\ NoOther(b, s, l) /\ \E k \in Spare(b) : k.line = l
  <2> DEFINE s == Back!BC!SlotOf(b, l)
  <2>1. s \in Slot /\ Back!BC!InSlot(b, l, s)
    BY <1>3 DEF Back!BC!SlotOf, Back!BC!InBackup
  <2> HIDE DEF s
  <2>2. b[s].entry # None /\ b[s].entry.line = l
    BY <1>1, <2>1
  <2>3. NoOther(b, s, l)
    BY <2>1, <2>2 DEF NoOther, SlotsFine
  <2>4. Bare(b[s].entry) \in Spare(b) /\ Bare(b[s].entry).line = l
    BY <2>1, <2>2, EntryFields
  <2>5. QED
    BY <2>1, <2>2, <2>3, <2>4 DEF s
<1>4. QED
  BY <1>2, <1>3

\* Backup c is backup b with some of its slots emptied.
Lightened(b, c) ==
    \A s \in Slot : /\ c[s].enabled = b[s].enabled
                    /\ c[s].entry = b[s].entry \/ c[s].entry = None

-----------------------------------------------------------------------------
(* The hierarchy.                                                          *)

FrontP(h) == LinesIn(L1Sets, L1Ways, h.primary)
FrontB(h) == FrontP(h) \cup Spare(h.backup)

PrimaryFine(c) == c \in ArrayFor(L1Sets, L1Ways, BackLine) /\ Filed(L1Sets, L1Ways, c)
BackFine(h) ==
    /\ DOMAIN h = {"primary", "backup", "l2", "used2", "mem"}
    /\ PrimaryFine(h.primary) /\ SlotsFine(h.backup)
    /\ Fit(BackLine, FrontB(h), h)

WithPrimary(h, c) == [h EXCEPT !.primary = c]
WithBackup(h, b) == [h EXCEPT !.backup = b]

\* Replacing the primary or the backup changes nothing behind them.
LEMMA SetFront ==
    ASSUME NEW h, Shape(h), DOMAIN h = {"primary", "backup", "l2", "used2", "mem"},
           NEW c, NEW b
    PROVE  /\ LET r == WithPrimary(h, c) IN
              /\ Shape(r) /\ DOMAIN r = DOMAIN h /\ r.primary = c /\ r.backup = h.backup
              /\ r.l2 = h.l2 /\ r.mem = h.mem /\ r.used2 = h.used2
           /\ LET r == WithBackup(h, b) IN
              /\ Shape(r) /\ DOMAIN r = DOMAIN h /\ r.primary = h.primary /\ r.backup = b
              /\ r.l2 = h.l2 /\ r.mem = h.mem /\ r.used2 = h.used2
BY DEF WithPrimary, WithBackup, Shape

\* The L2's operators are those of MCHierarchies.
LEMMA BackL2 ==
    /\ \A c, l : Back!L2!Cached(c, l) = L2!Cached(c, l)
    /\ \A c, l : Back!L2!CopyOf(c, l) = L2!CopyOf(c, l)
    /\ \A h, l : Back!L2!HitWayOf(h, l) = L2!HitWayOf(h, l)
    /\ \A h, l : Back!L2!VictimWay(h, l) = L2!VictimWay(h, l)
    /\ \A h, l, w, n : Back!L2!Place(h, l, w, n) = L2!Place(h, l, w, n)
    /\ \A h, l, d : Back!L2!StoreWithRoom(h, l, d) = L2!StoreWithRoom(h, l, d)
    /\ \A c, l, w : Back!L2!Drop(c, l, w) = L2!Drop(c, l, w)
    /\ \A m, n : Back!L2!WriteBack(m, n) = L2!WriteBack(m, n)
    /\ \A l, d : Back!L2!NewLine(l, d) = L2!NewLine(l, d)
    /\ \A l : Back!L2!SetIndex(l) = L2!SetIndex(l)
BY DEF Back!L2!Cached, L2!Cached, Back!L2!CopyOf, L2!CopyOf,
       Back!L2!HitWayOf, L2!HitWayOf, Back!L2!VictimWay, L2!VictimWay,
       Back!L2!Place, L2!Place, Back!L2!StoreWithRoom, L2!StoreWithRoom,
       Back!L2!Drop, L2!Drop, Back!L2!WriteBack, L2!WriteBack,
       Back!L2!NewLine, L2!NewLine, Back!L2!SetIndex, L2!SetIndex,
       Back!L2!DirtyLine, L2!DirtyLine, Back!L2!HitWay, L2!HitWay,
       Back!L2!Holds, L2!Holds, Back!L2!Ways, L2!Ways, Back!L2!Put, L2!Put,
       Back!L2!Touch, L2!Touch, Back!L2!Victim, L2!Victim,
       Back!L2!FirstEmpty, L2!FirstEmpty, Back!L2!LeastRecent, L2!LeastRecent

BackTaken(h, l, w, old) ==
    [h EXCEPT !.l2 = Back!L2!Drop(@, l, w), !.mem = Back!L2!WriteBack(@, old)]

\* The L2 takes a victim out in the same way with the BackCache in front.
LEMMA BackTakes ==
    ASSUME NEW h, NEW l, NEW w, NEW old
    PROVE  BackTaken(h, l, w, old) = Taken(h, l, w, old)
BY DEF BackTaken, Taken, Back!L2!Drop, L2!Drop, Back!L2!WriteBack,
       L2!WriteBack, Back!L2!SetIndex, L2!SetIndex

\* The BackCache's read of a line that the L2 has.
LEMMA BackL2Hit ==
    ASSUME NEW h, NEW l, L2!Cached(h.l2, l)
    PROVE  Back!Filled(h, l) = L2!Place(h, l, L2!HitWayOf(h, l), L2!CopyOf(h.l2, l))
BY BackL2 DEF Back!Filled, Back!L2!LoadLine

\* Its read of one that the L2 has not.
LEMMA BackL2Miss ==
    ASSUME NEW h, NEW l, ~L2!Cached(h.l2, l)
    PROVE  LET w == L2!VictimWay(h, l)
               old == h.l2[L2!SetIndex(l)][w]
               t == Taken(h, l, w, old)
           IN  Back!Filled(h, l) =
                 Answered(IF old = None THEN t ELSE Back!InvalidateLine(t, old.line), l, w)
<1> DEFINE w == Back!L2!VictimWay(h, l)
           old == h.l2[Back!L2!SetIndex(l)][w]
           t == BackTaken(h, l, w, old)
           e == Back!L2!Evict(h, l, w, Back!InvalidateLine)
<1>1. e = IF old = None THEN t ELSE Back!InvalidateLine(t, old.line)
  BY DEF Back!L2!Evict, BackTaken
<1>2. Back!Filled(h, l) = Back!L2!Place(e, l, w, Back!L2!NewLine(l, e.mem[l]))
  BY BackL2 DEF Back!Filled, Back!L2!LoadLine
<1> HIDE DEF e
<1>3. Back!Filled(h, l) = Answered(e, l, w)
  BY <1>2, BackL2 DEF Answered
<1>4. w = L2!VictimWay(h, l) /\ old = h.l2[L2!SetIndex(l)][w] /\ t = Taken(h, l, w, old)
  BY BackL2, BackTakes
<1> HIDE DEF t, old, w
<1>5. QED
  BY <1>1, <1>3, <1>4

\* Its write-back of a line that the L2 has.
LEMMA BackL2Store ==
    ASSUME NEW h, NEW n, L2!Cached(h.l2, n.line)
    PROVE  Back!WriteBack(h, n) = L2!StoreWithRoom(h, n.line, n.data)
BY BackL2 DEF Back!WriteBack, Back!L2!StoreLine

\* The operators of the BackCache's primary in terms of arrays.
LEMMA BackGeometry ==
    /\ Back!BC!Ways = 0..(L1Ways - 1) /\ Back!BC!Sets = 0..(L1Sets - 1)
    /\ \A l : Back!BC!SetIndex(l) = l % L1Sets
    /\ \A c, l, w : Back!BC!Drop(c, l, w) = With(c, l % L1Sets, w, None)
    /\ \A c, l, w, n : Back!BC!Put(c, l, w, n) = With(c, l % L1Sets, w, n)
    /\ \A n : Back!BC!PrimaryLine(n) = Bare(n)
    /\ Back!BC!NoLines = Blank(L1Sets, L1Ways)
BY DEF Back!BC!Ways, Back!BC!Sets, Back!BC!SetIndex, Back!BC!Drop,
       Back!BC!Put, With, Back!BC!PrimaryLine, Bare, Back!BC!NoLines, Blank

\* Way w of the primary c has line l, and no other way has.
HeldAt(c, l, w) ==
    LET n == c[l % L1Sets][w] IN
    /\ w \in 0..(L1Ways - 1) /\ l % L1Sets \in 0..(L1Sets - 1)
    /\ n \in LinesIn(L1Sets, L1Ways, c) /\ n \in LineOf(BackLine)
    /\ n.line = l /\ n.data \in Data
    /\ \A k \in LinesIn(L1Sets, L1Ways, c) : k.line = l => k = n
    /\ NowhereElse(L1Sets, L1Ways, c, n, w)

\* The way of a primary hit holds the line.
LEMMA PrimaryHit ==
    ASSUME NEW c, PrimaryFine(c), NEW l \in BackLine, NEW w,
           Back!BC!HitWay(c, l, w), w \in Back!BC!Ways
    PROVE  HeldAt(c, l, w)
<1> DEFINE s == l % L1Sets
<1>1. w \in 0..(L1Ways - 1) /\ c[l % L1Sets][w] # None /\ c[l % L1Sets][w].line = l
  BY BackGeometry DEF Back!BC!HitWay, Back!BC!Holds
<1>2. /\ c \in ArrayFor(L1Sets, L1Ways, BackLine) /\ Filed(L1Sets, L1Ways, c)
      /\ L1Sets \in Nat \ {0} /\ L1Ways \in Nat \ {0} /\ BackLine \in SUBSET Line
      /\ l \in Line
  BY HierarchyAssumption DEF PrimaryFine
<1>3. s \in 0..(L1Sets - 1)
  BY <1>2, Geometry
<1>4. SitsAlone(L1Sets, L1Ways, c, l, w)
  <2>1. Sits(L1Sets, c, l, w)
    BY <1>1, Zenon DEF Sits
  <2>2. QED
    BY <1>1, <1>2, <2>1, SittingAlone
<1>5. c[s][w] \in LineOf(BackLine) /\ c[s][w].data \in Data
  <2> HIDE DEF s
  <2>1. c[s][w] # None
    BY <1>1 DEF s
  <2>2. QED
    BY <1>1, <1>2, <1>3, <2>1, SlotIn
<1>6. NowhereElse(L1Sets, L1Ways, c, c[l % L1Sets][w], w)
  BY <1>1, <1>4, Zenon DEF NowhereElse, SitsAlone
<1>7. /\ c[l % L1Sets][w] \in LinesIn(L1Sets, L1Ways, c)
      /\ \A k \in LinesIn(L1Sets, L1Ways, c) : k.line = l => k = c[l % L1Sets][w]
  BY <1>4, Zenon DEF SitsAlone
<1>8. QED
  BY <1>1, <1>3, <1>5, <1>6, <1>7 DEF HeldAt

\* A line of the primary is found, and one that is not is nowhere in it.
LEMMA PrimaryFound ==
    ASSUME NEW c, PrimaryFine(c), NEW l \in BackLine
    PROVE  /\ Back!BC!Cached(c, l) <=> \E n \in LinesIn(L1Sets, L1Ways, c) : n.line = l
           /\ Back!BC!Cached(c, l) => \E w \in Back!BC!Ways : Back!BC!HitWay(c, l, w)
           /\ ~Back!BC!Cached(c, l) =>
                \A w \in 0..(L1Ways - 1) : ~(c[l % L1Sets][w] # None /\ c[l % L1Sets][w].line = l)
<1>1. /\ c \in ArrayFor(L1Sets, L1Ways, BackLine) /\ Filed(L1Sets, L1Ways, c)
      /\ L1Sets \in Nat \ {0} /\ L1Ways \in Nat \ {0} /\ BackLine \in SUBSET Line
      /\ l \in Line
  BY HierarchyAssumption DEF PrimaryFine
<1>2. \A w : Back!BC!Holds(c, l, w) <=> c[l % L1Sets][w] # None /\ c[l % L1Sets][w].line = l
  BY BackGeometry DEF Back!BC!Holds
<1>3. CASE Back!BC!Cached(c, l)
  <2>1. PICK w \in 0..(L1Ways - 1) : c[l % L1Sets][w] # None /\ c[l % L1Sets][w].line = l
    BY <1>2, <1>3, BackGeometry DEF Back!BC!Cached
  <2>2. /\ c[l % L1Sets][w] \in LinesIn(L1Sets, L1Ways, c)
        /\ \A n \in LinesIn(L1Sets, L1Ways, c) : n.line = l => n = c[l % L1Sets][w]
        /\ \A v \in 0..(L1Ways - 1) :
              c[l % L1Sets][v] # None /\ c[l % L1Sets][v].line = l => v = w
        /\ \A v \in 0..(w - 1) : ~(c[l % L1Sets][v] # None /\ c[l % L1Sets][v].line = l)
    BY <1>1, <2>1, HeldOnce
  <2>3. Back!BC!HitWay(c, l, w) /\ w \in Back!BC!Ways
    BY <1>2, <2>1, <2>2, BackGeometry DEF Back!BC!HitWay
  <2>4. QED
    BY <1>3, <2>1, <2>2, <2>3
<1>4. CASE ~Back!BC!Cached(c, l)
  <2>1. \A w \in 0..(L1Ways - 1) : ~(c[l % L1Sets][w] # None /\ c[l % L1Sets][w].line = l)
    BY <1>2, <1>4, BackGeometry DEF Back!BC!Cached
  <2>2. ~ \E n \in LinesIn(L1Sets, L1Ways, c) : n.line = l
    BY <1>1, <2>1, NotHeld
  <2>3. QED
    BY <1>4, <2>1, <2>2
<1>5. QED
  BY <1>3, <1>4

\* A line is taken out of a way of the primary.
LEMMA PrimaryDrop ==
    ASSUME NEW c, PrimaryFine(c), NEW s \in 0..(L1Sets - 1), NEW w \in 0..(L1Ways - 1)
    PROVE  LET d == With(c, s, w, None) IN
           /\ PrimaryFine(d) /\ Thinned(L1Sets, L1Ways, c, d)
           /\ d[s][w] = None
           /\ LinesIn(L1Sets, L1Ways, d) = LinesIn(L1Sets, L1Ways, c) \ {c[s][w]}
<1>1. /\ c \in ArrayFor(L1Sets, L1Ways, BackLine) /\ Filed(L1Sets, L1Ways, c)
      /\ L1Sets \in Nat \ {0} /\ L1Ways \in Nat \ {0} /\ BackLine \in SUBSET Line
  BY HierarchyAssumption DEF PrimaryFine
<1>2. /\ With(c, s, w, None) \in ArrayFor(L1Sets, L1Ways, BackLine)
      /\ Filed(L1Sets, L1Ways, With(c, s, w, None))
      /\ With(c, s, w, None)[s][w] = None
      /\ \A t \in 0..(L1Sets - 1), u \in 0..(L1Ways - 1) :
           <<t, u>> # <<s, w>> => With(c, s, w, None)[t][u] = c[t][u]
      /\ LinesIn(L1Sets, L1Ways, With(c, s, w, None)) =
            LinesIn(L1Sets, L1Ways, c) \ {c[s][w]}
  BY <1>1, DropIn
<1>3. Thinned(L1Sets, L1Ways, c, With(c, s, w, None))
  BY <1>2 DEF Thinned
<1>4. QED
  BY <1>2, <1>3 DEF PrimaryFine

-----------------------------------------------------------------------------
(* The BackCache as the listener.                                          *)

\* The primary has no copy of line k afterwards, and the L2 still has room for l.
PrimaryInvalidated(h, r, l, w, k) ==
    /\ Room(BackLine, h, r, l, w) /\ DOMAIN r = DOMAIN h
    /\ r.backup = h.backup
    /\ PrimaryFine(r.primary) /\ Thinned(L1Sets, L1Ways, h.primary, r.primary)
    /\ FrontP(r) = {n \in FrontP(h) : n.line # k}

\* Nor has the backup.
BackInvalidated(h, r, l, w, k) ==
    /\ Room(BackLine, h, r, l, w) /\ DOMAIN r = DOMAIN h
    /\ PrimaryFine(r.primary) /\ Thinned(L1Sets, L1Ways, h.primary, r.primary)
    /\ SlotsFine(r.backup) /\ Lightened(h.backup, r.backup)
    /\ FrontP(r) = {n \in FrontP(h) : n.line # k}
    /\ Spare(r.backup) = {n \in Spare(h.backup) : n.line # k}

\* A copy of the line that the L2 has taken out is written back when it is dirty.
LEMMA BackGivesBack ==
    ASSUME NEW h, Behind(BackLine, h.l2, h.mem), NEW l \in BackLine, NEW w \in L2!Ways,
           DOMAIN h = {"primary", "backup", "l2", "used2", "mem"},
           L2!Victim(h.l2, h.used2, L2!SetIndex(l), w),
           NEW e, Room(BackLine, h, e, l, w), DOMAIN e = DOMAIN h,
           h.l2[L2!SetIndex(l)][w] # None, NEW n, n.data \in Data
    PROVE  LET k == h.l2[L2!SetIndex(l)][w].line
               r == IF n.dirty THEN Back!L2!StoreWithRoom(e, k, n.data) ELSE e
           IN  /\ Room(BackLine, h, r, l, w) /\ DOMAIN r = DOMAIN h
               /\ r.primary = e.primary /\ r.backup = e.backup
<1> DEFINE k == h.l2[L2!SetIndex(l)][w].line
           r == L2!StoreWithRoom(e, k, n.data)
<1>1. BackLine \in SUBSET Line
  BY HierarchyAssumption
<1>2. Room(BackLine, h, r, l, w) /\ SameFront(e, r)
  BY <1>1, RoomStore
<1>3. Back!L2!StoreWithRoom(e, k, n.data) = r
  BY BackL2
<1> HIDE DEF r, k
<1>4. DOMAIN r = DOMAIN h /\ r.primary = e.primary /\ r.backup = e.backup
  BY <1>2 DEF SameFront
<1>5. QED
  BY <1>2, <1>3, <1>4 DEF k

\* invalidate_line, first half: the primary's copy of line k goes, into the
\* L2 if it is dirty.
LEMMA BackPrimaryInvalidates ==
    ASSUME NEW h, BackFine(h), NEW l \in BackLine, NEW w \in L2!Ways,
           L2!Victim(h.l2, h.used2, L2!SetIndex(l), w),
           NEW e, Room(BackLine, h, e, l, w), SameFront(h, e),
           h.l2[L2!SetIndex(l)][w] # None,
           NEW k, k = h.l2[L2!SetIndex(l)][w].line
    PROVE  PrimaryInvalidated(h, Back!InvalidatePrimary(e, k), l, w, k)
<1> DEFINE r == Back!InvalidatePrimary(e, k)
           c == h.primary
<1>1. k \in BackLine
  BY Geometry, SlotIn, HierarchyAssumption DEF BackFine, Fit, Sound, Behind
<1>2. /\ e.primary = c /\ e.backup = h.backup /\ DOMAIN e = DOMAIN h /\ Shape(e)
      /\ DOMAIN h = {"primary", "backup", "l2", "used2", "mem"} /\ PrimaryFine(c)
      /\ Behind(BackLine, h.l2, h.mem) /\ BackLine \in SUBSET Line
  BY HierarchyAssumption DEF SameFront, BackFine, Room, Fit, Sound
<1> HIDE DEF c
<1>3. CASE ~Back!BC!Cached(c, k)
  <2>1. r = e
    BY <1>2, <1>3 DEF Back!InvalidatePrimary
  <2>2. ~ \E n \in LinesIn(L1Sets, L1Ways, c) : n.line = k
    BY <1>1, <1>2, <1>3, PrimaryFound
  <2>3. Thinned(L1Sets, L1Ways, c, c)
    BY DEF Thinned
  <2> HIDE DEF r
  <2>4. QED
    BY <1>2, <2>1, <2>2, <2>3 DEF PrimaryInvalidated, FrontP, c, r
<1>4. CASE Back!BC!Cached(c, k)
  <2> DEFINE v == CHOOSE v \in Back!BC!Ways : Back!BC!HitWay(c, k, v)
             s == k % L1Sets
             n == c[s][v]
             d == With(c, s, v, None)
             out == WithPrimary(e, d)
  <2>1. v \in Back!BC!Ways /\ Back!BC!HitWay(c, k, v)
    BY <1>1, <1>2, <1>4, PrimaryFound
  <2>2. r = IF n.dirty THEN Back!L2!StoreWithRoom(out, k, n.data) ELSE out
    <3>1. Back!BC!Drop(e.primary, k, v) = d /\ Back!BC!SetIndex(k) = s
      BY <1>2, BackGeometry
    <3>2. [e EXCEPT !.primary = Back!BC!Drop(@, k, v)] = out
      <4> HIDE DEF d
      <4>1. QED
        BY <3>1 DEF WithPrimary
    <3>3. Back!BC!Cached(e.primary, k)
      BY <1>2, <1>4
    <3> HIDE DEF out, d, s
    <3>4. r = IF n.dirty
              THEN Back!L2!StoreWithRoom([e EXCEPT !.primary = Back!BC!Drop(@, k, v)], k, n.data)
              ELSE [e EXCEPT !.primary = Back!BC!Drop(@, k, v)]
      BY <1>2, <3>1, <3>3 DEF Back!InvalidatePrimary
    <3> HIDE DEF n, v, r
    <3>5. QED
      BY <3>2, <3>4
  <2> HIDE DEF r, v
  <2>3. /\ v \in 0..(L1Ways - 1) /\ s \in 0..(L1Sets - 1)
        /\ n \in LinesIn(L1Sets, L1Ways, c) /\ n.line = k /\ n.data \in Data
        /\ \A x \in LinesIn(L1Sets, L1Ways, c) : x.line = k => x = n
    <3>1. HeldAt(c, k, v)
      BY <1>1, <1>2, <2>1, PrimaryHit
    <3>2. QED
      BY <3>1 DEF HeldAt
  <2>4. /\ PrimaryFine(d) /\ Thinned(L1Sets, L1Ways, c, d)
        /\ LinesIn(L1Sets, L1Ways, d) = LinesIn(L1Sets, L1Ways, c) \ {n}
    <3> HIDE DEF s
    <3>1. QED
      BY <1>2, <2>3, PrimaryDrop
  <2> HIDE DEF d, n
  <2>5. /\ out.primary = d /\ out.backup = h.backup /\ DOMAIN out = DOMAIN h
        /\ Room(BackLine, h, out, l, w)
    BY <1>2, SetFront DEF Room
  <2> HIDE DEF out
  <2>6. /\ Room(BackLine, h, r, l, w) /\ DOMAIN r = DOMAIN h
        /\ r.primary = out.primary /\ r.backup = out.backup
    BY <1>2, <2>2, <2>3, <2>5, BackGivesBack, SMTT(40)
  <2>7. FrontP(r) = {x \in FrontP(h) : x.line # k}
    BY <2>3, <2>4, <2>5, <2>6 DEF FrontP, c
  <2>8. QED
    BY <2>4, <2>5, <2>6, <2>7 DEF PrimaryInvalidated, r, c
<1>5. QED
  BY <1>3, <1>4

\* Second half: the backup's copy goes likewise, and then k is nowhere in
\* front.
LEMMA BackBackupInvalidates ==
    ASSUME NEW h, BackFine(h), NEW l \in BackLine, NEW w \in L2!Ways,
           L2!Victim(h.l2, h.used2, L2!SetIndex(l), w),
           h.l2[L2!SetIndex(l)][w] # None,
           NEW k, k = h.l2[L2!SetIndex(l)][w].line,
           NEW e, PrimaryInvalidated(h, e, l, w, k)
    PROVE  BackInvalidated(h, Back!InvalidateBackup(e, k), l, w, k)
<1> DEFINE r == Back!InvalidateBackup(e, k)
           b == h.backup
<1>1. /\ e.backup = b /\ DOMAIN e = DOMAIN h /\ Shape(e) /\ Room(BackLine, h, e, l, w)
      /\ DOMAIN h = {"primary", "backup", "l2", "used2", "mem"} /\ SlotsFine(b)
      /\ Behind(BackLine, h.l2, h.mem) /\ BackLine \in SUBSET Line
  BY HierarchyAssumption DEF PrimaryInvalidated, BackFine, Room, Fit, Sound
<1>2. \A x : /\ x.primary = e.primary => FrontP(x) = FrontP(e)
  BY DEF FrontP
<1> HIDE DEF b
<1>3. CASE ~Back!BC!InBackup(b, k)
  <2>1. r = e
    BY <1>1, <1>3 DEF Back!InvalidateBackup
  <2>2. ~ \E n \in Spare(b) : n.line = k
    BY <1>1, <1>3, SlotFound
  <2>3. Lightened(b, b)
    BY DEF Lightened
  <2> HIDE DEF r
  <2>4. QED
    BY <1>1, <2>1, <2>2, <2>3 DEF PrimaryInvalidated, BackInvalidated, b, r
<1>4. CASE Back!BC!InBackup(b, k)
  <2> DEFINE s == Back!BC!SlotOf(b, k)
             n == b[s].entry
             c == WithEntry(b, s, None)
             out == WithBackup(e, c)
  <2>1. s \in Slot /\ n # None /\ n.line = k
    BY <1>1, <1>4, SlotFound
  <2>2. r = IF n.dirty THEN Back!L2!StoreWithRoom(out, k, n.data) ELSE out
    <3>1. [e EXCEPT !.backup[s].entry = None] = out
      <4>1. WithEntry(e.backup, s, None) = c
        BY <1>1
      <4> HIDE DEF c, s
      <4>2. QED
        BY <4>1 DEF WithBackup, WithEntry
    <3> HIDE DEF out, c
    <3>2. r = IF n.dirty
              THEN Back!L2!StoreWithRoom([e EXCEPT !.backup[s].entry = None], k, n.data)
              ELSE [e EXCEPT !.backup[s].entry = None]
      BY <1>1, <1>4 DEF Back!InvalidateBackup
    <3> HIDE DEF n, s, r
    <3>3. QED
      BY <3>1, <3>2
  <2> HIDE DEF r, s
  <2>3. n \in EntryOf /\ n.data \in Data
    <3>1. n \in EntryOf
      BY <1>1, <2>1, EntryFields
    <3> HIDE DEF n
    <3>2. QED
      BY <3>1 DEF EntryOf
  <2>4. EntrySet(b, c, s, None)
    BY <1>1, <2>1, SetEntry
  <2>5. /\ SlotsFine(c) /\ Lightened(b, c)
        /\ Spare(c) = {x \in Spare(b) : x.line # k}
    BY <2>1, <2>4 DEF EntrySet, Lightened
  <2> HIDE DEF c, n
  <2>6. /\ out.backup = c /\ out.primary = e.primary /\ DOMAIN out = DOMAIN h
        /\ Room(BackLine, h, out, l, w)
    BY <1>1, SetFront DEF Room
  <2> HIDE DEF out
  <2>7. /\ Room(BackLine, h, r, l, w) /\ DOMAIN r = DOMAIN h
        /\ r.primary = out.primary /\ r.backup = out.backup
    BY <1>1, <2>2, <2>3, <2>6, BackGivesBack
  <2>8. r.primary = e.primary /\ FrontP(r) = FrontP(e)
    BY <1>2, <2>6, <2>7
  <2>9. QED
    BY <2>5, <2>6, <2>7, <2>8 DEF PrimaryInvalidated, BackInvalidated, r, b
<1>5. QED
  BY <1>3, <1>4

\* Both: the L2 still has room for l, and k is lost only if it was dirty in
\* front.
LEMMA BackInvalidates ==
    ASSUME NEW h, BackFine(h), NEW l \in BackLine, NEW w \in L2!Ways,
           L2!Victim(h.l2, h.used2, L2!SetIndex(l), w),
           NEW e, Room(BackLine, h, e, l, w), SameFront(h, e),
           h.l2[L2!SetIndex(l)][w] # None,
           NEW k, k = h.l2[L2!SetIndex(l)][w].line
    PROVE  BackInvalidated(h, Back!InvalidateLine(e, k), l, w, k)
<1>1. PrimaryInvalidated(h, Back!InvalidatePrimary(e, k), l, w, k)
  BY BackPrimaryInvalidates
<1>2. BackInvalidated(h, Back!InvalidateBackup(Back!InvalidatePrimary(e, k), k), l, w, k)
  BY <1>1, BackBackupInvalidates
<1>3. QED
  BY <1>2 DEF Back!InvalidateLine

\* A load that the BackCache sends to the L2.
LEMMA BackLoads ==
    ASSUME NEW h, BackFine(h), NEW l \in BackLine
    PROVE  LET r == Back!Filled(h, l) IN
           /\ BackFine(r) /\ L2!Cached(r.l2, l)
           /\ Kept(BackLine, FrontB(h), h, FrontB(r), r)
           /\ FrontP(r) \subseteq FrontP(h) /\ Spare(r.backup) \subseteq Spare(h.backup)
<1> DEFINE r == Back!Filled(h, l)
           w == L2!VictimWay(h, l)
           old == h.l2[L2!SetIndex(l)][w]
           t == Taken(h, l, w, old)
           e == IF old = None THEN t ELSE Back!InvalidateLine(t, old.line)
           F == FrontB(h)
<1>1. /\ Fit(BackLine, F, h) /\ BackLine \in SUBSET Line /\ Behind(BackLine, h.l2, h.mem)
      /\ DOMAIN h = {"primary", "backup", "l2", "used2", "mem"} /\ Shape(h)
      /\ PrimaryFine(h.primary) /\ SlotsFine(h.backup) /\ l \in Line
  BY HierarchyAssumption DEF BackFine, Fit, Sound
<1> HIDE DEF r, F
<1>2. CASE L2!Cached(h.l2, l)
  <2>1. r = L2!Place(h, l, L2!HitWayOf(h, l), L2!CopyOf(h.l2, l))
    BY <1>2, BackL2Hit DEF r
  <2>2. Fit(BackLine, F, r) /\ SameFront(h, r) /\ Quiet(BackLine, F, h, F, r)
    BY <1>1, <1>2, <2>1, Reload
  <2>3. r.primary = h.primary /\ r.backup = h.backup /\ DOMAIN r = DOMAIN h
    BY <1>1, <2>2 DEF SameFront
  <2>4. FrontB(r) = F /\ FrontP(r) = FrontP(h)
    BY <2>3 DEF F, FrontB, FrontP
  <2>5. L2!Cached(r.l2, l) /\ Kept(BackLine, F, h, F, r)
    BY <1>2, <2>2 DEF Quiet, Kept, StaysClean
  <2>6. BackFine(r)
    BY <1>1, <2>2, <2>3, <2>4 DEF BackFine
  <2>7. QED
    BY <2>3, <2>4, <2>5, <2>6 DEF F, r
<1>3. CASE ~L2!Cached(h.l2, l)
  <2>1. r = Answered(e, l, w)
    BY <1>3, BackL2Miss DEF r
  <2>2. w \in L2!Ways /\ L2!Victim(h.l2, h.used2, L2!SetIndex(l), w)
    BY <1>1, VictimExists DEF Shape
  <2>3. Room(BackLine, h, t, l, w) /\ SameFront(h, t)
    <3> HIDE DEF w
    <3>1. QED
      BY <1>1, <2>2, RoomStart DEF Taken
  <2> HIDE DEF t, w
  <2>4. /\ Room(BackLine, h, e, l, w) /\ DOMAIN e = DOMAIN h
        /\ PrimaryFine(e.primary) /\ SlotsFine(e.backup)
        /\ FrontP(e) \subseteq FrontP(h) /\ Spare(e.backup) \subseteq Spare(h.backup)
        /\ FrontB(e) = {n \in F : old = None \/ n.line # old.line}
    <3>1. CASE old = None
      <4>1. e = t
        BY <3>1
      <4> HIDE DEF e
      <4>2. e.primary = h.primary /\ e.backup = h.backup /\ DOMAIN e = DOMAIN h
        BY <4>1, <2>3, <1>1 DEF SameFront
      <4>3. FrontP(e) = FrontP(h) /\ FrontB(e) = F
        BY <4>2 DEF FrontP, FrontB, F
      <4> HIDE DEF old
      <4>4. QED
        BY <3>1, <4>1, <4>2, <4>3, <2>3, <1>1
    <3>2. CASE old # None
      <4>1. e = Back!InvalidateLine(t, old.line)
        BY <3>2
      <4> HIDE DEF e
      <4> DEFINE k == old.line
      <4>2. BackInvalidated(h, Back!InvalidateLine(t, k), l, w, k)
        <5>1. h.l2[L2!SetIndex(l)][w] # None /\ k = h.l2[L2!SetIndex(l)][w].line
          BY <3>2
        <5> HIDE DEF k, old
        <5>2. QED
          BY <5>1, <2>2, <2>3, BackInvalidates
      <4>3. BackInvalidated(h, e, l, w, k)
        BY <4>1, <4>2
      <4> HIDE DEF old
      <4>4. QED
        BY <3>2, <4>3 DEF BackInvalidated, FrontB, F
    <3>3. QED
      BY <3>1, <3>2
  <2> HIDE DEF e
  <2> DEFINE G == FrontB(e)
  <2>5. /\ Fit(BackLine, G, r) /\ SameFront(e, r) /\ Kept(BackLine, F, h, G, r)
        /\ L2!Cached(r.l2, l)
    <3>1. G \subseteq F /\ \A n \in F : n \in G <=> old = None \/ n.line # old.line
      BY <2>4
    <3>2. Fit(BackLine, F, h) /\ BackLine \in SUBSET Line
      BY <1>1
    <3> HIDE DEF G
    <3>3. QED
      BY <3>1, <3>2, <1>3, <2>1, <2>2, <2>4, Refill DEF Answered
  <2>6. r.primary = e.primary /\ r.backup = e.backup /\ DOMAIN r = DOMAIN h
    BY <1>1, <2>4, <2>5 DEF SameFront
  <2>7. FrontB(r) = G /\ FrontP(r) = FrontP(e)
    BY <2>6 DEF FrontB, FrontP
  <2> HIDE DEF old
  <2>8. BackFine(r)
    BY <1>1, <2>4, <2>5, <2>6, <2>7 DEF BackFine
  <2>9. QED
    BY <2>4, <2>5, <2>6, <2>7, <2>8 DEF F, r
<1>4. QED
  BY <1>2, <1>3

-----------------------------------------------------------------------------
(* A slot gives up its entry.                                              *)

\* The hierarchy h while the lines X are on the way from one place in front to
\* another.
BackOver(h, X) ==
    /\ DOMAIN h = {"primary", "backup", "l2", "used2", "mem"}
    /\ PrimaryFine(h.primary) /\ SlotsFine(h.backup)
    /\ Fit(BackLine, FrontB(h) \cup X, h)

\* From h to r slot s has given up its entry, which the L2 has if it was dirty.
SlotGivenUp(h, r, X, s) ==
    /\ BackOver(r, X)
    /\ Quiet(BackLine, FrontB(h) \cup X, h, FrontB(r) \cup X, r)
    /\ r.primary = h.primary
    /\ EntrySet(h.backup, r.backup, s, None)

\* A hierarchy over no extra lines is a fine hierarchy.
LEMMA OverNothing ==
    ASSUME NEW h
    PROVE  FrontB(h) \cup {} = FrontB(h) /\ (BackOver(h, {}) <=> BackFine(h))
<1>1. FrontB(h) \cup {} = FrontB(h)
  OBVIOUS
<1>2. QED
  BY <1>1 DEF BackOver, BackFine

\* A slot gives up its entry, which the L2 has if it was dirty: every line
\* reads as before.
LEMMA BackEmpties ==
    ASSUME NEW h, NEW X, BackOver(h, X), NEW s \in Slot
    PROVE  SlotGivenUp(h, Back!Emptied(h, s), X, s)
<1> DEFINE b == h.backup
           e == b[s].entry
           n == Bare(e)
           c == WithEntry(b, s, None)
           out == WithBackup(h, c)
           r == Back!Emptied(h, s)
           F == FrontB(h) \cup X
           G == FrontB(out) \cup X
<1>1. /\ Fit(BackLine, F, h) /\ BackLine \in SUBSET Line /\ Shape(h)
      /\ DOMAIN h = {"primary", "backup", "l2", "used2", "mem"}
      /\ PrimaryFine(h.primary) /\ SlotsFine(b)
  BY HierarchyAssumption DEF BackOver, Fit
<1>2. r = IF e # None /\ e.dirty THEN Back!WriteBack(out, e) ELSE out
  <2>1. [h EXCEPT !.backup[s].entry = None] = out
    BY DEF WithBackup, WithEntry
  <2> HIDE DEF out, c
  <2>2. r = IF e # None /\ e.dirty
            THEN Back!WriteBack([h EXCEPT !.backup[s].entry = None], e)
            ELSE [h EXCEPT !.backup[s].entry = None]
    BY DEF Back!Emptied
  <2> HIDE DEF e, r
  <2>3. QED
    BY <2>1, <2>2
<1> HIDE DEF r
<1>3. EntrySet(b, c, s, None)
  BY <1>1, SetEntry
<1> HIDE DEF c
<1>4. /\ Shape(out) /\ DOMAIN out = DOMAIN h /\ out.primary = h.primary /\ out.backup = c
      /\ out.l2 = h.l2 /\ out.mem = h.mem
  BY <1>1, SetFront
<1> HIDE DEF out
<1>5. SlotsFine(c) /\ Spare(c) = {k \in Spare(b) : e = None \/ k.line # e.line}
  BY <1>3 DEF EntrySet
<1>6. G = FrontP(h) \cup Spare(c) \cup X /\ F = FrontP(h) \cup Spare(b) \cup X
  BY <1>4 DEF FrontB, FrontP
<1> HIDE DEF F, b
<1>7. Fit(BackLine, F, out) /\ Quiet(BackLine, F, h, F, out)
  BY <1>1, <1>4, FrontOnly
<1>8. CASE e = None
  <2>1. r = out
    BY <1>2, <1>8
  <2>2. G = F
    BY <1>5, <1>6, <1>8
  <2>3. BackOver(out, X)
    BY <1>1, <1>4, <1>5, <1>7, <2>2 DEF BackOver
  <2>4. QED
    BY <1>3, <1>4, <1>7, <2>1, <2>2, <2>3 DEF SlotGivenUp, F, b, r
<1>9. CASE e # None
  <2>1. /\ n \in Spare(b) /\ n \in F
        /\ n.line = e.line /\ n.data = e.data /\ n.dirty = e.dirty
    <3>1. n \in Spare(b) /\ n.line = e.line /\ n.data = e.data /\ n.dirty = e.dirty
      BY <1>1, <1>9, EntryFields
    <3>2. QED
      BY <1>6, <3>1
  <2>2. F \ {n} \subseteq G /\ G \subseteq F
    <3>1. ASSUME NEW k \in F, k # n
          PROVE  k \in G
      <4>1. k.line # n.line
        BY <1>1, <2>1, <3>1 DEF Fit, Sound
      <4>2. QED
        BY <1>5, <1>6, <2>1, <4>1
    <3>2. QED
      BY <1>5, <1>6, <3>1
  <2> HIDE DEF n
  <2>3. r = IF n.dirty THEN L2!StoreWithRoom(out, n.line, n.data) ELSE out
    <3>1. L2!Cached(out.l2, e.line)
      BY <1>7, <2>1 DEF Fit, Sound
    <3> HIDE DEF e
    <3>2. Back!WriteBack(out, e) = L2!StoreWithRoom(out, n.line, n.data)
      BY <2>1, <3>1, BackL2Store
    <3>3. QED
      BY <1>2, <1>9, <2>1, <3>2
  <2> HIDE DEF G, e
  <2>4. Fit(BackLine, G, r) /\ SameFront(out, r) /\ Quiet(BackLine, F, out, G, r)
    BY <1>1, <1>7, <2>1, <2>2, <2>3, Retire
  <2>5. r.primary = h.primary /\ r.backup = c /\ DOMAIN r = DOMAIN h
    BY <1>1, <1>4, <2>4 DEF SameFront
  <2>6. FrontB(r) \cup X = G
    BY <1>4, <2>5 DEF FrontB, FrontP, G
  <2>7. Quiet(BackLine, F, h, G, r)
    BY <1>7, <2>4 DEF Quiet, StaysClean
  <2>8. BackOver(r, X)
    BY <1>1, <1>5, <2>4, <2>5, <2>6 DEF BackOver
  <2>9. QED
    BY <1>3, <2>5, <2>6, <2>7, <2>8 DEF SlotGivenUp, F, b, r
<1>10. QED
  BY <1>8, <1>9

\* A function on the parts of 1..n that empties the slots q of its argument, the
\* one of the highest index last.
Empties(h, q, n, it) ==
    it = [s \in SUBSET (1..n) |->
            IF s = {} THEN h
            ELSE Back!Emptied(it[s \ {Back!Max(s)}], q[Back!Max(s)])]

\* There is a function that empties the first n of the slots q, for every n.
LEMMA EmptiesExists ==
    ASSUME NEW h, NEW q
    PROVE  \A n \in Nat : \E it : Empties(h, q, n, it)
<1> DEFINE N == {n \in Nat : \E it : Empties(h, q, n, it)}
<1>1. 0 \in N
  <2> DEFINE it == [s \in SUBSET (1..0) |-> h]
  <2>1. \A s \in SUBSET (1..0) : s = {}
    OBVIOUS
  <2>2. Empties(h, q, 0, it)
    BY <2>1 DEF Empties
  <2>3. QED
    BY <2>2
<1>2. ASSUME NEW n \in Nat, n \in N
      PROVE  n + 1 \in N
  <2>1. PICK it : Empties(h, q, n, it)
    BY <1>2
  <2> DEFINE up == [s \in SUBSET (1..(n + 1)) |->
                      IF n + 1 \in s THEN Back!Emptied(it[s \ {n + 1}], q[n + 1])
                      ELSE it[s]]
             top(s) == Back!Max(s)
  <2>2. ASSUME NEW s \in SUBSET (1..(n + 1)), s # {}
        PROVE  up[s] = Back!Emptied(up[s \ {top(s)}], q[top(s)])
    <3>1. CASE n + 1 \in s
      <4>1. top(s) = n + 1
        <5>1. \A y \in s : y \in Int /\ n + 1 >= y
          OBVIOUS
        <5>2. \A x \in s : (\A y \in s : x >= y) => x = n + 1
          BY <3>1, <5>1
        <5>3. QED
          BY <3>1, <5>1, <5>2 DEF Back!Max
      <4>2. s \ {n + 1} \in SUBSET (1..(n + 1)) /\ n + 1 \notin s \ {n + 1}
        OBVIOUS
      <4>3. up[s \ {n + 1}] = it[s \ {n + 1}]
        BY <4>2
      <4>4. QED
        BY <3>1, <4>1, <4>3
    <3>2. CASE n + 1 \notin s
      <4>1. s \in SUBSET (1..n)
        BY <3>2
      <4> HIDE DEF top
      <4>2. up[s] = it[s] /\ up[s \ {top(s)}] = it[s \ {top(s)}]
        BY <3>2
      <4> HIDE DEF up
      <4>3. it[s] = Back!Emptied(it[s \ {top(s)}], q[top(s)])
        BY <2>1, <2>2, <4>1 DEF Empties, top
      <4>4. QED
        BY <4>2, <4>3
    <3>3. QED
      BY <3>1, <3>2
  <2>3. up[{}] = h
    <3>1. up[{}] = it[{}]
      OBVIOUS
    <3>2. it[{}] = h
      BY <2>1 DEF Empties
    <3>3. QED
      BY <3>1, <3>2
  <2>4. up = [s \in SUBSET (1..(n + 1)) |-> up[s]]
    OBVIOUS
  <2> HIDE DEF up
  <2>5. Empties(h, q, n + 1, up)
    BY <2>2, <2>3, <2>4 DEF Empties, top
  <2>6. QED
    BY <2>5
<1>3. QED
  BY <1>1, <1>2, NaturalInduction

\* The hierarchy is at[k] after the first k of n slots q have been emptied.
EmptyRun(h, q, n, at) ==
    /\ at[0] = h
    /\ \A k \in 0..(n - 1) : at[k + 1] = Back!Emptied(at[k], q[k + 1])
    /\ Back!FoldLeft(Back!Emptied, h, q) = at[n]

\* The fold goes through the slots in order.
LEMMA EmptyingIsStepwise ==
    ASSUME NEW h, NEW q, NEW n \in Nat, DOMAIN q = 1..n
    PROVE  \E at : EmptyRun(h, q, n, at)
<1> DEFINE it == CHOOSE it : Empties(h, q, n, it)
           at == [k \in 0..n |-> it[1..k]]
<1>1. Empties(h, q, n, it)
  BY EmptiesExists
<1>2. Back!FoldLeft(Back!Emptied, h, q) = it[1..n]
  BY DEF Back!FoldLeft, Back!MapThenFoldSet, Empties
<1> HIDE DEF it
<1>3. it[1..0] = h
  BY <1>1 DEF Empties
<1>4. ASSUME NEW k \in 0..(n - 1)
      PROVE  it[1..(k + 1)] = Back!Emptied(it[1..k], q[k + 1])
  <2> DEFINE s == 1..(k + 1)
  <2>1. Back!Max(s) = k + 1
    <3>1. k + 1 \in s /\ \A y \in s : k + 1 >= y
      OBVIOUS
    <3>2. \A x \in s : (\A y \in s : x >= y) => x = k + 1
      OBVIOUS
    <3>3. QED
      BY <3>1, <3>2 DEF Back!Max
  <2>2. s \in SUBSET (1..n) /\ s # {} /\ s \ {k + 1} = 1..k
    OBVIOUS
  <2> HIDE DEF s
  <2>3. it[s] = Back!Emptied(it[s \ {Back!Max(s)}], q[Back!Max(s)])
    BY <1>1, <2>2 DEF Empties
  <2>4. QED
    BY <2>1, <2>2, <2>3 DEF s
<1>5. QED
  <2>1. at[0] = h /\ at[n] = it[1..n]
    BY <1>3
  <2>2. \A k \in 0..(n - 1) : at[k] = it[1..k] /\ at[k + 1] = it[1..(k + 1)]
    OBVIOUS
  <2> HIDE DEF at
  <2>3. EmptyRun(h, q, n, at)
    BY <1>2, <1>4, <2>1, <2>2 DEF EmptyRun
  <2>4. QED
    BY <2>3

\* A sequence of the members of a finite set has them all.
LEMMA AllInSequence ==
    ASSUME NEW D, IsFiniteSet(D), NEW q \in Back!SetToSeqs(D)
    PROVE  /\ Cardinality(D) \in Nat /\ DOMAIN q = 1..Cardinality(D)
           /\ \A i \in 1..Cardinality(D) : q[i] \in D
           /\ \A d \in D : \E i \in 1..Cardinality(D) : q[i] = d
<1> DEFINE n == Cardinality(D)
<1>1. n \in Nat /\ IsFiniteSet(1..n) /\ Cardinality(1..n) = n
  BY FS_CardinalityType, FS_Interval
<1>2. q \in [1..n -> D] /\ \A i, j \in 1..n : i # j => q[i] # q[j]
  <2>1. Back!Cardinality(D) = n
    BY DEF Back!Cardinality, Cardinality
  <2>2. q \in {f \in [1..n -> D] : \A i, j \in 1..n : i # j => f[i] # f[j]}
    BY <2>1 DEF Back!SetToSeqs
  <2>3. QED
    BY <2>2
<1> HIDE DEF n
<1>3. q \in Injection(1..n, D)
  BY <1>2 DEF Injection, IsInjective
<1>4. Cardinality(1..n) = Cardinality(D) <=> q \in Surjection(1..n, D)
  BY <1>3, FS_Injection
<1>5. \A d \in D : \E i \in 1..n : q[i] = d
  BY <1>1, <1>4 DEF Surjection, n
<1>6. QED
  BY <1>1, <1>2, <1>5 DEF n

\* After the first k of the slots q have been emptied.
EmptiedSoFar(h, q, a, k) ==
    /\ BackFine(a)
    /\ Quiet(BackLine, FrontB(h), h, FrontB(a), a)
    /\ \A s \in Slot : a.backup[s].enabled = h.backup[s].enabled
    /\ \A i \in 1..k : a.backup[q[i]].entry = None

\* One more slot is emptied.
LEMMA EmptiesNext ==
    ASSUME NEW h, NEW q, NEW a, NEW k \in Nat, EmptiedSoFar(h, q, a, k),
           \A i \in 1..(k + 1) : q[i] \in Slot
    PROVE  EmptiedSoFar(h, q, Back!Emptied(a, q[k + 1]), k + 1)
<1> DEFINE s == q[k + 1]
           r == Back!Emptied(a, s)
<1>1. s \in Slot
  OBVIOUS
<1> HIDE DEF s
<1>2. BackOver(a, {})
  BY OverNothing DEF EmptiedSoFar
<1>3. SlotGivenUp(a, r, {}, s)
  BY <1>1, <1>2, BackEmpties
<1> HIDE DEF r
<1>4. FrontB(a) \cup {} = FrontB(a) /\ FrontB(r) \cup {} = FrontB(r)
  OBVIOUS
<1>5. BackFine(r) /\ Quiet(BackLine, FrontB(a), a, FrontB(r), r)
  BY <1>3, <1>4, OverNothing DEF SlotGivenUp
<1>6. Quiet(BackLine, FrontB(h), h, FrontB(r), r)
  BY <1>5 DEF Quiet, StaysClean, EmptiedSoFar
<1>7. EntrySet(a.backup, r.backup, s, None)
  BY <1>3 DEF SlotGivenUp
<1>8. \A t \in Slot : r.backup[t].enabled = h.backup[t].enabled
  BY <1>7 DEF EntrySet, EmptiedSoFar
<1>9. ASSUME NEW i \in 1..(k + 1)
      PROVE  r.backup[q[i]].entry = None
  <2>1. CASE q[i] = s
    BY <1>7, <2>1 DEF EntrySet
  <2>2. CASE q[i] # s
    <3>1. i \in 1..k
      BY <2>2 DEF s
    <3>2. a.backup[q[i]].entry = None /\ q[i] \in Slot
      BY <3>1 DEF EmptiedSoFar
    <3>3. QED
      BY <1>7, <2>2, <3>2 DEF EntrySet
  <2>3. QED
    BY <2>1, <2>2
<1>10. QED
  BY <1>5, <1>6, <1>8, <1>9 DEF EmptiedSoFar, r, s

\* All slots of D have been emptied.
LEMMA EmptiesAll ==
    ASSUME NEW h, BackFine(h), NEW D \in SUBSET Slot, NEW q \in Back!SetToSeqs(D)
    PROVE  LET r == Back!FoldLeft(Back!Emptied, h, q) IN
           /\ BackFine(r)
           /\ Quiet(BackLine, FrontB(h), h, FrontB(r), r)
           /\ \A s \in Slot : r.backup[s].enabled = h.backup[s].enabled
           /\ \A s \in D : r.backup[s].entry = None
<1> DEFINE n == Cardinality(D)
           r == Back!FoldLeft(Back!Emptied, h, q)
<1>1. IsFiniteSet(D)
  BY HierarchyAssumption, FS_Subset
<1>2. /\ n \in Nat /\ DOMAIN q = 1..n
      /\ \A i \in 1..n : q[i] \in D
      /\ \A d \in D : \E i \in 1..n : q[i] = d
  BY <1>1, AllInSequence
<1> HIDE DEF n, r
<1>3. PICK at : EmptyRun(h, q, n, at)
  BY <1>2, EmptyingIsStepwise
<1> DEFINE K == {k \in Nat : k <= n => EmptiedSoFar(h, q, at[k], k)}
<1>4. 0 \in K
  <2>1. at[0] = h
    BY <1>3 DEF EmptyRun
  <2>2. EmptiedSoFar(h, q, h, 0)
    BY DEF EmptiedSoFar, Quiet, StaysClean
  <2>3. QED
    BY <2>1, <2>2
<1>5. ASSUME NEW k \in Nat, k \in K
      PROVE  k + 1 \in K
  <2>1. SUFFICES ASSUME k + 1 <= n
                 PROVE  EmptiedSoFar(h, q, at[k + 1], k + 1)
    OBVIOUS
  <2>2. EmptiedSoFar(h, q, at[k], k)
    BY <1>2, <1>5, <2>1
  <2>3. \A i \in 1..(k + 1) : q[i] \in Slot
    BY <1>2, <2>1
  <2>4. at[k + 1] = Back!Emptied(at[k], q[k + 1])
    <3>1. k \in 0..(n - 1)
      BY <1>2, <2>1
    <3>2. QED
      BY <1>3, <3>1 DEF EmptyRun
  <2>5. EmptiedSoFar(h, q, Back!Emptied(at[k], q[k + 1]), k + 1)
    BY <2>2, <2>3, EmptiesNext
  <2>6. QED
    BY <2>4, <2>5
<1>6. n \in K
  BY <1>2, <1>4, <1>5, NaturalInduction
<1>7. r = at[n]
  BY <1>3 DEF EmptyRun, r
<1>8. EmptiedSoFar(h, q, r, n)
  BY <1>2, <1>6, <1>7
<1>9. \A s \in D : r.backup[s].entry = None
  BY <1>2, <1>8 DEF EmptiedSoFar
<1>10. QED
  BY <1>8, <1>9 DEF EmptiedSoFar, r

\* Empty slots are enabled or disabled.
ReEnabled(b, enabled, S) ==
    [s \in Slot |-> IF s \in enabled <=> s \in S THEN b[s]
                    ELSE [enabled |-> s \in S, entry |-> None]]

\* Enabling and disabling empty slots changes no line.
LEMMA ReEnables ==
    ASSUME NEW b, SlotsFine(b), NEW S \in SUBSET Slot,
           NEW enabled, enabled = {s \in Slot : b[s].enabled},
           \A s \in enabled \ S : b[s].entry = None
    PROVE  LET c == ReEnabled(b, enabled, S) IN SlotsFine(c) /\ Spare(c) = Spare(b)
<1> DEFINE c == ReEnabled(b, enabled, S)
<1>1. ASSUME NEW s \in Slot
      PROVE  c[s] \in SlotType /\ c[s].entry = b[s].entry
             /\ (c[s].entry # None => c[s].enabled)
  <2>1. b[s] \in SlotType /\ (b[s].entry # None => b[s].enabled)
    BY DEF SlotsFine
  <2>2. CASE s \in enabled <=> s \in S
    <3>1. c[s] = b[s]
      BY <2>2 DEF ReEnabled
    <3> HIDE DEF c
    <3>2. QED
      BY <2>1, <3>1
  <2>3. CASE ~(s \in enabled <=> s \in S)
    <3> DEFINE q == [enabled |-> s \in S, entry |-> None]
    <3>1. c[s] = q
      BY <2>3 DEF ReEnabled
    <3>2. q \in SlotType /\ q.entry = None
      BY DEF SlotType
    <3>3. b[s].entry = None
      <4>1. CASE s \in enabled
        BY <2>3, <4>1
      <4>2. CASE s \notin enabled
        BY <2>1, <4>2
      <4>3. QED
        BY <4>1, <4>2
    <3> HIDE DEF c, q
    <3>4. QED
      BY <3>1, <3>2, <3>3
  <2>4. QED
    BY <2>2, <2>3
<1>2. c \in [Slot -> SlotType]
  <2>1. c = [s \in Slot |-> c[s]]
    BY DEF ReEnabled
  <2> HIDE DEF c
  <2>2. QED
    BY <1>1, <2>1
<1> HIDE DEF c
<1>3. SlotsFine(c)
  BY <1>1, <1>2 DEF SlotsFine
<1>4. Spare(c) = Spare(b)
  BY <1>1 DEF Spare
<1>5. QED
  BY <1>3, <1>4 DEF c

\* A resize keeps the hierarchy fine, and every line reads as before.
LEMMA BackResizes ==
    ASSUME NEW h, BackFine(h), NEW n, Back!Resize(h, n)
    PROVE  BackFine(hier') /\ Quiet(BackLine, FrontB(h), h, FrontB(hier'), hier')
<1> DEFINE enabled == {s \in Slot : h.backup[s].enabled}
<1>1. PICK S \in SUBSET Slot : \E q \in Back!SetToSeqs(enabled \ S) :
        hier' = [Back!FoldLeft(Back!Emptied, h, q) EXCEPT !.backup =
                    [s \in Slot |-> IF s \in enabled <=> s \in S THEN @[s]
                                    ELSE [enabled |-> s \in S, entry |-> None]]]
  BY DEF Back!Resize, Back!BC!Enabled
<1>2. PICK q \in Back!SetToSeqs(enabled \ S) :
        hier' = [Back!FoldLeft(Back!Emptied, h, q) EXCEPT !.backup =
                    [s \in Slot |-> IF s \in enabled <=> s \in S THEN @[s]
                                    ELSE [enabled |-> s \in S, entry |-> None]]]
  BY <1>1
<1> DEFINE f == Back!FoldLeft(Back!Emptied, h, q)
           c == ReEnabled(f.backup, enabled, S)
<1>3. hier' = WithBackup(f, c)
  BY <1>2 DEF WithBackup, ReEnabled
<1>4. enabled \ S \in SUBSET Slot
  OBVIOUS
<1> HIDE DEF f
<1>5. /\ BackFine(f) /\ Quiet(BackLine, FrontB(h), h, FrontB(f), f)
      /\ \A s \in Slot : f.backup[s].enabled = h.backup[s].enabled
      /\ \A s \in enabled \ S : f.backup[s].entry = None
  <2> HIDE DEF enabled
  <2>1. QED
    BY <1>4, EmptiesAll DEF f
<1>6. SlotsFine(c) /\ Spare(c) = Spare(f.backup)
  <2>1. enabled = {s \in Slot : f.backup[s].enabled}
    BY <1>5
  <2>2. SlotsFine(f.backup)
    BY <1>5 DEF BackFine
  <2> HIDE DEF enabled
  <2>3. QED
    BY <1>5, <2>1, <2>2, ReEnables
<1> HIDE DEF c, enabled
<1>7. /\ Shape(hier') /\ DOMAIN hier' = DOMAIN f /\ hier'.primary = f.primary
      /\ hier'.backup = c /\ hier'.l2 = f.l2 /\ hier'.mem = f.mem
  BY <1>3, <1>5, SetFront DEF BackFine, Fit
<1>8. FrontB(hier') = FrontB(f)
  BY <1>6, <1>7 DEF FrontB, FrontP
<1>9. Fit(BackLine, FrontB(f), hier') /\ Quiet(BackLine, FrontB(f), f, FrontB(f), hier')
  <2>1. Fit(BackLine, FrontB(f), f)
    BY <1>5 DEF BackFine
  <2>2. QED
    BY <1>7, <2>1, FrontOnly
<1>10. BackFine(hier')
  BY <1>5, <1>6, <1>7, <1>8, <1>9 DEF BackFine
<1>11. Quiet(BackLine, FrontB(h), h, FrontB(hier'), hier')
  BY <1>5, <1>8, <1>9 DEF Quiet, StaysClean
<1>12. QED
  BY <1>10, <1>11

\* The policy's bounds, whatever the options are.
LEMMA BackPolicy ==
    /\ Back!BC!Capacity \in Nat /\ Back!BC!MinEnabled \in Nat /\ Back!BC!MaxEnabled \in Nat
    /\ 1 <= Back!BC!MinEnabled /\ Back!BC!MaxEnabled <= Back!BC!Capacity
<1>1. Back!BC!Capacity \in Nat \ {0}
  BY HierarchyAssumption DEF Back!BC!Capacity
<1>2. Back!BC!MinEnabled \in Nat /\ 1 <= Back!BC!MinEnabled
      /\ Back!BC!MinEnabled <= Back!BC!Capacity
  BY <1>1, HierarchyAssumption DEF Back!BC!MinEnabled, Back!BC!Clamp
<1>3. Back!BC!MaxEnabled \in Nat /\ Back!BC!MaxEnabled <= Back!BC!Capacity
  BY <1>1, <1>2, HierarchyAssumption DEF Back!BC!MaxEnabled, Back!BC!Clamp
<1>4. QED
  BY <1>1, <1>2, <1>3

\* So does the end of an access, with a resize or without.
LEMMA BackCompletes ==
    ASSUME NEW h, BackFine(h), countdown \in 1..Back!BC!Capacity, Back!AccessComplete(h)
    PROVE  /\ BackFine(hier') /\ Quiet(BackLine, FrontB(h), h, FrontB(hier'), hier')
           /\ countdown' \in 1..Back!BC!Capacity
<1>1. CASE countdown > 1 /\ countdown' = countdown - 1 /\ hier' = h
  <2>1. Quiet(BackLine, FrontB(h), h, FrontB(h), h)
    BY DEF Quiet, StaysClean
  <2>2. countdown' \in 1..Back!BC!Capacity
    BY <1>1, BackPolicy
  <2>3. QED
    BY <1>1, <2>1, <2>2
<1>2. ASSUME NEW n \in Back!BC!MinEnabled..Back!BC!MaxEnabled,
             countdown' = n, Back!Resize(h, n)
      PROVE  /\ BackFine(hier') /\ Quiet(BackLine, FrontB(h), h, FrontB(hier'), hier')
             /\ countdown' \in 1..Back!BC!Capacity
  <2>1. countdown' \in 1..Back!BC!Capacity
    BY <1>2, BackPolicy
  <2>2. QED
    BY <1>2, <2>1, BackResizes
<1>3. QED
  BY <1>1, <1>2 DEF Back!AccessComplete

\* The entry of a line, and the line of that entry.
LEMMA EntryIs ==
    ASSUME NEW n \in LineOf(BackLine)
    PROVE  /\ Back!BC!Entry(n, FALSE) \in EntryOf
           /\ Back!BC!Entry(n, FALSE) # None
           /\ Back!BC!Entry(n, FALSE).line = n.line
           /\ Bare(Back!BC!Entry(n, FALSE)) = n
<1>1. Back!BC!Entry(n, FALSE) \in EntryOf
  BY DEF Back!BC!Entry, EntryOf, LineOf
<1>2. None \notin EntryOf
  BY HierarchyAssumption DEF EntryOf, Data
<1>3. n = [line |-> n.line, data |-> n.data, dirty |-> n.dirty]
  BY DEF LineOf
<1>4. QED
  BY <1>1, <1>2, <1>3 DEF Back!BC!Entry, Bare

\* The lines X have arrived in r, where they were on the way to in h.
Arrived(h, X, r) ==
    /\ BackFine(r) /\ Quiet(BackLine, FrontB(h) \cup X, h, FrontB(r), r)

\* Line n is put in slot s, whose line is none or the same.
LEMMA BackSlots ==
    ASSUME NEW h, NEW n \in LineOf(BackLine), BackOver(h, {n}),
           NEW s \in Slot, h.backup[s].enabled, NoOther(h.backup, s, n.line),
           h.backup[s].entry = None \/ h.backup[s].entry.line = n.line
    PROVE  Arrived(h, {n}, WithBackup(h, WithEntry(h.backup, s, Back!BC!Entry(n, FALSE))))
<1> DEFINE b == h.backup
           e == Back!BC!Entry(n, FALSE)
           c == WithEntry(b, s, e)
           r == WithBackup(h, c)
           F == FrontB(h) \cup {n}
<1>1. e \in EntryOf /\ e # None /\ e.line = n.line /\ Bare(e) = n
  BY EntryIs
<1>2. /\ DOMAIN h = {"primary", "backup", "l2", "used2", "mem"} /\ Shape(h)
      /\ PrimaryFine(h.primary) /\ SlotsFine(b) /\ Fit(BackLine, F, h)
  BY DEF BackOver, Fit
<1> HIDE DEF e
<1>3. EntrySet(b, c, s, e)
  BY <1>1, <1>2, SetEntry
<1> HIDE DEF c
<1>4. /\ Shape(r) /\ DOMAIN r = DOMAIN h /\ r.primary = h.primary /\ r.backup = c
      /\ r.l2 = h.l2 /\ r.mem = h.mem
  BY <1>2, SetFront
<1> HIDE DEF r
<1>5. SlotsFine(c) /\ Spare(c) = {k \in Spare(b) : b[s].entry = None \/ k.line # b[s].entry.line}
                                    \cup {n}
  BY <1>1, <1>3 DEF EntrySet
<1>6. FrontB(r) = F
  <2>1. ASSUME NEW k \in Spare(b), b[s].entry # None, k.line = b[s].entry.line
        PROVE  k = n
    <3>1. k.line = n.line /\ k \in F
      BY <2>1 DEF FrontB
    <3>2. QED
      BY <1>2, <3>1 DEF Fit, Sound
  <2>2. Spare(c) = Spare(b) \cup {n}
    BY <1>5, <2>1
  <2>3. QED
    BY <1>4, <2>2 DEF FrontB, FrontP
<1>7. Fit(BackLine, F, r) /\ Quiet(BackLine, F, h, F, r)
  BY <1>2, <1>4, FrontOnly
<1>8. BackFine(r)
  BY <1>2, <1>4, <1>5, <1>6, <1>7 DEF BackFine
<1>9. QED
  BY <1>6, <1>7, <1>8 DEF Arrived, r, c, e

\* What the primary has given up goes to the backup.
LEMMA BackInserts ==
    ASSUME NEW h, NEW n \in LineOf(BackLine), BackOver(h, {n}),
           NEW r \in Back!Inserted(h, n)
    PROVE  Arrived(h, {n}, r)
<1> DEFINE b == h.backup
           e == Back!BC!Entry(n, FALSE)
<1>1. SlotsFine(b) /\ n # None
  BY Geometry, HierarchyAssumption DEF BackOver
<1>2. CASE Back!BC!InBackup(b, n.line)
  <2> DEFINE s == Back!BC!SlotOf(b, n.line)
  <2>1. s \in Slot /\ b[s].entry # None /\ b[s].entry.line = n.line /\ NoOther(b, s, n.line)
    BY <1>1, <1>2, SlotFound
  <2>2. r = WithBackup(h, WithEntry(b, s, e))
    <3>1. r = [h EXCEPT !.backup[s].entry = e]
      BY <1>1, <1>2 DEF Back!Inserted
    <3> HIDE DEF s, e
    <3>2. [h EXCEPT !.backup[s].entry = e] = WithBackup(h, WithEntry(b, s, e))
      BY DEF WithBackup, WithEntry
    <3>3. QED
      BY <3>1, <3>2
  <2> HIDE DEF s
  <2>3. h.backup[s].enabled
    BY <1>1, <2>1, EntryFields
  <2>4. Arrived(h, {n}, WithBackup(h, WithEntry(h.backup, s, Back!BC!Entry(n, FALSE))))
    BY <2>1, <2>3, BackSlots
  <2>5. QED
    BY <2>2, <2>4
<1>3. CASE ~Back!BC!InBackup(b, n.line)
  <2>1. PICK s \in Slot : /\ Back!BC!Selected(b, {s})
                          /\ r = [Back!Emptied(h, s) EXCEPT !.backup[s].entry = e]
    BY <1>1, <1>3 DEF Back!Inserted
  <2> DEFINE f == Back!Emptied(h, s)
  <2> HIDE DEF f
  <2>2. r = WithBackup(f, WithEntry(f.backup, s, e))
    <3>1. [f EXCEPT !.backup[s].entry = e] = WithBackup(f, WithEntry(f.backup, s, e))
      BY DEF WithBackup, WithEntry
    <3>2. QED
      BY <2>1, <3>1 DEF f
  <2>3. b[s].enabled
    BY <2>1 DEF Back!BC!Selected, Back!BC!Enabled
  <2>4. SlotGivenUp(h, f, {n}, s)
    BY BackEmpties DEF f
  <2>5. BackOver(f, {n}) /\ EntrySet(b, f.backup, s, None)
        /\ Quiet(BackLine, FrontB(h) \cup {n}, h, FrontB(f) \cup {n}, f)
    BY <2>4 DEF SlotGivenUp
  <2>6. f.backup[s].entry = None /\ f.backup[s].enabled
        /\ \A t \in Slot : t # s => f.backup[t].entry = b[t].entry
    BY <2>3, <2>5 DEF EntrySet
  <2>7. NoOther(f.backup, s, n.line)
    <3>1. SUFFICES ASSUME NEW t \in Slot, f.backup[t].entry # None,
                          f.backup[t].entry.line = n.line, t # s
                   PROVE  FALSE
      BY DEF NoOther
    <3>2. b[t].entry # None /\ b[t].entry.line = n.line
      BY <2>6, <3>1
    <3>3. Bare(b[t].entry) \in Spare(b) /\ Bare(b[t].entry).line = n.line
      BY <1>1, <3>2, EntryFields
    <3>4. QED
      BY <1>1, <1>3, <3>3, SlotFound
  <2>8. Arrived(f, {n}, WithBackup(f, WithEntry(f.backup, s, Back!BC!Entry(n, FALSE))))
    BY <2>5, <2>6, <2>7, BackSlots
  <2>9. QED
    BY <2>2, <2>5, <2>8 DEF Arrived, Quiet, StaysClean
<1>4. QED
  BY <1>2, <1>3

\* Line n goes into the primary, in the place of a line that is then on the way
\* to the backup.
LEMMA BackPuts ==
    ASSUME NEW h, BackFine(h), NEW n \in LineOf(BackLine),
           ~Back!BC!Cached(h.primary, n.line),
           L2!Cached(h.l2, n.line), n.dirty \/ n.data = L2!CopyOf(h.l2, n.line).data,
           \A k \in FrontB(h) : k.line = n.line => k = n,
           NEW w \in Back!BC!Ways
    PROVE  LET old == h.primary[n.line % L1Sets][w]
               r == WithPrimary(h, With(h.primary, n.line % L1Sets, w, n))
               X == IF old = None THEN {} ELSE {old}
           IN  /\ BackOver(r, X) /\ r.l2 = h.l2 /\ old \in LineOf(BackLine) \cup {None}
               /\ \A x \in BackLine : Reads(FrontB(r) \cup X, r.l2, r.mem, x) =
                    IF x = n.line THEN n.data ELSE Reads(FrontB(h), h.l2, h.mem, x)
               /\ \A x \in BackLine : (x = n.line => ~n.dirty) =>
                    StaysClean(FrontB(h), h, FrontB(r) \cup X, r, x)
<1> DEFINE c == h.primary
           s == n.line % L1Sets
           old == c[s][w]
           d == With(c, s, w, n)
           r == WithPrimary(h, d)
           X == IF old = None THEN {} ELSE {old}
           F == FrontB(h)
           G == F \cup {n}
<1>1. /\ DOMAIN h = {"primary", "backup", "l2", "used2", "mem"} /\ Shape(h)
      /\ PrimaryFine(c) /\ SlotsFine(h.backup) /\ Fit(BackLine, F, h)
      /\ n.line \in BackLine /\ BackLine \in SUBSET Line /\ n.line \in Line
      /\ L1Sets \in Nat \ {0} /\ L1Ways \in Nat \ {0}
  BY HierarchyAssumption DEF BackFine, Fit, LineOf
<1>2. w \in 0..(L1Ways - 1) /\ s \in 0..(L1Sets - 1)
  BY <1>1, BackGeometry, Geometry
<1>3. \A v \in 0..(L1Ways - 1) : ~(c[n.line % L1Sets][v] # None /\ c[n.line % L1Sets][v].line = n.line)
  BY <1>1, PrimaryFound
<1>4. NowhereElse(L1Sets, L1Ways, c, n, w)
  BY <1>3 DEF NowhereElse
<1>5. /\ d \in ArrayFor(L1Sets, L1Ways, BackLine) /\ Filed(L1Sets, L1Ways, d)
      /\ LinesIn(L1Sets, L1Ways, d) = (LinesIn(L1Sets, L1Ways, c) \ {old}) \cup {n}
  <2>1. c \in ArrayFor(L1Sets, L1Ways, BackLine) /\ Filed(L1Sets, L1Ways, c)
    BY <1>1 DEF PrimaryFine
  <2> HIDE DEF c
  <2>2. LET q == With(c, n.line % L1Sets, w, n) IN
           /\ q \in ArrayFor(L1Sets, L1Ways, BackLine) /\ Filed(L1Sets, L1Ways, q)
           /\ q[n.line % L1Sets][w] = n
           /\ \A t \in 0..(L1Sets - 1), v \in 0..(L1Ways - 1) :
               <<t, v>> # <<n.line % L1Sets, w>> => q[t][v] = c[t][v]
           /\ LinesIn(L1Sets, L1Ways, q) =
                (LinesIn(L1Sets, L1Ways, c) \ {c[n.line % L1Sets][w]}) \cup {n}
    BY <1>1, <1>2, <1>4, <2>1, PutIn
  <2>3. QED
    BY <2>2
<1>6. old \in LineOf(BackLine) \cup {None} /\ (old # None => old \in LinesIn(L1Sets, L1Ways, c))
  <2> HIDE DEF s
  <2>1. c \in ArrayFor(L1Sets, L1Ways, BackLine)
    BY <1>1 DEF PrimaryFine
  <2> HIDE DEF c
  <2>2. old # None => old \in LineOf(BackLine)
    BY <1>2, <2>1, SlotIn
  <2>3. old # None => old \in LinesIn(L1Sets, L1Ways, c)
    BY <1>2 DEF LinesIn
  <2>4. QED
    BY <2>2, <2>3
<1> HIDE DEF d, s, old
<1>7. /\ Shape(r) /\ DOMAIN r = DOMAIN h /\ r.primary = d /\ r.backup = h.backup
      /\ r.l2 = h.l2 /\ r.mem = h.mem
  BY <1>1, SetFront
<1> HIDE DEF r
<1>8. FrontB(r) \cup X = G
  <2>1. FrontP(r) = (FrontP(h) \ {old}) \cup {n} /\ (old # None => old \in FrontP(h))
    BY <1>5, <1>6, <1>7 DEF FrontP
  <2>2. None \notin FrontP(h)
    BY DEF FrontP, LinesIn
  <2> HIDE DEF c
  <2>3. QED
    BY <1>7, <2>1, <2>2 DEF FrontB
<1>9. /\ Fit(BackLine, G, h)
      /\ \A x \in BackLine : Reads(G, h.l2, h.mem, x) =
           IF x = n.line THEN n.data ELSE Reads(F, h.l2, h.mem, x)
      /\ \A x \in BackLine : CleanIn(F, h.l2, x) /\ (x = n.line => ~n.dirty) =>
           CleanIn(G, h.l2, x)
  <2>1. /\ G \subseteq {k \in F : k.line # n.line} \cup {n}
        /\ \A k \in F : k.line # n.line => k \in G
        /\ n \in G
    OBVIOUS
  <2> HIDE DEF G, F
  <2>2. /\ Fit(BackLine, G, h)
        /\ (\A k \in F : k.line # n.line => k \in G) /\ n \in G =>
                \A x \in BackLine : Reads(G, h.l2, h.mem, x) =
                    IF x = n.line THEN n.data ELSE Reads(F, h.l2, h.mem, x)
        /\ \A x \in BackLine : CleanIn(F, h.l2, x) /\ (x = n.line => ~n.dirty) =>
                CleanIn(G, h.l2, x)
    BY <1>1, <2>1, FrontPut
  <2>3. QED
    BY <2>1, <2>2
<1> HIDE DEF G, F
<1>10. Fit(BackLine, G, r)
  BY <1>7, <1>9, FrontOnly
<1>11. BackOver(r, X)
  BY <1>1, <1>5, <1>7, <1>8, <1>10 DEF BackOver, PrimaryFine
<1>12. \A x \in BackLine : (x = n.line => ~n.dirty) => StaysClean(F, h, G, r, x)
  BY <1>7, <1>9 DEF StaysClean
<1>13. QED
  BY <1>6, <1>7, <1>8, <1>9, <1>11, <1>12 DEF F, r, d, X, s, old

\* An access to h has ended, with data d for line x and all else as it was, and
\* has perhaps dirtied x.
Ended(h, x, d, dirties) ==
    /\ BackFine(hier') /\ countdown' \in 1..Back!BC!Capacity
    /\ \A y \in BackLine :
        /\ Reads(FrontB(hier'), hier'.l2, hier'.mem, y) =
             IF y = x THEN d ELSE Reads(FrontB(h), h.l2, h.mem, y)
        /\ L2!Cached(hier'.l2, y) <=> L2!Cached(h.l2, y)
        /\ (y = x => ~dirties) => StaysClean(FrontB(h), h, FrontB(hier'), hier', y)

\* Installing a line in the primary, and what it pushes out in the backup,
\* changes no other line.
LEMMA BackInstalls ==
    ASSUME NEW h, BackFine(h), NEW n \in LineOf(BackLine),
           ~Back!BC!Cached(h.primary, n.line),
           L2!Cached(h.l2, n.line), n.dirty \/ n.data = L2!CopyOf(h.l2, n.line).data,
           \A k \in FrontB(h) : k.line = n.line => k = n,
           countdown \in 1..Back!BC!Capacity, Back!Install(h, n)
    PROVE  Ended(h, n.line, n.data, n.dirty)
<1>1. PICK w \in Back!BC!Ways :
        \E r \in Back!Inserted([h EXCEPT !.primary = Back!BC!Put(@, n.line, w, n)],
                               h.primary[Back!BC!SetIndex(n.line)][w]) :
            Back!AccessComplete(r)
  BY DEF Back!Install
<1> DEFINE c == h.primary
           s == n.line % L1Sets
           old == c[s][w]
           g == WithPrimary(h, With(c, s, w, n))
           X == IF old = None THEN {} ELSE {old}
<1>2. [h EXCEPT !.primary = Back!BC!Put(@, n.line, w, n)] = g
      /\ h.primary[Back!BC!SetIndex(n.line)][w] = old
  <2>1. Back!BC!Put(c, n.line, w, n) = With(c, s, w, n) /\ Back!BC!SetIndex(n.line) = s
    BY BackGeometry
  <2> DEFINE d == With(c, s, w, n)
  <2> HIDE DEF s, d
  <2>2. [h EXCEPT !.primary = Back!BC!Put(@, n.line, w, n)] = WithPrimary(h, d)
    BY <2>1 DEF WithPrimary, d
  <2>3. QED
    BY <2>1, <2>2 DEF d
<1>3. /\ BackOver(g, X) /\ g.l2 = h.l2 /\ old \in LineOf(BackLine) \cup {None}
      /\ \A x \in BackLine : Reads(FrontB(g) \cup X, g.l2, g.mem, x) =
           IF x = n.line THEN n.data ELSE Reads(FrontB(h), h.l2, h.mem, x)
      /\ \A x \in BackLine : (x = n.line => ~n.dirty) =>
           StaysClean(FrontB(h), h, FrontB(g) \cup X, g, x)
  <2>1. LET o == h.primary[n.line % L1Sets][w]
            r == WithPrimary(h, With(h.primary, n.line % L1Sets, w, n))
            Y == IF o = None THEN {} ELSE {o}
        IN  /\ BackOver(r, Y) /\ r.l2 = h.l2 /\ o \in LineOf(BackLine) \cup {None}
            /\ \A x \in BackLine : Reads(FrontB(r) \cup Y, r.l2, r.mem, x) =
                 IF x = n.line THEN n.data ELSE Reads(FrontB(h), h.l2, h.mem, x)
            /\ \A x \in BackLine : (x = n.line => ~n.dirty) =>
                 StaysClean(FrontB(h), h, FrontB(r) \cup Y, r, x)
    BY BackPuts
  <2>2. QED
    BY <2>1
<1> HIDE DEF g, old
<1>4. PICK r \in Back!Inserted(g, old) : Back!AccessComplete(r)
  BY <1>1, <1>2
<1>5. Arrived(g, X, r)
  <2>1. CASE old = None
    <3>1. r = g /\ X = {}
      BY <1>4, <2>1 DEF Back!Inserted
    <3>2. FrontB(g) \cup {} = FrontB(g) /\ BackFine(g)
      BY <1>3, <3>1, OverNothing
    <3> HIDE DEF X
    <3>3. QED
      BY <3>1, <3>2 DEF Arrived, Quiet, StaysClean
  <2>2. CASE old # None
    <3>1. old \in LineOf(BackLine) /\ X = {old}
      BY <1>3, <2>2
    <3> HIDE DEF X
    <3>2. QED
      BY <1>3, <1>4, <3>1, BackInserts
  <2>3. QED
    BY <2>1, <2>2
<1>6. /\ BackFine(hier') /\ Quiet(BackLine, FrontB(r), r, FrontB(hier'), hier')
      /\ countdown' \in 1..Back!BC!Capacity
  BY <1>4, <1>5, BackCompletes DEF Arrived
<1> HIDE DEF X
<1>7. QED
  BY <1>3, <1>5, <1>6 DEF Ended, Arrived, Quiet, StaysClean

\* What an access that finds the line nowhere has fetched.
LEMMA BackFetches ==
    ASSUME BackFine(hier), NEW l \in BackLine, Back!Nowhere(l)
    PROVE  LET h == Back!Filled(hier, l)
               n == Back!NewLine(h, l)
           IN  /\ BackFine(h) /\ L2!Cached(h.l2, l)
               /\ ~Back!BC!Cached(h.primary, l) /\ \A k \in FrontB(h) : k.line # l
               /\ Kept(BackLine, FrontB(hier), hier, FrontB(h), h)
               /\ n \in LineOf(BackLine) /\ n.line = l /\ ~n.dirty
               /\ n.data = L2!CopyOf(h.l2, l).data
               /\ n.data = Reads(FrontB(hier), hier.l2, hier.mem, l)
<1> DEFINE h == Back!Filled(hier, l)
           n == Back!NewLine(h, l)
           F == FrontB(hier)
           G == FrontB(h)
<1>1. PrimaryFine(hier.primary) /\ SlotsFine(hier.backup) /\ BackLine \in SUBSET Line
      /\ l \in Line
  BY HierarchyAssumption DEF BackFine
<1>2. \A k \in F : k.line # l
  <2>1. ~Back!BC!Cached(hier.primary, l) /\ ~Back!BC!InBackup(hier.backup, l)
    BY DEF Back!Nowhere, Back!InPrimary
  <2>2. QED
    BY <1>1, <2>1, PrimaryFound, SlotFound DEF FrontB, FrontP
<1>3. /\ BackFine(h) /\ L2!Cached(h.l2, l) /\ Kept(BackLine, F, hier, G, h)
      /\ FrontP(h) \subseteq FrontP(hier) /\ Spare(h.backup) \subseteq Spare(hier.backup)
  BY BackLoads
<1> HIDE DEF h
<1>4. \A k \in G : k.line # l
  BY <1>2, <1>3 DEF FrontB
<1>5. ~Back!BC!Cached(h.primary, l)
  <2>1. PrimaryFine(h.primary) /\ \A k \in LinesIn(L1Sets, L1Ways, h.primary) : k.line # l
    BY <1>3, <1>4 DEF BackFine, FrontB, FrontP
  <2>2. QED
    BY <2>1, PrimaryFound
<1>6. n \in LineOf(BackLine) /\ n.line = l /\ ~n.dirty /\ n.data = L2!CopyOf(h.l2, l).data
  <2>1. n = [line |-> l, data |-> L2!CopyOf(h.l2, l).data, dirty |-> FALSE]
    BY BackL2 DEF Back!NewLine, Back!BC!NewLine
  <2>2. PICK v \in L2!Ways : L2!Holds(h.l2, l, v)
    BY <1>3 DEF L2!Cached
  <2>3. Behind(BackLine, h.l2, h.mem)
    BY <1>3 DEF BackFine, Fit, Sound
  <2>4. L2!CopyOf(h.l2, l) = h.l2[L2!SetIndex(l)][v] /\ h.l2[L2!SetIndex(l)][v] # None
    BY <1>1, <2>2, <2>3, Found DEF L2!Holds
  <2>5. L2!CopyOf(h.l2, l).data \in Data
    <3>1. L2!SetIndex(l) \in 0..(L2Sets - 1) /\ v \in 0..(L2Ways - 1)
      BY <1>1, Geometry
    <3>2. h.l2 \in ArrayFor(L2Sets, L2Ways, BackLine)
      BY <2>3 DEF Behind
    <3>3. QED
      BY <2>4, <3>1, <3>2, SlotIn
  <2>6. QED
    BY <2>1, <2>5 DEF LineOf
<1> HIDE DEF n, F, G
<1>7. n.data = Reads(G, h.l2, h.mem, l)
  BY <1>3, <1>4, <1>6, ReadsBehind
<1>8. n.data = Reads(F, hier.l2, hier.mem, l)
  BY <1>2, <1>3, <1>7 DEF Kept
<1>9. QED
  BY <1>3, <1>4, <1>5, <1>6, <1>8 DEF n, h, F, G

\* An access to l that has read data e of it, and has left it with data d, and
\* perhaps dirty.
Accessed(l, e, d, dirties) ==
    /\ BackFine(hier') /\ countdown' \in 1..Back!BC!Capacity
    /\ Changes(BackLine, FrontB(hier), hier, FrontB(hier'), hier', l, d, dirties)
    /\ e = Reads(FrontB(hier), hier.l2, hier.mem, l)

\* An access to a line that is nowhere in front: read from the L2, and
\* installed as k.
LEMMA BackMisses ==
    ASSUME BackFine(hier), countdown \in 1..Back!BC!Capacity,
           NEW l \in BackLine, Back!Nowhere(l), NEW k,
           LET n == Back!NewLine(Back!Filled(hier, l), l) IN
             /\ n \in LineOf(BackLine) /\ n.line = l =>
                   k \in LineOf(BackLine) /\ k.line = l /\ (k = n \/ k.dirty)
             /\ Back!Install(Back!Filled(hier, l), k)
    PROVE  Accessed(l, Back!NewLine(Back!Filled(hier, l), l).data, k.data, k.dirty)
<1> DEFINE h == Back!Filled(hier, l)
           n == Back!NewLine(h, l)
           F == FrontB(hier)
           G == FrontB(h)
<1>1. /\ BackFine(h) /\ L2!Cached(h.l2, l)
      /\ ~Back!BC!Cached(h.primary, l) /\ \A x \in G : x.line # l
      /\ Kept(BackLine, F, hier, G, h)
      /\ n \in LineOf(BackLine) /\ n.line = l
      /\ n.data = L2!CopyOf(h.l2, l).data
      /\ n.data = Reads(F, hier.l2, hier.mem, l)
  BY BackFetches
<1>2. k \in LineOf(BackLine) /\ k.line = l /\ (k = n \/ k.dirty) /\ Back!Install(h, k)
  BY <1>1
<1> HIDE DEF n, h
<1>3. Ended(h, k.line, k.data, k.dirty)
  <2>1. k.dirty \/ k.data = L2!CopyOf(h.l2, k.line).data
    BY <1>1, <1>2
  <2>2. \A x \in FrontB(h) : x.line = k.line => x = k
    BY <1>1, <1>2
  <2>3. ~Back!BC!Cached(h.primary, k.line) /\ L2!Cached(h.l2, k.line)
    BY <1>1, <1>2
  <2>4. QED
    BY <1>1, <1>2, <2>1, <2>2, <2>3, BackInstalls
<1>4. Ended(h, l, k.data, k.dirty)
  BY <1>2, <1>3
<1> HIDE DEF F, G
<1>5. Changes(BackLine, F, hier, FrontB(hier'), hier', l, k.data, k.dirty)
  BY <1>1, <1>4 DEF Changes, Kept, Ended, StaysClean, G
<1>6. QED
  BY <1>1, <1>4, <1>5 DEF Accessed, Ended, F, n, h

\* Entry e has taken the place of the entry of line l, if there is one.
Renewed(b, c, l, e) ==
    /\ SlotsFine(c)
    /\ Spare(c) = {k \in Spare(b) : k.line # l} \cup {Bare(e)}

\* The entry of line l is replaced by another of the same line.
LEMMA BackRenews ==
    ASSUME NEW b, SlotsFine(b), NEW l, Back!BC!InBackup(b, l),
           NEW e \in EntryOf, e.line = l
    PROVE  Renewed(b, WithEntry(b, Back!BC!SlotOf(b, l), e), l, e)
<1> DEFINE s == Back!BC!SlotOf(b, l)
           c == WithEntry(b, s, e)
<1>1. s \in Slot /\ b[s].entry # None /\ b[s].entry.line = l /\ NoOther(b, s, l)
  BY SlotFound
<1>2. b[s].enabled
  BY <1>1, EntryFields
<1>3. e # None
  BY HierarchyAssumption DEF EntryOf, Data
<1> HIDE DEF s
<1>4. EntrySet(b, c, s, e)
  BY <1>1, <1>2, SetEntry
<1> HIDE DEF c
<1>5. QED
  BY <1>1, <1>3, <1>4 DEF EntrySet, Renewed, c, s

\* The backup's entry for a line is one of the copies in front.
LEMMA BackEntry ==
    ASSUME NEW b, SlotsFine(b), NEW l, Back!BC!InBackup(b, l)
    PROVE  LET e == b[Back!BC!SlotOf(b, l)].entry IN
           /\ e \in EntryOf /\ e # None /\ e.line = l
           /\ Bare(e) \in Spare(b) /\ Bare(e) \in LineOf(BackLine) /\ Bare(e).line = l
           /\ \A k \in Spare(b) : k.line = l => k = Bare(e)
<1> DEFINE s == Back!BC!SlotOf(b, l)
<1>1. s \in Slot /\ b[s].entry # None /\ b[s].entry.line = l /\ NoOther(b, s, l)
  BY SlotFound
<1> HIDE DEF s
<1>2. /\ b[s].entry \in EntryOf
      /\ Bare(b[s].entry) \in LineOf(BackLine) /\ Bare(b[s].entry) \in Spare(b)
      /\ Bare(b[s].entry).line = b[s].entry.line
  BY <1>1, EntryFields
<1>3. ASSUME NEW k \in Spare(b), k.line = l
      PROVE  k = Bare(b[s].entry)
  <2>1. PICK t \in Slot : /\ b[t].entry # None /\ k = Bare(b[t].entry)
                          /\ k.line = b[t].entry.line
    BY SpareOnce
  <2>2. t = s
    BY <1>1, <1>3, <2>1 DEF NoOther
  <2>3. QED
    BY <2>1, <2>2
<1>4. QED
  BY <1>1, <1>2, <1>3 DEF s

\* That an entry has been used is not seen from outside.
LEMMA BackUses ==
    ASSUME NEW b, SlotsFine(b), NEW l
    PROVE  SlotsFine(Back!BC!UsedIn(b, l)) /\ Spare(Back!BC!UsedIn(b, l)) = Spare(b)
<1> DEFINE s == Back!BC!SlotOf(b, l)
           e == b[s].entry
           q == [e EXCEPT !.used = TRUE]
           c == Back!BC!UsedIn(b, l)
<1>1. CASE ~Back!BC!InBackup(b, l)
  BY <1>1 DEF Back!BC!UsedIn
<1>2. CASE Back!BC!InBackup(b, l)
  <2>1. c = WithEntry(b, s, q)
    <3>1. c = [b EXCEPT ![s].entry.used = TRUE]
      BY <1>2 DEF Back!BC!UsedIn
    <3> HIDE DEF s
    <3>2. [b EXCEPT ![s].entry.used = TRUE] = WithEntry(b, s, q)
      BY DEF WithEntry
    <3>3. QED
      BY <3>1, <3>2
  <2>2. /\ e \in EntryOf /\ e.line = l /\ Bare(e) \in Spare(b)
        /\ \A k \in Spare(b) : k.line = l => k = Bare(e)
        /\ Bare(e).line = l
    BY <1>2, BackEntry
  <2> HIDE DEF e, c
  <2>3. q \in EntryOf /\ q.line = l /\ Bare(q) = Bare(e)
    BY <2>2 DEF EntryOf, Bare
  <2> HIDE DEF q, s
  <2>4. Renewed(b, c, l, q)
    <3>1. Renewed(b, WithEntry(b, Back!BC!SlotOf(b, l), q), l, q)
      BY <1>2, <2>3, BackRenews
    <3>2. QED
      BY <2>1, <3>1 DEF s
  <2>5. Spare(c) = Spare(b)
    BY <2>2, <2>3, <2>4 DEF Renewed
  <2>6. QED
    BY <2>4, <2>5 DEF Renewed, c
<1>3. QED
  BY <1>1, <1>2

\* A byte is stored to the backup's copy of a line.
LEMMA BackStores ==
    ASSUME NEW b, SlotsFine(b), NEW l, NEW o, NEW v \in Byte
    PROVE  LET c == Back!BC!StoredIn(b, l, o, v)
               e == b[Back!BC!SlotOf(b, l)].entry
           IN  /\ SlotsFine(c)
               /\ Back!BC!InBackup(b, l) =>
                    /\ Back!BC!Stored(Bare(e), o, v) \in LineOf(BackLine)
                    /\ Spare(c) = {k \in Spare(b) : k.line # l}
                                    \cup {Back!BC!Stored(Bare(e), o, v)}
               /\ ~Back!BC!InBackup(b, l) => Spare(c) = {k \in Spare(b) : k.line # l}
<1> DEFINE s == Back!BC!SlotOf(b, l)
           e == b[s].entry
           q == [Back!BC!Stored(e, o, v) EXCEPT !.used = TRUE]
           c == Back!BC!StoredIn(b, l, o, v)
<1>1. CASE ~Back!BC!InBackup(b, l)
  <2>1. c = b
    BY <1>1 DEF Back!BC!StoredIn
  <2>2. \A k \in Spare(b) : k.line # l
    BY <1>1, SlotFound
  <2>3. QED
    BY <1>1, <2>1, <2>2
<1>2. CASE Back!BC!InBackup(b, l)
  <2>1. c = WithEntry(b, s, q)
    <3>1. c = [b EXCEPT ![s].entry = [Back!BC!Stored(@, o, v) EXCEPT !.used = TRUE]]
      BY <1>2 DEF Back!BC!StoredIn
    <3> HIDE DEF s, c
    <3>2. [b EXCEPT ![s].entry = [Back!BC!Stored(@, o, v) EXCEPT !.used = TRUE]]
            = WithEntry(b, s, q)
      BY DEF WithEntry
    <3>3. QED
      BY <3>1, <3>2
  <2>2. /\ e \in EntryOf /\ e.line = l /\ Bare(e) \in Spare(b)
        /\ \A k \in Spare(b) : k.line = l => k = Bare(e)
        /\ Bare(e).line = l
    BY <1>2, BackEntry
  <2> HIDE DEF e, c
  <2>3. q \in EntryOf /\ q.line = l /\ Bare(q) = Back!BC!Stored(Bare(e), o, v)
        /\ Back!BC!Stored(Bare(e), o, v) \in LineOf(BackLine)
    <3> DEFINE p == Back!BC!Stored(e, o, v)
               n == Back!BC!Stored(Bare(e), o, v)
    <3>1. /\ p \in EntryOf /\ p.line = e.line /\ p.data = [e.data EXCEPT ![o] = v]
          /\ p.dirty = TRUE
      BY <2>2 DEF EntryOf, Data, Back!BC!Stored
    <3>2. /\ n \in LineOf(BackLine) /\ n.line = e.line /\ n.data = [e.data EXCEPT ![o] = v]
          /\ n.dirty = TRUE
      <4>1. Bare(e) \in LineOf(BackLine) /\ Bare(e).line = e.line /\ Bare(e).data = e.data
        BY <2>2 DEF EntryOf, LineOf, Bare
      <4> DEFINE m == Bare(e)
      <4> HIDE DEF m
      <4>2. /\ Back!BC!Stored(m, o, v) \in LineOf(BackLine)
            /\ Back!BC!Stored(m, o, v).line = m.line
            /\ Back!BC!Stored(m, o, v).data = [m.data EXCEPT ![o] = v]
            /\ Back!BC!Stored(m, o, v).dirty = TRUE
        BY <4>1 DEF LineOf, Data, Back!BC!Stored, m
      <4>3. QED
        BY <4>1, <4>2 DEF m
    <3> HIDE DEF p, n
    <3>3. /\ q \in EntryOf /\ q.line = p.line /\ q.data = p.data /\ q.dirty = p.dirty
      BY <3>1 DEF EntryOf, p
    <3> HIDE DEF q
    <3>4. n = [line |-> n.line, data |-> n.data, dirty |-> n.dirty]
      BY <3>2 DEF LineOf
    <3>5. Bare(q) = n
      BY <3>1, <3>2, <3>3, <3>4 DEF Bare
    <3>6. QED
      BY <2>2, <3>1, <3>2, <3>3, <3>5 DEF n
  <2> HIDE DEF q, s
  <2>4. Renewed(b, c, l, q)
    <3>1. Renewed(b, WithEntry(b, Back!BC!SlotOf(b, l), q), l, q)
      BY <1>2, <2>3, BackRenews
    <3>2. QED
      BY <2>1, <3>1 DEF s
  <2>5. SlotsFine(c) /\ Spare(c) = {k \in Spare(b) : k.line # l}
                                      \cup {Back!BC!Stored(Bare(e), o, v)}
    BY <2>3, <2>4 DEF Renewed
  <2>6. QED
    BY <1>2, <2>3, <2>5 DEF c, e, s
<1>3. QED
  BY <1>1, <1>2

\* Nor is it seen that no entry has been used.
LEMMA BackForgets ==
    ASSUME NEW b, SlotsFine(b)
    PROVE  LET c == [s \in Slot |-> IF b[s].entry = None THEN b[s]
                                    ELSE [b[s] EXCEPT !.entry.used = FALSE]]
           IN  SlotsFine(c) /\ Spare(c) = Spare(b)
<1> DEFINE c == [s \in Slot |-> IF b[s].entry = None THEN b[s]
                                ELSE [b[s] EXCEPT !.entry.used = FALSE]]
<1>1. ASSUME NEW s \in Slot
      PROVE  /\ c[s] \in SlotType /\ c[s].enabled = b[s].enabled
             /\ c[s].entry = None <=> b[s].entry = None
             /\ b[s].entry # None => Bare(c[s].entry) = Bare(b[s].entry)
                                     /\ c[s].entry.line = b[s].entry.line
  <2>1. b[s] \in SlotType
    BY DEF SlotsFine
  <2>2. CASE b[s].entry = None
    BY <2>1, <2>2
  <2>3. CASE b[s].entry # None
    <3> DEFINE q == [b[s].entry EXCEPT !.used = FALSE]
               p == [b[s] EXCEPT !.entry = q]
    <3>1. c[s] = p
      BY <2>3
    <3>2. b[s].entry \in EntryOf
      BY <2>3, EntryFields
    <3>3. q \in EntryOf /\ q.line = b[s].entry.line /\ Bare(q) = Bare(b[s].entry)
      BY <3>2 DEF EntryOf, Bare
    <3> HIDE DEF q, c
    <3>4. p \in SlotType /\ p.entry = q /\ p.enabled = b[s].enabled
      BY <2>1, <3>3 DEF SlotType
    <3>5. q # None
      BY <3>3, HierarchyAssumption DEF EntryOf, Data
    <3> HIDE DEF p
    <3>6. QED
      BY <2>3, <3>1, <3>3, <3>4, <3>5
  <2>4. QED
    BY <2>2, <2>3
<1>2. c = [s \in Slot |-> c[s]]
  OBVIOUS
<1> HIDE DEF c
<1>3. c \in [Slot -> SlotType]
  BY <1>1, <1>2
<1>4. SlotsFine(c)
  BY <1>1, <1>3 DEF SlotsFine
<1>5. Spare(c) = Spare(b)
  BY <1>1 DEF Spare
<1>6. QED
  BY <1>4, <1>5 DEF c

NowIs(l) == Reads(FrontB(hier), hier.l2, hier.mem, l)

\* The front of h is that of hier, or with line n for its copies of l.
LEMMA BackUsed ==
    ASSUME BackFine(hier), NEW l
    PROVE  LET h == Back!Used(l) IN
           /\ BackFine(h) /\ FrontB(h) = FrontB(hier) /\ h.primary = hier.primary
           /\ h.l2 = hier.l2 /\ h.mem = hier.mem
<1> DEFINE b == Back!BC!UsedIn(hier.backup, l)
           h == Back!Used(l)
<1>1. /\ DOMAIN hier = {"primary", "backup", "l2", "used2", "mem"} /\ Shape(hier)
      /\ PrimaryFine(hier.primary) /\ SlotsFine(hier.backup)
      /\ Fit(BackLine, FrontB(hier), hier)
  BY DEF BackFine, Fit
<1>2. h = WithBackup(hier, b)
  BY DEF Back!Used, WithBackup
<1>3. SlotsFine(b) /\ Spare(b) = Spare(hier.backup)
  BY <1>1, BackUses
<1> HIDE DEF b, h
<1>4. /\ Shape(h) /\ DOMAIN h = DOMAIN hier /\ h.primary = hier.primary /\ h.backup = b
      /\ h.l2 = hier.l2 /\ h.mem = hier.mem
  BY <1>1, <1>2, SetFront
<1>5. FrontB(h) = FrontB(hier)
  BY <1>3, <1>4 DEF FrontB, FrontP
<1>6. Fit(BackLine, FrontB(hier), h)
  BY <1>1, <1>4, FrontOnly
<1>7. QED
  BY <1>1, <1>3, <1>4, <1>5, <1>6 DEF BackFine, h

\* A load that hits in the primary.
LEMMA BackLoadsPrimary ==
    ASSUME BackFine(hier), countdown \in 1..Back!BC!Capacity, NEW l \in BackLine,
           Back!AccessComplete(Back!Used(l))
    PROVE  Accessed(l, NowIs(l), NowIs(l), FALSE)
<1> DEFINE h == Back!Used(l)
           F == FrontB(hier)
<1>1. BackFine(h) /\ FrontB(h) = F /\ h.l2 = hier.l2 /\ h.mem = hier.mem
  BY BackUsed
<1> HIDE DEF h, F
<1>2. /\ BackFine(hier') /\ Quiet(BackLine, FrontB(h), h, FrontB(hier'), hier')
      /\ countdown' \in 1..Back!BC!Capacity
  BY <1>1, BackCompletes DEF h
<1>3. Changes(BackLine, F, hier, FrontB(hier'), hier', l, NowIs(l), FALSE)
  BY <1>1, <1>2 DEF Changes, Quiet, StaysClean, NowIs, F
<1>4. QED
  BY <1>2, <1>3 DEF Accessed, NowIs, F

\* What the backup has of a line that it alone has in front.
LEMMA BackSpare ==
    ASSUME BackFine(hier), NEW l \in BackLine, Back!InBackup(l)
    PROVE  LET n == Back!BackupEntry(l) IN
           /\ n = Bare(hier.backup[Back!BC!SlotOf(hier.backup, l)].entry)
           /\ n \in FrontB(hier) /\ n \in LineOf(BackLine) /\ n.line = l
           /\ \A k \in FrontB(hier) : k.line = l => k = n
           /\ \A k \in FrontP(hier) : k.line # l
           /\ ~Back!BC!Cached(hier.primary, l) /\ Back!BC!InBackup(hier.backup, l)
           /\ L2!Cached(hier.l2, l)
           /\ n.dirty \/ n.data = L2!CopyOf(hier.l2, l).data
           /\ n.data = NowIs(l)
<1> DEFINE b == hier.backup
           n == Bare(b[Back!BC!SlotOf(b, l)].entry)
           F == FrontB(hier)
<1>1. Back!BackupEntry(l) = n
  BY BackGeometry DEF Back!BackupEntry
<1>2. /\ SlotsFine(b) /\ PrimaryFine(hier.primary) /\ Sound(BackLine, F, hier.l2, hier.mem)
      /\ BackLine \in SUBSET Line
  BY HierarchyAssumption DEF BackFine, Fit
<1>3. ~Back!BC!Cached(hier.primary, l) /\ Back!BC!InBackup(b, l)
  BY DEF Back!InBackup, Back!InPrimary
<1>4. n \in Spare(b) /\ n \in LineOf(BackLine) /\ n.line = l
  BY <1>2, <1>3, BackEntry
<1>5. \A k \in FrontP(hier) : k.line # l
  BY <1>2, <1>3, PrimaryFound DEF FrontP
<1> HIDE DEF n
<1>6. n \in F
  BY <1>4 DEF FrontB
<1> HIDE DEF F, b
<1>7. /\ \A k \in F : k.line = l => k = n
      /\ L2!Cached(hier.l2, l) /\ (n.dirty \/ n.data = L2!CopyOf(hier.l2, l).data)
  BY <1>2, <1>4, <1>6 DEF Sound
<1>8. n.data = Reads(F, hier.l2, hier.mem, l)
  BY <1>2, <1>4, <1>6, ReadsFront
<1>9. QED
  BY <1>1, <1>3, <1>4, <1>5, <1>6, <1>7, <1>8 DEF NowIs, F, n, b

\* A load that hits in the backup, and promotes the line.
LEMMA BackLoadsBackup ==
    ASSUME BackFine(hier), countdown \in 1..Back!BC!Capacity, NEW l \in BackLine,
           Back!InBackup(l), Back!Install(Back!Used(l), Back!BackupEntry(l))
    PROVE  Accessed(l, NowIs(l), NowIs(l), FALSE)
<1> DEFINE h == Back!Used(l)
           F == FrontB(hier)
           n == Back!BackupEntry(l)
<1>1. /\ BackFine(h) /\ FrontB(h) = F /\ h.l2 = hier.l2 /\ h.mem = hier.mem
      /\ h.primary = hier.primary
  BY BackUsed
<1>2. /\ n \in LineOf(BackLine) /\ n.line = l /\ n \in F
      /\ \A k \in F : k.line = l => k = n
      /\ ~Back!BC!Cached(hier.primary, l) /\ L2!Cached(hier.l2, l)
      /\ n.dirty \/ n.data = L2!CopyOf(hier.l2, l).data
      /\ n.data = NowIs(l)
  BY BackSpare
<1> HIDE DEF h, F, n
<1>3. Ended(h, n.line, n.data, n.dirty)
  <2>1. /\ ~Back!BC!Cached(h.primary, n.line) /\ L2!Cached(h.l2, n.line)
        /\ n.dirty \/ n.data = L2!CopyOf(h.l2, n.line).data
        /\ \A k \in FrontB(h) : k.line = n.line => k = n
        /\ Back!Install(h, n)
    BY <1>1, <1>2 DEF h, n
  <2>2. QED
    BY <1>1, <1>2, <2>1, BackInstalls
<1>4. Ended(h, l, NowIs(l), n.dirty)
  BY <1>2, <1>3
<1>5. Changes(BackLine, F, hier, FrontB(hier'), hier', l, NowIs(l), FALSE)
  <2>1. n.dirty => ~CleanIn(F, hier.l2, l)
    BY <1>2 DEF CleanIn
  <2>2. QED
    BY <1>1, <1>4, <2>1 DEF Changes, Ended, StaysClean
<1>6. QED
  BY <1>4, <1>5 DEF Accessed, Ended, NowIs, F

\* The front of h has line n, which is dirty, for the copies of its line, and
\* every other clean line stays so.
Fronted(h, n) ==
    /\ BackFine(h) /\ h.l2 = hier.l2 /\ h.mem = hier.mem
    /\ FrontB(h) = {k \in FrontB(hier) : k.line # n.line} \cup {n}
    /\ \A x \in BackLine : Reads(FrontB(h), h.l2, h.mem, x) =
         IF x = n.line THEN n.data ELSE Reads(FrontB(hier), hier.l2, hier.mem, x)
    /\ \A x \in BackLine : x # n.line => StaysClean(FrontB(hier), hier, FrontB(h), h, x)

\* Replacing the copies in front of a line the L2 has by a dirty one changes
\* that line only.
LEMMA BackFronts ==
    ASSUME BackFine(hier), NEW n \in LineOf(BackLine), n.dirty, L2!Cached(hier.l2, n.line),
           NEW c, PrimaryFine(c), NEW b, SlotsFine(b),
           LinesIn(L1Sets, L1Ways, c) \cup Spare(b) =
                {k \in FrontB(hier) : k.line # n.line} \cup {n}
    PROVE  Fronted(WithBackup(WithPrimary(hier, c), b), n)
<1> DEFINE g == WithPrimary(hier, c)
           h == WithBackup(g, b)
           F == FrontB(hier)
           G == FrontB(h)
<1>1. /\ DOMAIN hier = {"primary", "backup", "l2", "used2", "mem"} /\ Shape(hier)
      /\ Fit(BackLine, F, hier) /\ BackLine \in SUBSET Line
  BY HierarchyAssumption DEF BackFine, Fit
<1>2. /\ Shape(g) /\ DOMAIN g = DOMAIN hier /\ g.primary = c
      /\ g.l2 = hier.l2 /\ g.mem = hier.mem
  BY <1>1, SetFront
<1> HIDE DEF g
<1>3. /\ Shape(h) /\ DOMAIN h = DOMAIN hier /\ h.primary = c /\ h.backup = b
      /\ h.l2 = hier.l2 /\ h.mem = hier.mem
  BY <1>1, <1>2, SetFront
<1> HIDE DEF h
<1>4. G = {k \in F : k.line # n.line} \cup {n}
  BY <1>3 DEF FrontB, FrontP
<1>5. /\ Fit(BackLine, G, hier)
      /\ \A x \in BackLine : Reads(G, hier.l2, hier.mem, x) =
           IF x = n.line THEN n.data ELSE Reads(F, hier.l2, hier.mem, x)
      /\ \A x \in BackLine : CleanIn(F, hier.l2, x) /\ x # n.line => CleanIn(G, hier.l2, x)
  <2>1. /\ G \subseteq {k \in F : k.line # n.line} \cup {n}
        /\ \A k \in F : k.line # n.line => k \in G
        /\ n \in G
    BY <1>4
  <2> HIDE DEF G, F
  <2>2. /\ Fit(BackLine, G, hier)
        /\ (\A k \in F : k.line # n.line => k \in G) /\ n \in G =>
                \A x \in BackLine : Reads(G, hier.l2, hier.mem, x) =
                    IF x = n.line THEN n.data ELSE Reads(F, hier.l2, hier.mem, x)
        /\ \A x \in BackLine : CleanIn(F, hier.l2, x) /\ (x = n.line => ~n.dirty) =>
                CleanIn(G, hier.l2, x)
    BY <1>1, <2>1, FrontPut
  <2>3. QED
    BY <2>1, <2>2
<1>6. Fit(BackLine, G, h)
  <2> HIDE DEF G
  <2>1. QED
    BY <1>3, <1>5, FrontOnly
<1>7. BackFine(h)
  BY <1>1, <1>3, <1>6 DEF BackFine
<1>8. QED
  <2>1. \A x \in BackLine : x # n.line => StaysClean(F, hier, G, h, x)
    BY <1>3, <1>5 DEF StaysClean
  <2>2. QED
    BY <1>3, <1>4, <1>5, <1>7, <2>1 DEF Fronted, h, g

\* A store that hits in the backup, into both copies.
LEMMA BackStoresBackup ==
    ASSUME BackFine(hier), countdown \in 1..Back!BC!Capacity, NEW l \in BackLine,
           NEW o \in Offset, NEW v \in Byte, Back!InBackup(l),
           Back!Install(Back!UsedAndStored(l, o, v), Back!BC!Stored(Back!BackupEntry(l), o, v))
    PROVE  Accessed(l, NowIs(l), [NowIs(l) EXCEPT ![o] = v], TRUE)
<1> DEFINE b == Back!BC!StoredIn(hier.backup, l, o, v)
           h == Back!UsedAndStored(l, o, v)
           F == FrontB(hier)
           n == Back!BackupEntry(l)
           k == Back!BC!Stored(n, o, v)
<1>1. /\ n = Bare(hier.backup[Back!BC!SlotOf(hier.backup, l)].entry)
      /\ n \in FrontB(hier) /\ n \in LineOf(BackLine) /\ n.line = l
      /\ \A x \in FrontB(hier) : x.line = l => x = n
      /\ \A x \in FrontP(hier) : x.line # l
      /\ ~Back!BC!Cached(hier.primary, l) /\ Back!BC!InBackup(hier.backup, l)
      /\ L2!Cached(hier.l2, l)
      /\ n.data = NowIs(l)
  BY BackSpare
<1>2. /\ PrimaryFine(hier.primary) /\ SlotsFine(hier.backup) /\ Shape(hier)
      /\ DOMAIN hier = {"primary", "backup", "l2", "used2", "mem"}
  BY DEF BackFine, Fit
<1>3. SlotsFine(b) /\ k \in LineOf(BackLine)
      /\ Spare(b) = {x \in Spare(hier.backup) : x.line # l} \cup {k}
  BY <1>1, <1>2, BackStores
<1> HIDE DEF n
<1>4. k.line = l /\ k.dirty /\ k.data = [NowIs(l) EXCEPT ![o] = v]
  BY <1>1 DEF Back!BC!Stored, LineOf, Data
<1>5. h = WithBackup(WithPrimary(hier, hier.primary), b)
  <2>1. WithPrimary(hier, hier.primary) = hier
    BY <1>2 DEF WithPrimary, Shape
  <2>2. h = WithBackup(hier, b)
    BY DEF Back!UsedAndStored, WithBackup
  <2>3. QED
    BY <2>1, <2>2
<1> HIDE DEF b, k, h
<1>6. Fronted(h, k)
  <2>1. LinesIn(L1Sets, L1Ways, hier.primary) \cup Spare(b) = {x \in F : x.line # k.line} \cup {k}
    BY <1>1, <1>3, <1>4 DEF FrontB, FrontP
  <2>2. Fronted(WithBackup(WithPrimary(hier, hier.primary), b), k)
    BY <1>1, <1>2, <1>3, <1>4, <2>1, BackFronts
  <2>3. QED
    BY <1>5, <2>2
<1>7. h.primary = hier.primary
  <2> DEFINE g == WithPrimary(hier, hier.primary)
  <2>1. Shape(g) /\ DOMAIN g = DOMAIN hier /\ g.primary = hier.primary
    BY <1>2, SetFront
  <2> HIDE DEF g
  <2>2. WithBackup(g, b).primary = g.primary
    BY <1>2, <2>1, SetFront
  <2>3. QED
    BY <1>5, <2>1, <2>2 DEF g
<1>8. Ended(h, k.line, k.data, k.dirty)
  <2>1. /\ BackFine(h) /\ h.l2 = hier.l2
        /\ FrontB(h) = {x \in F : x.line # k.line} \cup {k}
    BY <1>6 DEF Fronted
  <2>2. /\ ~Back!BC!Cached(h.primary, k.line) /\ L2!Cached(h.l2, k.line)
        /\ \A x \in FrontB(h) : x.line = k.line => x = k
        /\ Back!Install(h, k)
    BY <1>1, <1>4, <1>7, <2>1 DEF k, n, h
  <2>3. QED
    BY <1>3, <1>4, <2>1, <2>2, BackInstalls
<1> DEFINE d == [NowIs(l) EXCEPT ![o] = v]
<1> HIDE DEF d
<1>9. k.data = d
  BY <1>4 DEF d
<1>10. Changes(BackLine, F, hier, FrontB(hier'), hier', l, d, TRUE)
  BY <1>4, <1>6, <1>8, <1>9 DEF Changes, Ended, Fronted, StaysClean
<1>11. Accessed(l, NowIs(l), d, TRUE)
  BY <1>8, <1>10 DEF Accessed, Ended, NowIs, F
<1>12. QED
  BY <1>11 DEF d

\* The primary has line k in the place of what is in a way of its set.
PrimaryHas(p, c, n, k) ==
    /\ PrimaryFine(c)
    /\ LinesIn(L1Sets, L1Ways, c) = (LinesIn(L1Sets, L1Ways, p) \ {n}) \cup {k}

\* Putting a line in a way of its set in the primary, where no other way has
\* it.
LEMMA PrimaryPut ==
    ASSUME NEW p, PrimaryFine(p), NEW k \in LineOf(BackLine), NEW w \in 0..(L1Ways - 1),
           NowhereElse(L1Sets, L1Ways, p, k, w)
    PROVE  PrimaryHas(p, With(p, k.line % L1Sets, w, k), p[k.line % L1Sets][w], k)
<1>1. /\ p \in ArrayFor(L1Sets, L1Ways, BackLine) /\ Filed(L1Sets, L1Ways, p)
      /\ L1Sets \in Nat \ {0} /\ L1Ways \in Nat \ {0} /\ BackLine \in SUBSET Line
  BY HierarchyAssumption DEF PrimaryFine
<1>2. k.line % L1Sets \in 0..(L1Sets - 1) /\ k.line \in Line
  BY <1>1, Geometry DEF LineOf
<1>3. HasPut(L1Sets, L1Ways, BackLine, p, With(p, k.line % L1Sets, w, k),
             k.line % L1Sets, k, w)
  BY <1>1, PutAway
<1>4. QED
  BY <1>3, Zenon DEF HasPut, PrimaryHas, PrimaryFine

\* A store that hits in the primary, and in the backup when that has a copy.
LEMMA BackStoresPrimary ==
    ASSUME BackFine(hier), countdown \in 1..Back!BC!Capacity, NEW l \in BackLine,
           NEW o \in Offset, NEW v \in Byte, NEW w \in Back!BC!Ways,
           Back!BC!HitWay(hier.primary, l, w),
           Back!AccessComplete([Back!UsedAndStored(l, o, v) EXCEPT !.primary =
               Back!BC!Put(@, l, w, Back!BC!Stored(@[Back!BC!SetIndex(l)][w], o, v))])
    PROVE  Accessed(l, NowIs(l), [NowIs(l) EXCEPT ![o] = v], TRUE)
<1> DEFINE b == Back!BC!StoredIn(hier.backup, l, o, v)
           g == WithBackup(hier, b)
           p == hier.primary
           s == l % L1Sets
           n == p[s][w]
           k == Back!BC!Stored(n, o, v)
           c == With(p, s, w, k)
           h == WithBackup(WithPrimary(hier, c), b)
           F == FrontB(hier)
<1>1. /\ PrimaryFine(p) /\ SlotsFine(hier.backup) /\ Shape(hier)
      /\ DOMAIN hier = {"primary", "backup", "l2", "used2", "mem"}
      /\ Fit(BackLine, F, hier) /\ Sound(BackLine, F, hier.l2, hier.mem)
      /\ BackLine \in SUBSET Line /\ L1Sets \in Nat \ {0} /\ L1Ways \in Nat \ {0}
  BY HierarchyAssumption DEF BackFine, Fit
<1>2. HeldAt(p, l, w)
  BY <1>1, PrimaryHit
<1>3. /\ w \in 0..(L1Ways - 1) /\ s \in 0..(L1Sets - 1)
      /\ n \in LinesIn(L1Sets, L1Ways, p) /\ n \in LineOf(BackLine)
      /\ n.line = l
      /\ NowhereElse(L1Sets, L1Ways, p, n, w)
  BY <1>2 DEF HeldAt
<1>4. n \in F
  BY <1>3 DEF FrontB, FrontP
<1>5. /\ \A x \in F : x.line = l => x = n
      /\ L2!Cached(hier.l2, l) /\ n.data = NowIs(l)
  <2> HIDE DEF F, n
  <2>1. Reads(F, hier.l2, hier.mem, n.line) = n.data
    BY <1>1, <1>4, ReadsFront
  <2>2. QED
    BY <1>1, <1>3, <1>4, <2>1 DEF Sound, NowIs, F
<1>6. k \in LineOf(BackLine) /\ k.line = l /\ k.dirty /\ k.data = [NowIs(l) EXCEPT ![o] = v]
  <2> HIDE DEF n
  <2>1. QED
    BY <1>3, <1>5 DEF Back!BC!Stored, LineOf, Data
<1>7. /\ PrimaryFine(c)
      /\ LinesIn(L1Sets, L1Ways, c) = (LinesIn(L1Sets, L1Ways, p) \ {n}) \cup {k}
  <2>1. k.line % L1Sets = s /\ p[k.line % L1Sets][w] = n
    BY <1>6
  <2> HIDE DEF k, p, n
  <2>2. NowhereElse(L1Sets, L1Ways, p, k, w)
    BY <1>3, <1>6 DEF NowhereElse
  <2>3. PrimaryHas(p, With(p, k.line % L1Sets, w, k), p[k.line % L1Sets][w], k)
    BY <1>1, <1>3, <1>6, <2>2, PrimaryPut
  <2> HIDE DEF s
  <2>4. QED
    BY <2>1, <2>3 DEF PrimaryHas
<1>8. /\ SlotsFine(b)
      /\ Spare(b) \subseteq {x \in Spare(hier.backup) : x.line # l} \cup {k}
      /\ \A x \in Spare(hier.backup) : x.line # l => x \in Spare(b)
  <2> DEFINE e == hier.backup[Back!BC!SlotOf(hier.backup, l)].entry
  <2>1. /\ SlotsFine(b)
        /\ Back!BC!InBackup(hier.backup, l) =>
                Spare(b) = {x \in Spare(hier.backup) : x.line # l}
                             \cup {Back!BC!Stored(Bare(e), o, v)}
        /\ ~Back!BC!InBackup(hier.backup, l) =>
                Spare(b) = {x \in Spare(hier.backup) : x.line # l}
    BY <1>1, BackStores
  <2>2. CASE Back!BC!InBackup(hier.backup, l)
    <3>1. Bare(e) \in Spare(hier.backup) /\ Bare(e).line = l
      BY <1>1, <2>2, BackEntry
    <3>2. Bare(e) = n
      <4> HIDE DEF e, n
      <4>1. Bare(e) \in F
        BY <3>1 DEF FrontB
      <4>2. QED
        BY <1>5, <3>1, <4>1
    <3> HIDE DEF e, n, b
    <3>3. QED
      BY <2>1, <2>2, <3>2
  <2>3. CASE ~Back!BC!InBackup(hier.backup, l)
    BY <2>1, <2>3
  <2>4. QED
    BY <2>2, <2>3
<1>9. [Back!UsedAndStored(l, o, v) EXCEPT !.primary =
          Back!BC!Put(@, l, w, Back!BC!Stored(@[Back!BC!SetIndex(l)][w], o, v))] = h
  <2>1. /\ Back!UsedAndStored(l, o, v) = g
        /\ Shape(g) /\ DOMAIN g = DOMAIN hier /\ g.primary = p
    <3>1. Back!UsedAndStored(l, o, v) = g
      BY DEF Back!UsedAndStored, WithBackup
    <3>2. QED
      BY <1>1, <3>1, SetFront
  <2>2. WithPrimary(g, c) = h
    <3> HIDE DEF c, b
    <3>1. QED
      BY <1>1 DEF WithPrimary, WithBackup
  <2>3. Back!BC!Put(g.primary, l, w, Back!BC!Stored(g.primary[Back!BC!SetIndex(l)][w], o, v)) = c
    <3>1. Back!BC!SetIndex(l) = s
      BY BackGeometry
    <3> HIDE DEF g
    <3>2. Back!BC!Stored(g.primary[Back!BC!SetIndex(l)][w], o, v) = k
      BY <2>1, <3>1
    <3> HIDE DEF k
    <3>3. QED
      BY <2>1, <3>2, BackGeometry
  <2> HIDE DEF g, h, c
  <2>4. [g EXCEPT !.primary =
            Back!BC!Put(@, l, w, Back!BC!Stored(@[Back!BC!SetIndex(l)][w], o, v))]
          = WithPrimary(g, c)
    BY <2>3 DEF WithPrimary
  <2>5. QED
    BY <2>1, <2>2, <2>4
<1>10. Back!AccessComplete(h)
  <2> HIDE DEF h
  <2>1. QED
    BY <1>9
<1> HIDE DEF k, c, b, h, n
<1>11. Fronted(h, k)
  <2>1. LinesIn(L1Sets, L1Ways, c) \cup Spare(b) = {x \in F : x.line # k.line} \cup {k}
    <3>1. \A x \in LinesIn(L1Sets, L1Ways, p) : x.line # l <=> x # n
      BY <1>3, <1>5 DEF FrontB, FrontP
    <3> HIDE DEF p
    <3>2. QED
      BY <1>6, <1>7, <1>8, <3>1 DEF FrontB, FrontP, p
  <2>2. Fronted(WithBackup(WithPrimary(hier, c), b), k)
    BY <1>5, <1>6, <1>7, <1>8, <2>1, BackFronts
  <2>3. QED
    BY <2>2 DEF h
<1>12. /\ BackFine(hier') /\ Quiet(BackLine, FrontB(h), h, FrontB(hier'), hier')
       /\ countdown' \in 1..Back!BC!Capacity
  BY <1>10, <1>11, BackCompletes DEF Fronted
<1> DEFINE d == [NowIs(l) EXCEPT ![o] = v]
<1> HIDE DEF d
<1>13. k.data = d
  BY <1>6 DEF d
<1>14. Changes(BackLine, F, hier, FrontB(hier'), hier', l, d, TRUE)
  BY <1>6, <1>11, <1>12, <1>13 DEF Changes, Quiet, Fronted, StaysClean
<1>15. Accessed(l, NowIs(l), d, TRUE)
  BY <1>12, <1>14 DEF Accessed, NowIs, F
<1>16. QED
  BY <1>15 DEF d

\* What is kept of the state of the BackCache's hierarchy.
BackSteady ==
    /\ BackFine(hier) /\ countdown \in 1..Back!BC!Capacity
    /\ age \in [BackLine -> Back!BC!Ages]

\* Stamping a line keeps the ages well formed.
LEMMA BackStamps ==
    ASSUME age \in [BackLine -> Back!BC!Ages], NEW l \in BackLine
    PROVE  Back!BC!Stamped(l) \in [BackLine -> Back!BC!Ages]
<1> DEFINE n == Cardinality(BackLine)
<1>1. n \in Nat /\ n # 0
  BY HierarchyAssumption, FS_CardinalityType, FS_EmptySet
<1>2. Back!BC!Cardinality(BackLine) = n
  BY DEF Back!BC!Cardinality, Cardinality
<1> HIDE DEF n
<1>3. Back!BC!Ages = 0..(n - 1)
  BY <1>2 DEF Back!BC!Ages
<1>4. ASSUME NEW k \in BackLine
      PROVE  (IF k = l THEN n - 1 ELSE IF age[k] > age[l] THEN age[k] - 1 ELSE age[k])
                \in 0..(n - 1)
  <2>1. age[k] \in 0..(n - 1) /\ age[l] \in 0..(n - 1)
    BY <1>3
  <2>2. QED
    BY <1>1, <2>1
<1>5. QED
  BY <1>2, <1>3, <1>4 DEF Back!BC!Stamped

\* The BackCache's hierarchy is empty at first.
LEMMA BackStart ==
    ASSUME Back!Init
    PROVE  BackSteady
<1>1. PICK n \in Back!BC!MinEnabled..Back!BC!MaxEnabled, S \in SUBSET Slot :
        /\ countdown = n
        /\ hier = [primary |-> Back!BC!NoLines,
                   backup |-> [s \in Slot |-> [enabled |-> s \in S, entry |-> None]],
                   l2 |-> Back!L2!NoLines, used2 |-> Back!L2!NoUses,
                   mem |-> [l \in BackLine |-> [o \in Offset |-> Zero]]]
  BY DEF Back!Init
<1> DEFINE b == [s \in Slot |-> [enabled |-> s \in S, entry |-> None]]
<1>2. /\ hier.primary = Blank(L1Sets, L1Ways) /\ hier.backup = b
      /\ hier.l2 = Blank(L2Sets, L2Ways) /\ hier.used2 = InOrder(L2Sets, L2Ways)
      /\ hier.mem = [l \in BackLine |-> [o \in Offset |-> Zero]]
      /\ DOMAIN hier = {"primary", "backup", "l2", "used2", "mem"}
      /\ hier = [f \in DOMAIN hier |-> hier[f]]
  BY <1>1 DEF Back!BC!NoLines, Back!L2!NoLines, Back!L2!NoUses,
              Back!BC!Sets, Back!BC!Ways, Back!L2!Sets, Back!L2!Ways, Blank, InOrder
<1>3. SlotsFine(b) /\ Spare(b) = {}
  <2>1. b \in [Slot -> SlotType] /\ \A s \in Slot : b[s].entry = None
    BY DEF SlotType
  <2> HIDE DEF b
  <2>2. QED
    BY <2>1 DEF SlotsFine, Spare
<1> HIDE DEF b
<1>4. /\ hier.primary \in ArrayFor(L1Sets, L1Ways, BackLine)
      /\ Filed(L1Sets, L1Ways, hier.primary)
      /\ LinesIn(L1Sets, L1Ways, hier.primary) = {}
  <2>1. /\ Blank(L1Sets, L1Ways) \in ArrayFor(L1Sets, L1Ways, BackLine)
        /\ Filed(L1Sets, L1Ways, Blank(L1Sets, L1Ways))
        /\ LinesIn(L1Sets, L1Ways, Blank(L1Sets, L1Ways)) = {}
    BY EmptyArray
  <2>2. QED
    BY <1>2, <2>1
<1>5. FrontB(hier) = {}
  BY <1>2, <1>3, <1>4 DEF FrontB, FrontP
<1>6. Fit(BackLine, {}, hier)
  BY <1>2, FirstFit, HierarchyAssumption
<1>7. BackFine(hier)
  BY <1>2, <1>3, <1>4, <1>5, <1>6 DEF BackFine, PrimaryFine
<1>8. countdown \in 1..Back!BC!Capacity
  BY <1>1, BackPolicy
<1>9. QED
  BY <1>7, <1>8 DEF BackSteady, Back!Init

BackOutcome(y) ==
    LET then == Reads(FrontB(hier'), hier'.l2, hier'.mem, y)
        now == Reads(FrontB(hier), hier.l2, hier.mem, y)
    IN  /\ then # now =>
             \/ \E o \in Offset, v \in Byte :
                   Back!Store(y, o, v) /\ then = [now EXCEPT ![o] = v]
             \/ /\ \E n \in FrontB(hier) : n.line = y /\ n.dirty
                /\ \A n \in FrontB(hier') : n.line # y
                /\ ~L2!Cached(hier'.l2, y)
        /\ \/ StaysClean(FrontB(hier), hier, FrontB(hier'), hier', y)
           \/ \E o \in Offset, v \in Byte : Back!Store(y, o, v)

\* A load, wherever it finds its line, leaves every line as it was.
LEMMA BackLoadAccesses ==
    ASSUME BackSteady, NEW l \in BackLine, NEW o, Back!Load(l, o)
    PROVE  Accessed(l, NowIs(l), NowIs(l), FALSE)
<1>1. BackFine(hier) /\ countdown \in 1..Back!BC!Capacity
  BY DEF BackSteady
<1>2. CASE Back!AccessComplete(Back!Used(l))
  BY <1>1, <1>2, BackLoadsPrimary
<1>3. CASE Back!InBackup(l) /\ Back!Install(Back!Used(l), Back!BackupEntry(l))
  BY <1>1, <1>3, BackLoadsBackup
<1>4. CASE /\ Back!Nowhere(l)
           /\ Back!Install(Back!Filled(hier, l), Back!NewLine(Back!Filled(hier, l), l))
  <2> DEFINE n == Back!NewLine(Back!Filled(hier, l), l)
  <2>1. n \in LineOf(BackLine) /\ n.line = l /\ ~n.dirty
    BY <1>1, <1>4, BackFetches
  <2>2. Accessed(l, n.data, n.data, n.dirty)
    BY <1>1, <1>4, BackMisses
  <2> HIDE DEF n
  <2>3. n.data = NowIs(l) /\ n.dirty = FALSE
    BY <2>1, <2>2 DEF Accessed, NowIs, LineOf
  <2>4. QED
    BY <2>2, <2>3
<1>5. QED
  BY <1>2, <1>3, <1>4 DEF Back!Load

\* A store, wherever it finds its line, changes one byte of it.
LEMMA BackStoreAccesses ==
    ASSUME BackSteady, NEW l \in BackLine, NEW o \in Offset, NEW v \in Byte,
           Back!Store(l, o, v)
    PROVE  Accessed(l, NowIs(l), [NowIs(l) EXCEPT ![o] = v], TRUE)
<1>1. BackFine(hier) /\ countdown \in 1..Back!BC!Capacity
  BY DEF BackSteady
<1>2. ASSUME NEW w \in Back!BC!Ways, Back!BC!HitWay(hier.primary, l, w),
             Back!AccessComplete([Back!UsedAndStored(l, o, v) EXCEPT !.primary =
                 Back!BC!Put(@, l, w, Back!BC!Stored(@[Back!BC!SetIndex(l)][w], o, v))])
      PROVE  Accessed(l, NowIs(l), [NowIs(l) EXCEPT ![o] = v], TRUE)
  BY <1>1, <1>2, BackStoresPrimary
<1>3. CASE /\ Back!InBackup(l)
           /\ Back!Install(Back!UsedAndStored(l, o, v),
                           Back!BC!Stored(Back!BackupEntry(l), o, v))
  BY <1>1, <1>3, BackStoresBackup
<1>4. CASE /\ Back!Nowhere(l)
           /\ Back!Install(Back!Filled(hier, l),
                           Back!BC!Stored(Back!NewLine(Back!Filled(hier, l), l), o, v))
  <2> DEFINE n == Back!NewLine(Back!Filled(hier, l), l)
             k == Back!BC!Stored(n, o, v)
             d == [n.data EXCEPT ![o] = v]
  <2>1. n \in LineOf(BackLine) /\ n.line = l =>
            k \in LineOf(BackLine) /\ k.line = l /\ k.dirty /\ k.data = d
    <3> HIDE DEF n
    <3>1. QED
      BY DEF Back!BC!Stored, LineOf, Data
  <2> HIDE DEF k
  <2>2. Accessed(l, n.data, k.data, k.dirty)
    <3>1. Back!Install(Back!Filled(hier, l), k)
      BY <1>4 DEF k
    <3>2. QED
      BY <1>1, <1>4, <2>1, <3>1, BackMisses
  <2>3. n \in LineOf(BackLine) /\ n.line = l
    BY <1>1, <1>4, BackFetches
  <2> HIDE DEF n
  <2>4. k.data = d /\ n.data = NowIs(l) /\ k.dirty = TRUE
    BY <2>1, <2>2, <2>3 DEF Accessed, NowIs, LineOf
  <2>5. QED
    BY <2>2, <2>4
<1>5. QED
  BY <1>2, <1>3, <1>4 DEF Back!Store

\* A call of the BackCache's hierarchy keeps it steady and has one of the
\* outcomes allowed for every line.
LEMMA BackStep ==
    ASSUME BackSteady, Back!Next
    PROVE  BackSteady' /\ \A y \in BackLine : BackOutcome(y)
<1> DEFINE F == FrontB(hier)
<1>1. Fit(BackLine, F, hier) /\ BackLine \in SUBSET Line /\ BackFine(hier)
  BY HierarchyAssumption DEF BackSteady, BackFine
<1>2. CASE Back!OnContextSwitch
  <2> DEFINE b == [s \in Slot |-> IF hier.backup[s].entry = None THEN hier.backup[s]
                                  ELSE [hier.backup[s] EXCEPT !.entry.used = FALSE]]
  <2>1. hier' = WithBackup(hier, b) /\ age' = age /\ countdown' = countdown
    BY <1>2 DEF Back!OnContextSwitch, WithBackup
  <2>2. SlotsFine(b) /\ Spare(b) = Spare(hier.backup)
    <3>1. SlotsFine(hier.backup)
      BY <1>1 DEF BackFine
    <3>2. QED
      BY <3>1, BackForgets
  <2> HIDE DEF b
  <2>3. /\ Shape(hier') /\ DOMAIN hier' = DOMAIN hier /\ hier'.primary = hier.primary
        /\ hier'.backup = b /\ hier'.l2 = hier.l2 /\ hier'.mem = hier.mem
    BY <1>1, <2>1, SetFront DEF BackFine, Fit
  <2>4. FrontB(hier') = F
    BY <2>2, <2>3 DEF FrontB, FrontP
  <2>5. Fit(BackLine, F, hier')
    BY <1>1, <2>3, FrontOnly
  <2>6. BackFine(hier')
    BY <1>1, <2>2, <2>3, <2>4, <2>5 DEF BackFine
  <2>7. \A y \in BackLine : BackOutcome(y)
    BY <2>3, <2>4 DEF BackOutcome, StaysClean
  <2>8. QED
    BY <2>1, <2>6, <2>7 DEF BackSteady
<1>3. ASSUME NEW l \in BackLine, NEW o \in Offset,
             Back!Load(l, o) \/ \E v \in Byte : Back!Store(l, o, v)
      PROVE  BackSteady' /\ \A y \in BackLine : BackOutcome(y)
  <2>1. age' = Back!BC!Stamped(l)
    BY <1>3 DEF Back!Load, Back!Store
  <2>2. age' \in [BackLine -> Back!BC!Ages]
    BY <2>1, BackStamps DEF BackSteady
  <2>3. ASSUME NEW d, NEW q, Accessed(l, NowIs(l), d, q),
               \/ d = NowIs(l) /\ ~q
               \/ \E v \in Byte : Back!Store(l, o, v) /\ d = [NowIs(l) EXCEPT ![o] = v]
        PROVE  BackSteady' /\ \A y \in BackLine : BackOutcome(y)
    <3>1. BackSteady'
      BY <2>2, <2>3 DEF BackSteady, Accessed
    <3>2. Fit(BackLine, FrontB(hier'), hier')
          /\ Changes(BackLine, F, hier, FrontB(hier'), hier', l, d, q)
      BY <2>3 DEF Accessed, BackFine
    <3>3. ASSUME NEW y \in BackLine
          PROVE  \/ StaysClean(F, hier, FrontB(hier'), hier', y)
                 \/ \E v \in Byte : Back!Store(y, o, v)
      BY <2>3, <3>2 DEF Changes
    <3>4. ASSUME NEW y \in BackLine,
                 Reads(FrontB(hier'), hier'.l2, hier'.mem, y) # NowIs(y)
          PROVE  BackOutcome(y)
      <4>1. \/ y = l /\ Reads(FrontB(hier'), hier'.l2, hier'.mem, y) = d
            \/ /\ \E n \in F : n.line = y /\ n.dirty
               /\ \A n \in FrontB(hier') : n.line # y
               /\ ~L2!Cached(hier'.l2, y)
        BY <1>1, <3>2, <3>4, Outcome DEF NowIs
      <4>2. QED
        BY <2>3, <3>3, <3>4, <4>1 DEF BackOutcome, NowIs
    <3>5. \A y \in BackLine : BackOutcome(y)
      BY <3>3, <3>4 DEF BackOutcome, NowIs
    <3>6. QED
      BY <3>1, <3>5
  <2>4. CASE Back!Load(l, o)
    BY <2>3, <2>4, BackLoadAccesses
  <2>5. ASSUME NEW v \in Byte, Back!Store(l, o, v)
        PROVE  BackSteady' /\ \A y \in BackLine : BackOutcome(y)
    <3>1. Accessed(l, NowIs(l), [NowIs(l) EXCEPT ![o] = v], TRUE)
      BY <2>5, BackStoreAccesses
    <3>2. QED
      BY <2>3, <2>5, <3>1
  <2>6. QED
    BY <1>3, <2>4, <2>5
<1>4. QED
  BY <1>2, <1>3 DEF Back!Next

\* What the properties of MCHierarchies say of the BackCache's hierarchy.
LEMMA BackFacts ==
    ASSUME BackSteady
    PROVE  /\ Back!TypeOK
           /\ Back!Copies = FrontB(hier)
           /\ L2!Includes(Back!Copies, hier)
           /\ Back!Agree
           /\ Back!View = [l \in BackLine |-> Reads(FrontB(hier), hier.l2, hier.mem, l)]
<1> DEFINE F == FrontB(hier)
<1>1. Back!Copies = F
  BY BackGeometry DEF Back!Copies, FrontB, FrontP, LinesIn, Spare
<1>2. Sound(BackLine, F, hier.l2, hier.mem) /\ BackLine \in SUBSET Line
      /\ Behind(BackLine, hier.l2, hier.mem)
  BY HierarchyAssumption DEF BackSteady, BackFine, Fit, Sound
<1> HIDE DEF F
<1>3. L2!Includes(Back!Copies, hier)
  BY <1>1, <1>2 DEF L2!Includes, Sound
<1>4. Back!Agree
  <2>1. ASSUME NEW l \in BackLine, L2!Cached(hier.l2, l), ~L2!CopyOf(hier.l2, l).dirty
        PROVE  L2!CopyOf(hier.l2, l).data = hier.mem[l]
    <3>1. PICK v \in L2!Ways : L2!Holds(hier.l2, l, v)
      BY <2>1 DEF L2!Cached
    <3>2. L2!CopyOf(hier.l2, l) = hier.l2[L2!SetIndex(l)][v]
      BY <1>2, <3>1, Found
    <3>3. L2!SetIndex(l) \in 0..(L2Sets - 1) /\ v \in 0..(L2Ways - 1)
      BY <1>2, Geometry
    <3>4. QED
      BY <1>2, <2>1, <3>1, <3>2, <3>3 DEF Behind, L2!Holds
  <2>2. QED
    BY <1>1, <1>2, <2>1, BackL2 DEF Back!Agree, Back!L2!AllAgree, Sound
<1>5. Back!View = [l \in BackLine |-> Reads(F, hier.l2, hier.mem, l)]
  BY <1>1, BackL2 DEF Back!View, Back!L2!Flattened, Reads
<1>6. Back!TypeOK
  <2>1. Back!BC!Array = ArrayFor(L1Sets, L1Ways, BackLine)
    BY DEF Back!BC!Array, ArrayFor, Back!BC!Sets, Back!BC!Ways, Back!BC!CacheLine,
           LineOf, Data, Back!BC!Data
  <2>2. Back!BC!BackupSlot = SlotType
    BY DEF Back!BC!BackupSlot, SlotType, Back!BC!BackupLine, EntryOf, Data, Back!BC!Data
  <2>3. Back!L2!Array = ArrayFor(L2Sets, L2Ways, BackLine) /\ Back!L2!Ranks = L2!Ranks
    BY DEF Back!L2!Array, ArrayFor, Back!L2!Sets, Back!L2!Ways, Back!L2!CacheLine,
           LineOf, Data, Back!L2!Data, Back!L2!Ranks, L2!Ranks, L2!Sets, L2!Ways
  <2>4. /\ hier = [f \in DOMAIN hier |-> hier[f]]
        /\ DOMAIN hier = {"primary", "backup", "l2", "used2", "mem"}
        /\ hier.primary \in Back!BC!Array
        /\ hier.backup \in [Slot -> Back!BC!BackupSlot]
        /\ hier.l2 \in Back!L2!Array /\ hier.used2 \in Back!L2!Ranks
        /\ hier.mem \in [BackLine -> [Offset -> Byte]]
    BY <1>2, <2>1, <2>2, <2>3
       DEF BackSteady, BackFine, Fit, Shape, Behind, Data, PrimaryFine, SlotsFine
  <2>5. hier \in [primary : Back!BC!Array, backup : [Slot -> Back!BC!BackupSlot],
                  l2 : Back!L2!Array, used2 : Back!L2!Ranks,
                  mem : [BackLine -> [Offset -> Byte]]]
    BY <2>4
  <2>6. QED
    BY <2>5 DEF Back!TypeOK, BackSteady
<1>7. QED
  BY <1>1, <1>3, <1>4, <1>5, <1>6 DEF F

-----------------------------------------------------------------------------
(* Part 6.  What holds of all three.                                       *)

(* The theorems of the hierarchies.                                        *)

\* The design in use has what its hierarchy keeps.
HierarchyInv ==
    \/ model = "plain" /\ PlainFine(hier) /\ PlainReply
    \/ model = "backcache" /\ BackSteady
    \/ model = "smtcache" /\ SmtFine(hier) /\ domain \in {"High", "Low"}

\* The copies in front of the L2, and the lines that there are.
Fronts ==
    CASE model = "plain" -> Front1(hier)
      [] model = "backcache" -> FrontB(hier)
      [] model = "smtcache" -> FrontS(hier.slices)
LinesHere == IF model = "backcache" THEN BackLine ELSE Line

\* What the properties of MCHierarchies say of such a state.
HierarchyFacts ==
    /\ HierarchyTypeOK
    /\ Copies = Fronts
    /\ Inclusion
    /\ CopiesAgree
    /\ FlushIsNotReentered
    /\ View = [l \in LinesHere |-> Reads(Fronts, hier.l2, hier.mem, l)]

\* The invariant of each design implies what MCHierarchies states of all
\* three.
LEMMA HierarchyKnows == HierarchyInv => HierarchyFacts
<1>1. CASE model = "plain" /\ PlainFine(hier) /\ PlainReply
  BY <1>1, PlainFacts
  DEF HierarchyFacts, HierarchyTypeOK, Copies, Fronts, Inclusion, CopiesAgree,
      FlushIsNotReentered, View, LinesHere
<1>2. CASE model = "backcache" /\ BackSteady
  BY <1>2, BackFacts
  DEF HierarchyFacts, HierarchyTypeOK, Copies, Fronts, Inclusion, CopiesAgree,
      FlushIsNotReentered, View, LinesHere
<1>3. CASE model = "smtcache" /\ SmtFine(hier) /\ domain \in {"High", "Low"}
  BY <1>3, SmtFacts
  DEF HierarchyFacts, HierarchyTypeOK, Copies, Fronts, Inclusion, CopiesAgree,
      FlushIsNotReentered, View, LinesHere
<1>4. QED
  BY <1>1, <1>2, <1>3 DEF HierarchyInv

\* The chosen design starts with its invariant.
LEMMA HierarchyStarts == HierarchyInit => HierarchyInv
<1>1. CASE model = "plain" /\ Plain!Init
  BY <1>1, PlainStart DEF HierarchyInv
<1>2. CASE model = "backcache" /\ Back!Init
  BY <1>2, BackStart DEF HierarchyInv
<1>3. CASE model = "smtcache" /\ Smt!Init
  BY <1>3, SmtStart DEF HierarchyInv
<1>4. QED
  BY <1>1, <1>2, <1>3 DEF HierarchyInit

\* A line is read as before, or it was stored to, or the L2 has given it up
\* while its copy in front was dirty; and if clean it stays so, or it was stored
\* to.
LineOutcome(y) ==
    LET then == Reads(Fronts', hier'.l2, hier'.mem, y)
        now == Reads(Fronts, hier.l2, hier.mem, y)
    IN  /\ then # now =>
             \/ \E o \in Offset, v \in Byte :
                   StoreTo(y, o, v) /\ then = [now EXCEPT ![o] = v]
             \/ /\ \E n \in Fronts : n.line = y /\ n.dirty
                /\ \A n \in Fronts' : n.line # y
                /\ ~L2!Cached(hier'.l2, y)
        /\ \/ StaysClean(Fronts, hier, Fronts', hier', y)
           \/ \E o \in Offset, v \in Byte : StoreTo(y, o, v)

\* Each design keeps its invariant, and does to every line what is allowed.
LEMMA HierarchySteps ==
    ASSUME HierarchyInv, HierarchyNext
    PROVE  HierarchyInv' /\ model' = model /\ \A y \in LinesHere : LineOutcome(y)
<1>0. model' = model
  BY DEF HierarchyNext
<1>1. CASE model = "plain"
  <2>1. PlainFine(hier) /\ PlainReply /\ Plain!Next
    BY <1>1 DEF HierarchyInv, HierarchyNext
  <2>2. PlainFine(hier') /\ PlainReply' /\ \A y \in Line : PlainOutcome(y)
    BY <2>1, PlainStep
  <2>3. Fronts = Front1(hier) /\ Fronts' = Front1(hier') /\ LinesHere = Line
        /\ \A y, o, v : StoreTo(y, o, v) = Plain!Store(y, o, v)
    BY <1>0, <1>1 DEF Fronts, LinesHere, StoreTo
  <2>4. \A y \in LinesHere : LineOutcome(y)
    BY <2>2, <2>3 DEF LineOutcome, PlainOutcome
  <2>5. QED
    BY <1>0, <1>1, <2>2, <2>4 DEF HierarchyInv
<1>2. CASE model = "backcache"
  <2>1. BackSteady /\ Back!Next
    BY <1>2 DEF HierarchyInv, HierarchyNext
  <2>2. BackSteady' /\ \A y \in BackLine : BackOutcome(y)
    BY <2>1, BackStep
  <2>3. Fronts = FrontB(hier) /\ Fronts' = FrontB(hier') /\ LinesHere = BackLine
        /\ \A y, o, v : StoreTo(y, o, v) = Back!Store(y, o, v)
    BY <1>0, <1>2 DEF Fronts, LinesHere, StoreTo
  <2>4. \A y \in LinesHere : LineOutcome(y)
    BY <2>2, <2>3 DEF LineOutcome, BackOutcome
  <2>5. QED
    BY <1>0, <1>2, <2>2, <2>4 DEF HierarchyInv
<1>3. CASE model = "smtcache"
  <2>1. SmtFine(hier) /\ domain \in {"High", "Low"} /\ Smt!Next
    BY <1>3 DEF HierarchyInv, HierarchyNext
  <2>2. SmtFine(hier') /\ domain' \in {"High", "Low"} /\ \A y \in Line : SmtOutcome(y)
    BY <2>1, SmtStep
  <2>3. Fronts = FrontS(hier.slices) /\ Fronts' = FrontS(hier'.slices) /\ LinesHere = Line
        /\ \A y, o, v : StoreTo(y, o, v) = Smt!Store(y, o, v)
    BY <1>0, <1>3 DEF Fronts, LinesHere, StoreTo
  <2>4. \A y \in LinesHere : LineOutcome(y)
    BY <2>2, <2>3 DEF LineOutcome, SmtOutcome
  <2>5. QED
    BY <1>0, <1>3, <2>2, <2>4 DEF HierarchyInv
<1>4. QED
  BY <1>1, <1>2, <1>3 DEF HierarchyInv

\* So does a step that changes nothing.
LEMMA HierarchyStutters ==
    ASSUME HierarchyInv, UNCHANGED hierarchyVars
    PROVE  HierarchyInv'
BY DEF hierarchyVars, HierarchyInv, PlainReply, BackSteady

\* The invariant holds throughout.
LEMMA HierarchyKeeps == HierarchySpec => []HierarchyInv
<1>1. HierarchyInit => HierarchyInv
  BY HierarchyStarts
<1>2. HierarchyInv /\ [HierarchyNext]_hierarchyVars => HierarchyInv'
  BY HierarchySteps, HierarchyStutters
<1>3. QED
  BY <1>1, <1>2, PTL DEF HierarchySpec

\* For every geometry of the caches and every policy of the BackCache, the state
\* of the hierarchy is well formed: RiscV32IntegerMachine's three wirings.
THEOREM HierarchyTypes == HierarchySpec => []HierarchyTypeOK
<1>1. HierarchyInv => HierarchyTypeOK
  BY HierarchyKnows DEF HierarchyFacts
<1>2. QED
  BY <1>1, HierarchyKeeps, PTL

\* For every geometry, the hierarchy is inclusive: what invalidate_line and the
\* write-backs of victims do to each other leaves no line in front of the L2
\* that the L2 has not got.
THEOREM HierarchyIsInclusive == HierarchySpec => []Inclusion
<1>1. HierarchyInv => Inclusion
  BY HierarchyKnows DEF HierarchyFacts
<1>2. QED
  BY <1>1, HierarchyKeeps, PTL

\* For every geometry, what the layers know of each other's copies is true.
THEOREM HierarchyCopiesAgree == HierarchySpec => []CopiesAgree
<1>1. HierarchyInv => CopiesAgree
  BY HierarchyKnows DEF HierarchyFacts
<1>2. QED
  BY <1>1, HierarchyKeeps, PTL

\* For every geometry, no L2 eviction reaches the SMTCache while flush_slice has
\* its slices borrowed.
THEOREM HierarchyNeverReenters == HierarchySpec => []FlushIsNotReentered
<1>1. HierarchyInv => FlushIsNotReentered
  BY HierarchyKnows DEF HierarchyFacts
<1>2. QED
  BY <1>1, HierarchyKeeps, PTL

\* What a step does to the line l.
LossOnly(l) ==
    View'[l] # View[l] =>
        \/ \E o \in Offset, v \in Byte :
                StoreTo(l, o, v) /\ View'[l] = [View[l] EXCEPT ![o] = v]
        \/ BackInvalidatedDirty(l)

LossesOnly == \A l \in DOMAIN View : LossOnly(l)

\* If every line has one of the outcomes allowed, no call loses anything but
\* what the L2 evicts under a newer copy.
LEMMA HierarchyLoses ==
    ASSUME HierarchyFacts, HierarchyFacts', model' = model,
           \A y \in LinesHere : LineOutcome(y)
    PROVE  LossesOnly
<1>1. SUFFICES ASSUME NEW l \in DOMAIN View, View'[l] # View[l]
               PROVE  \/ \E o \in Offset, v \in Byte :
                            StoreTo(l, o, v) /\ View'[l] = [View[l] EXCEPT ![o] = v]
                      \/ BackInvalidatedDirty(l)
  BY DEF LossOnly, LossesOnly
<1>2. /\ l \in LinesHere /\ LinesHere' = LinesHere
      /\ View[l] = Reads(Fronts, hier.l2, hier.mem, l)
      /\ View'[l] = Reads(Fronts', hier'.l2, hier'.mem, l)
      /\ Copies = Fronts /\ Copies' = Fronts'
  <2>1. /\ View = [y \in LinesHere |-> Reads(Fronts, hier.l2, hier.mem, y)]
        /\ View' = [y \in LinesHere' |-> Reads(Fronts', hier'.l2, hier'.mem, y)]
        /\ Copies = Fronts /\ Copies' = Fronts'
    BY DEF HierarchyFacts
  <2>2. LinesHere' = LinesHere
    BY DEF LinesHere
  <2>3. QED
    BY <2>1, <2>2
<1>3. LineOutcome(l)
  BY <1>2
<1>4. QED
  BY <1>1, <1>2, <1>3 DEF LineOutcome, BackInvalidatedDirty, DirtyInFront

\* So no step of the hierarchy does.
LEMMA HierarchyStepLoses ==
    ASSUME HierarchyInv, HierarchyFacts, HierarchyFacts', HierarchyNext
    PROVE  LossesOnly
BY HierarchySteps, HierarchyLoses

\* For every geometry, a call changes no line but the one it stores to, with one
\* exception: what the L2 evicts while a newer copy of it is in front.
THEOREM OnlyBackInvalidation == HierarchySpec => OnlyBackInvalidationLoses
<1>1. HierarchyInv /\ HierarchyFacts /\ HierarchyFacts' /\ [HierarchyNext]_hierarchyVars
        => [LossesOnly]_hierarchyVars
  BY HierarchyStepLoses
<1>2. HierarchySpec => []HierarchyFacts
  BY HierarchyKeeps, HierarchyKnows, PTL
<1>3. HierarchySpec => [][LossesOnly]_hierarchyVars
  BY <1>1, <1>2, HierarchyKeeps, PTL DEF HierarchySpec
<1>4. QED
  BY <1>3 DEF LossesOnly, OnlyBackInvalidationLoses, LossOnly

\* What a step does to the line l when it is clean.
StaysCleanOnly(l) ==
    Clean(l) =>
        \/ Clean(l)' /\ hier'.mem[l] = hier.mem[l]
        \/ \E o \in Offset, v \in Byte : StoreTo(l, o, v)

AllStayClean == \A l \in DOMAIN View : StaysCleanOnly(l)

\* If every line has one of the outcomes allowed, a clean one is written to the
\* memory by no call but a store to it.
LEMMA HierarchyCleans ==
    ASSUME HierarchyFacts, HierarchyFacts', model' = model,
           \A y \in LinesHere : LineOutcome(y)
    PROVE  AllStayClean
<1>1. SUFFICES ASSUME NEW l \in DOMAIN View
               PROVE  StaysCleanOnly(l)
  BY DEF AllStayClean
<1>2. DOMAIN View = LinesHere
  BY DEF HierarchyFacts
<1>3. LineOutcome(l)
  BY <1>1, <1>2
<1>4. /\ Clean(l) <=> CleanIn(Fronts, hier.l2, l)
      /\ Clean(l)' <=> CleanIn(Fronts', hier'.l2, l)
  BY DEF HierarchyFacts, Clean, DirtyInFront, CleanIn
<1>5. QED
  BY <1>3, <1>4 DEF LineOutcome, StaysClean, StaysCleanOnly

\* So it is by no step of the hierarchy.
LEMMA HierarchyStepCleans ==
    ASSUME HierarchyInv, HierarchyFacts, HierarchyFacts', HierarchyNext
    PROVE  AllStayClean
BY HierarchySteps, HierarchyCleans

\* For every geometry, a line that is dirty nowhere stays so, and the memory is
\* not written at it, until it is stored to: what the experiments fetch past the
\* caches (fetch_instruction_u32) is what was loaded.
THEOREM CleanLinesStayClean == HierarchySpec => CleanUntilStored
<1>1. HierarchyInv /\ HierarchyFacts /\ HierarchyFacts' /\ [HierarchyNext]_hierarchyVars
        => [AllStayClean]_hierarchyVars
  BY HierarchyStepCleans
<1>2. HierarchySpec => []HierarchyFacts
  BY HierarchyKeeps, HierarchyKnows, PTL
<1>3. HierarchySpec => [][AllStayClean]_hierarchyVars
  BY <1>1, <1>2, HierarchyKeeps, PTL DEF HierarchySpec
<1>4. QED
  BY <1>3 DEF AllStayClean, CleanUntilStored, StaysCleanOnly
=============================================================================
