-------------------------- MODULE ExperimentProofs --------------------------
(***************************************************************************)
(* What the driver of experiment.rs guarantees whatever the two programs   *)
(* do, for every number of sets and trials, every set of register files,   *)
(* of times and of cache accesses: IInv, and what follows from it.  Then,  *)
(* of the driver with l1d-attacker and l1d-victim, for every number of     *)
(* sets: it is the driver with two programs; each of them works off its    *)
(* turns of the script, the attacker's probe measures every set, and the   *)
(* table of its predictions sums up to what the counters say.              *)
(***************************************************************************)
EXTENDS L1dExperiment, TLAPS, FiniteSetTheorems, SequenceTheorems,
        WellFoundedInduction

USE DEF HALT, PRIME, PROBE, VICTIM_ACCESS, WARM_VICTIM, EVICT_TARGET, NoOne,
        Programs, Bits, Sets, Phases

(***************************************************************************)
(* The inductive invariant.                                                *)
(***************************************************************************)

(* The trial that is under way is one of those there are. *)
TrialInRange == trial <= NumTrials /\ (stage = "trial" => trial >= 1)

(* The list is of the turn that begin_phase announced; only between the    *)
(* start of a trial and its first turn is it still that of the last trial. *)
ListIsOfThisTurn ==
  \A n \in 1 .. Len(Probe) :
    /\ Probe[n].phase = state.phase
    /\ \/ Probe[n].trial = trial
       \/ stage = "trial" /\ running = NoOne /\ todo # <<>>

(* A program that has exited is at its ebreak, wherever its registers are. *)
ExitedAtEbreak ==
  \A i \in Programs :
    contexts[i].exited /\ contexts[i].exitCode = 0 =>
      /\ contexts[i].registers \in EbreakRegs
      /\ running = i => machine.registers = contexts[i].registers

IInv ==
  /\ TypeOK /\ TrialInRange
  /\ RunsAsItself /\ ListIsOfThisTurn /\ TraceIsThisTrials
  /\ ScoresAddUp /\ ExitedAtEbreak

-----------------------------------------------------------------------------
(* The number of trials, the set a trial measures, its secrets and turns.  *)

\* The quotient of a number below n * b by b is one of the first n.
LEMMA DivBelow ==
  ASSUME NEW a \in Nat, NEW b \in Nat \ {0}, NEW n \in Nat, a < n * b
  PROVE  a \div b \in 0 .. n - 1
<1> DEFINE q == a \div b
<1>1. q \in Nat /\ b * q <= a
  BY Z3
<1>2. ASSUME q >= n PROVE FALSE
  <2>1. PICK k \in Nat : q = n + k
    <3>1. q - n \in Nat /\ q = n + (q - n)
      BY <1>1, <1>2
    <3> QED BY <3>1
  <2>2. b * q = n * b + b * k
    BY <2>1, <1>1, Z3
  <2>3. b * k >= 0
    BY <2>1, Z3
  <2>4. n * b \in Nat /\ b * k \in Nat /\ b * q \in Nat
    BY <1>1, <2>1
  <2> QED BY <1>1, <2>2, <2>3, <2>4
<1> QED BY <1>1, <1>2

\* Every target set of an Evict+Time run gets at least one trial.
LEMMA PerSetPositive ==
  ASSUME config \in Config PROVE PerSet \in Nat \ {0}
<1> DEFINE m == IF config.trials > SETS THEN config.trials ELSE SETS
<1>1. SETS \in Nat \ {0} /\ config.trials \in Nat /\ m \in Nat /\ m >= SETS
  BY ExperimentAssumption DEF Config
<1>2. m \div SETS \in Nat \ {0}
  BY <1>1, Z3
<1> QED BY <1>2 DEF PerSet

\* The target of every trial is a set: the division of the trials among the
\* sets never runs past the last one.
LEMMA TargetOfIsSet ==
  ASSUME config \in Config, NEW t \in Nat \ {0}, t <= NumTrials
  PROVE  TargetOf(t) \in Sets
<1>1. CASE config.attack = "EvictTime"
  <2>1. PerSet \in Nat \ {0} /\ SETS \in Nat /\ t - 1 \in Nat /\ t <= SETS * PerSet
    BY <1>1, PerSetPositive, ExperimentAssumption DEF NumTrials
  <2>2. SETS * PerSet \in Nat
    BY <2>1
  <2>3. t - 1 < SETS * PerSet
    BY <2>1, <2>2
  <2> QED BY <1>1, <2>1, <2>3, DivBelow DEF TargetOf
<1>2. CASE config.attack # "EvictTime"
  BY <1>2 DEF TargetOf, Config
<1> QED BY <1>1, <1>2

\* A run has a number of trials.
LEMMA NumTrialsType == ASSUME config \in Config PROVE NumTrials \in Nat
  BY PerSetPositive, ExperimentAssumption DEF NumTrials, Config

\* What a trial may draw is a secret.
LEMMA SecretsType ==
  ASSUME config \in Config, NEW t \in Nat \ {0}, t <= NumTrials
  PROVE  Secrets(t) \subseteq Secret
<1>1. TargetOf(t) \in Sets /\ config.target \in Sets /\ config.decoy \in Sets
  BY TargetOfIsSet DEF Config
<1> QED BY <1>1 DEF Secrets, MeasuredSets, Secret

\* The turns of a trial, of any attack, are turns, and there are some.
LEMMA ScriptType == Script \in Seq(Turns) /\ Script # <<>>
<1>1. \A p \in Phases, i \in Programs : Turn(p, i) \in Turns
  BY DEF Turn, Turns
<1>2. /\ Turn(PRIME, 0) \in Turns /\ Turn(PROBE, 0) \in Turns
      /\ Turn(WARM_VICTIM, 1) \in Turns /\ Turn(EVICT_TARGET, 0) \in Turns
      /\ Turn(VICTIM_ACCESS, 1) \in Turns
  BY <1>1
<1>3. VictimTurn \in Seq(Turns)
  BY <1>2 DEF VictimTurn
<1>4. CASE config.attack = "EvictTime"
  <2>1. <<Turn(WARM_VICTIM, 1), Turn(EVICT_TARGET, 0)>> \in Seq(Turns)
    BY <1>2
  <2>2. /\ Script \in Seq(Turns)
        /\ Len(Script) = 2 + Len(VictimTurn) /\ Len(VictimTurn) \in Nat
    BY <1>3, <1>4, <2>1 DEF Script
  <2> QED BY <2>2
<1>5. CASE config.attack # "EvictTime"
  <2>1. <<Turn(PRIME, 0)>> \in Seq(Turns) /\ <<Turn(PROBE, 0)>> \in Seq(Turns)
    BY <1>2
  <2>2. /\ Script \in Seq(Turns)
        /\ Len(Script) = 2 + Len(VictimTurn) /\ Len(VictimTurn) \in Nat
    BY <1>3, <1>5, <2>1 DEF Script
  <2> QED BY <2>2
<1> QED BY <1>4, <1>5

\* So are the two turns in which the programs are asked to halt.
LEMMA HaltTurnsType ==
  HaltTurns \in Seq(Turns) /\ HaltTurns # <<>>
  BY DEF HaltTurns, Turn, Turns

-----------------------------------------------------------------------------
(* The trace and the list of submitted times.                              *)

\* What is counted in a trace is a number.
LEMMA InterferenceType == ASSUME Len(trace) \in Nat PROVE Interference \in Nat
<1>1. IsFiniteSet(1 .. Len(trace))
  BY FS_Interval
<1>2. IsFiniteSet({n \in 1 .. Len(trace) : Counts(trace[n])})
  BY <1>1, FS_Subset
<1> QED BY <1>2, FS_CardinalityType DEF Interference

\* A function on 1 .. n is a sequence.
LEMMA SeqFromFunction ==
  ASSUME NEW S, NEW n \in Nat, NEW f \in [1 .. n -> S]
  PROVE  f \in Seq(S) /\ Len(f) = n
  OBVIOUS

(* An element of a concatenation is one of either part. *)
LEMMA ConcatElements ==
  ASSUME NEW S, NEW s \in Seq(S), NEW t \in Seq(S), NEW all, all = s \o t
  PROVE  /\ all \in Seq(S)
         /\ \A n \in 1 .. Len(all) : \/ \E m \in 1 .. Len(s) : all[n] = s[m]
                                     \/ \E m \in 1 .. Len(t) : all[n] = t[m]
<1>1. Len(s) \in Nat /\ Len(t) \in Nat
  OBVIOUS
<1>2. all \in Seq(S) /\ Len(all) = Len(s) + Len(t)
  OBVIOUS
<1>3. ASSUME NEW n \in 1 .. Len(s) + Len(t)
      PROVE  \/ \E m \in 1 .. Len(s) : all[n] = s[m]
             \/ \E m \in 1 .. Len(t) : all[n] = t[m]
  <2>1. CASE n <= Len(s)
    <3>1. n \in 1 .. Len(s) /\ all[n] = s[n]
      BY <1>1, <1>3, <2>1, ConcatProperties
    <3> QED BY <3>1
  <2>2. CASE n > Len(s)
    <3>1. n - Len(s) \in 1 .. Len(t) /\ all[n] = t[n - Len(s)]
      BY <1>1, <1>3, <2>2, ConcatProperties
    <3> QED BY <3>1
  <2> QED BY <1>1, <1>3, <2>1, <2>2
<1> QED BY <1>2, <1>3

(* What an event of this step looks like. *)
LEMMA RecordedType ==
  ASSUME TypeOK, RunsAsItself, running # NoOne, NEW a \in Accesses
  PROVE  /\ Recorded(a) \in Event /\ Recorded(a).trial = trial
         /\ Recorded(a).pid = Recorded(a).by + 1
<1>1. running \in Programs /\ trial \in Nat
  BY DEF TypeOK
<1>2. machine.requester.pid = running + 1
  BY DEF RunsAsItself, Identity
<1>3. a.evicted \in 0 .. 2 /\ a.source \in {"L1D", "BackCache", "Lower"}
  BY ExperimentAssumption
<1> QED BY <1>1, <1>2, <1>3 DEF Recorded, Event

(* The trace after a step of a program is still one of this trial.         *)
TraceKept ==
  /\ trace' \in Seq(Event)
  /\ stage = "trial" => \A n \in 1 .. Len(trace') :
       trace'[n].trial = trial /\ trace'[n].pid = trace'[n].by + 1

(* Recording keeps the trace one of this trial. *)
LEMMA RecordEffect ==
  ASSUME TypeOK, RunsAsItself, TraceIsThisTrials, running # NoOne,
         NEW as \in Seq(Accesses), Record(as)
  PROVE  TraceKept
<1> DEFINE new == [n \in 1 .. Len(as) |-> Recorded(as[n])]
           Ok(e) == e.trial = trial /\ e.pid = e.by + 1
<1>1. Len(as) \in Nat /\ \A n \in 1 .. Len(as) : as[n] \in Accesses
  BY ElementOfSeq, LenProperties
<1>2. \A n \in 1 .. Len(as) : Recorded(as[n]) \in Event /\ Ok(Recorded(as[n]))
  BY <1>1, RecordedType
<1>3. trace \in Seq(Event) /\ trace' = trace \o new
  BY DEF Record, TypeOK
<1>4. stage = "trial" => \A n \in 1 .. Len(trace) : Ok(trace[n])
  BY DEF TraceIsThisTrials
<1> HIDE DEF Ok
<1>5. new \in [1 .. Len(as) -> Event] /\ \A n \in 1 .. Len(as) : Ok(new[n])
  BY <1>1, <1>2
<1> HIDE DEF new
<1>6. new \in Seq(Event) /\ Len(new) = Len(as)
  BY <1>1, <1>5, SeqFromFunction
<1>7. PICK all : all = trace \o new
  OBVIOUS
<1>8. /\ all \in Seq(Event)
      /\ \A n \in 1 .. Len(all) : \/ \E m \in 1 .. Len(trace) : all[n] = trace[m]
                                  \/ \E m \in 1 .. Len(new) : all[n] = new[m]
  <2>1. trace \in Seq(Event) /\ new \in Seq(Event)
    BY <1>3, <1>6
  <2> QED BY ONLY <1>7, <2>1, ConcatElements, SMT
<1>9. ASSUME stage = "trial", NEW n \in 1 .. Len(all) PROVE Ok(all[n])
  <2>1. CASE \E m \in 1 .. Len(trace) : all[n] = trace[m]
    BY <1>4, <1>9, <2>1
  <2>2. CASE \E m \in 1 .. Len(new) : all[n] = new[m]
    BY <1>5, <1>6, <2>2
  <2> QED BY <1>8, <2>1, <2>2
<1> QED BY <1>3, <1>7, <1>8, <1>9 DEF Ok, TraceKept

(* After a step of a program the announced phase is what it was, and the   *)
(* list is still one of this turn.                                         *)
ListKept(list) ==
  /\ list \in Seq(Entry)
  /\ \A n \in 1 .. Len(list) : list[n].phase = state.phase /\ list[n].trial = trial

StateKept ==
  /\ state' \in States /\ state'.phase = state.phase
  /\ ListKept(state'.submitted)

\* The list of a turn that is running is of this turn.
LEMMA ListIsKept ==
  ASSUME TypeOK, ListIsOfThisTurn, running # NoOne PROVE ListKept(Probe)
  BY DEF TypeOK, States, ListIsOfThisTurn, ListKept, Probe

\* A time submitted now is an entry of this turn.
LEMMA MeasuredType ==
  ASSUME TypeOK, NEW t \in Times, NEW yes \in BOOLEAN
  PROVE  /\ Measured(t, yes) \in Entry
         /\ Measured(t, yes).phase = state.phase /\ Measured(t, yes).trial = trial
<1>1. trial \in Nat /\ state.phase \in Phases
  BY DEF TypeOK, States
<1> QED BY <1>1 DEF Measured, Entry

(* A list of entries of this turn is one of this turn. *)
LEMMA EntriesAreKept ==
  ASSUME NEW size \in Nat, NEW f \in [1 .. size -> Entry],
         \A n \in 1 .. size : f[n].phase = state.phase /\ f[n].trial = trial
  PROVE  ListKept(f)
  BY SeqFromFunction DEF ListKept

\* Replacing the list by one of this turn keeps the shared state well formed.
LEMMA SubmittedKept ==
  ASSUME TypeOK, NEW list, ListKept(list),
         state' = [state EXCEPT !.submitted = list]
  PROVE  StateKept
  BY DEF TypeOK, States, StateKept, ListKept

\* exp_submit_times leaves a list of this turn.
LEMMA ReplacedKept ==
  ASSUME TypeOK, NEW ts \in Seq(Times), state' = Replaced(ts)
  PROVE  StateKept
<1> DEFINE f == [n \in 1 .. Len(ts) |-> Measured(ts[n], TRUE)]
<1>1. Len(ts) \in Nat /\ \A n \in 1 .. Len(ts) : ts[n] \in Times
  BY ElementOfSeq, LenProperties
<1>2. ListKept(f)
  BY <1>1, MeasuredType, EntriesAreKept
<1> QED BY <1>2, SubmittedKept DEF Replaced

\* So does exp_submit_scalar, whatever the index: the gap is filled with
\* zeros.
LEMMA ScalarKept ==
  ASSUME TypeOK, ListKept(Probe), NEW index \in Nat, NEW t \in Times, NEW r,
         SubmitScalar(index, t, r)
  PROVE  StateKept
<1> DEFINE size == IF Len(Probe) <= index THEN index + 1 ELSE Len(Probe)
           Kept(n) == IF n <= Len(Probe) THEN Probe[n] ELSE Measured(0, FALSE)
           f == [n \in 1 .. size |-> IF n = index + 1 THEN Measured(t, TRUE) ELSE Kept(n)]
<1>1. Len(Probe) \in Nat
  BY LenProperties DEF ListKept
<1>2. size \in Nat
  BY <1>1
<1>3. 0 \in Times
  BY ExperimentAssumption
<1>4. ASSUME NEW n \in 1 .. size
      PROVE  f[n] \in Entry /\ f[n].phase = state.phase /\ f[n].trial = trial
  <2>1. CASE n = index + 1
    BY <2>1, MeasuredType
  <2>2. CASE n # index + 1 /\ n <= Len(Probe)
    <3>1. f[n] = Probe[n] /\ n \in 1 .. Len(Probe)
      BY <1>1, <1>4, <2>2
    <3> QED BY <3>1, ElementOfSeq DEF ListKept
  <2>3. CASE n # index + 1 /\ ~(n <= Len(Probe))
    BY <1>3, <2>3, MeasuredType
  <2> QED BY <2>1, <2>2, <2>3
<1>5. ListKept(f)
  <2> HIDE DEF size, Kept
  <2> QED BY <1>2, <1>4, EntriesAreKept
<1>6. state' = [state EXCEPT !.submitted = f]
  BY DEF SubmitScalar, Probe
<1> HIDE DEF f
<1> QED BY <1>5, <1>6, SubmittedKept

\* exp_done leaves the list alone.
LEMMA DoneKept ==
  ASSUME TypeOK, ListKept(Probe), state' = [state EXCEPT !.done = TRUE]
  PROVE  StateKept
  BY DEF TypeOK, States, StateKept, ListKept, Probe

\* So does every step that leaves the shared state alone.
LEMMA UnchangedKept ==
  ASSUME TypeOK, ListKept(Probe), state' = state PROVE StateKept
  BY DEF TypeOK, StateKept, Probe

\* A step that adds no event keeps the trace to this trial.
LEMMA TraceUnchanged ==
  ASSUME TypeOK, TraceIsThisTrials, trace' = trace PROVE TraceKept
  BY DEF TypeOK, TraceIsThisTrials, TraceKept

-----------------------------------------------------------------------------
(* Steps of the programs: one that goes on, and one that halts.            *)

\* What is computed from the configuration alone does not change.
LEMMA SameConfig ==
  ASSUME config' = config
  PROVE  /\ NumTrials' = NumTrials
         /\ \A i \in Programs : Identity(i)' = Identity(i)
  BY DEF NumTrials, PerSet, Identity

\* A step after which the program goes on keeps the invariant.
LEMMA GoingOn ==
  ASSUME IInv, Runs, NEW r \in Regs, GoesOnAt(r), UnchangedByStep,
         StateKept, TraceKept
  PROVE  IInv'
<1>1. /\ config' = config /\ stage' = stage /\ trial' = trial /\ secret' = secret
      /\ summary' = summary /\ todo' = todo /\ running' = running
      /\ contexts' = contexts
  BY DEF UnchangedByStep, UnchangedByPrograms
<1>2. /\ machine' \in Machines /\ machine'.registers = r
      /\ machine'.segment = machine.segment
      /\ machine'.requester = machine.requester
  BY DEF GoesOnAt, IInv, TypeOK, Machines
<1>3. TypeOK'
  BY <1>1, <1>2 DEF IInv, TypeOK, StateKept, TraceKept
<1>4. TrialInRange'
  BY <1>1, SameConfig DEF IInv, TrialInRange
<1>5. RunsAsItself'
  <2>1. running \in Programs /\ RunsAsItself /\ state'.phase = state.phase
    BY DEF IInv, TypeOK, Runs, Steps, StateKept
  <2> QED BY <1>1, <1>2, <2>1, SameConfig DEF RunsAsItself
<1>6. ListIsOfThisTurn'
  BY <1>1 DEF StateKept, ListKept, ListIsOfThisTurn, Probe
<1>7. TraceIsThisTrials'
  BY <1>1 DEF TraceKept, TraceIsThisTrials
<1>8. ScoresAddUp'
  BY <1>1 DEF IInv, ScoresAddUp
<1>9. ExitedAtEbreak'
  BY <1>1 DEF IInv, ExitedAtEbreak, Runs
<1> QED BY <1>3, <1>4, <1>5, <1>6, <1>7, <1>8, <1>9 DEF IInv

(* Leaving a turn, halted or not, with the registers saved. *)
LEMMA Leaving ==
  ASSUME IInv, running # NoOne, NEW c \in Contexts, LeaveTurn(c),
         c.exited /\ c.exitCode = 0 => c.registers \in EbreakRegs,
         machine' \in Machines, UnchangedByPrograms, StateKept, TraceKept
  PROVE  IInv'
<1>1. /\ config' = config /\ stage' = stage /\ trial' = trial /\ secret' = secret
      /\ summary' = summary /\ running' = NoOne
  BY DEF UnchangedByPrograms, LeaveTurn
<1>2. running \in Programs /\ todo \in Seq(Turns) /\ todo # <<>>
  BY DEF IInv, TypeOK, RunsAsItself
<1>3. todo' \in Seq(Turns)
  BY <1>2, HeadTailProperties DEF LeaveTurn
<1>4. /\ contexts' \in [Programs -> Contexts] /\ contexts'[running] = c
      /\ \A i \in Programs : i # running => contexts'[i] = contexts[i]
  BY <1>2 DEF LeaveTurn, IInv, TypeOK
<1>5. TypeOK'
  BY <1>1, <1>3, <1>4 DEF IInv, TypeOK, StateKept, TraceKept
<1>6. TrialInRange'
  BY <1>1, SameConfig DEF IInv, TrialInRange
<1>7. RunsAsItself'
  BY <1>1 DEF RunsAsItself
<1>8. ListIsOfThisTurn'
  BY <1>1 DEF StateKept, ListKept, ListIsOfThisTurn, Probe
<1>9. TraceIsThisTrials'
  BY <1>1 DEF TraceKept, TraceIsThisTrials
<1>10. ScoresAddUp'
  BY <1>1 DEF IInv, ScoresAddUp
<1>11. ExitedAtEbreak'
  BY <1>1, <1>4 DEF IInv, ExitedAtEbreak
<1> QED BY <1>5, <1>6, <1>7, <1>8, <1>9, <1>10, <1>11 DEF IInv

\* So does one in which the program halts, at its ebreak or by a fault.
LEMMA Halting ==
  ASSUME IInv, running # NoOne, NEW r \in Regs, NEW code \in {0, -11},
         code = 0 => r \in EbreakRegs,
         LeaveHalted(code, r), UnchangedByPrograms, StateKept, TraceKept
  PROVE  IInv'
<1>1. machine' \in Machines
  BY DEF LeaveHalted, IInv, TypeOK, Machines
<1> QED BY <1>1, Leaving DEF LeaveHalted, Contexts

\* Every step of a program keeps the invariant.
LEMMA ProgramStepKeeps == IInv /\ ProgramStep => IInv'
<1> SUFFICES ASSUME IInv, ProgramStep PROVE IInv'
  OBVIOUS
<1>0. /\ TypeOK /\ RunsAsItself /\ TraceIsThisTrials /\ ListIsOfThisTurn
      /\ machine.registers \in Regs
  BY DEF IInv, TypeOK, Machines
<1>1. ASSUME NEW r \in Regs, NEW as \in Seq(Accesses), Compute(as, r) PROVE IInv'
  <2>1. Runs /\ running # NoOne /\ Record(as) /\ GoesOnAt(r)
    BY <1>1 DEF Compute, Runs, Steps
  <2>2. StateKept
    BY <1>0, <1>1, <2>1, ListIsKept, UnchangedKept DEF Compute
  <2> QED BY <1>0, <1>1, <2>1, <2>2, RecordEffect, GoingOn DEF Compute
<1>2. ASSUME NEW r \in Regs, NEW index \in Nat, NEW t \in Times,
             SubmitScalar(index, t, r)
      PROVE  IInv'
  <2>1. Runs /\ running # NoOne /\ GoesOnAt(r) /\ trace' = trace /\ UnchangedByStep
    BY <1>2 DEF SubmitScalar, Runs, Steps
  <2>2. StateKept
    BY <1>0, <1>2, <2>1, ListIsKept, ScalarKept
  <2> QED BY <1>0, <2>1, <2>2, TraceUnchanged, GoingOn
<1>3. ASSUME NEW r \in Regs, NEW as \in Seq(Accesses), NEW ts \in Seq(Times),
             SubmitVector(as, ts, r)
      PROVE  IInv'
  <2>1. Runs /\ running # NoOne /\ Record(as) /\ GoesOnAt(r) /\ UnchangedByStep
    BY <1>3 DEF SubmitVector, Runs, Steps
  <2>2. StateKept
    BY <1>0, <1>3, ReplacedKept DEF SubmitVector
  <2> QED BY <1>0, <2>1, <2>2, RecordEffect, GoingOn
<1>4. ASSUME NEW r \in Regs, ExpDone(r) PROVE IInv'
  <2>1. Runs /\ running # NoOne /\ GoesOnAt(r) /\ trace' = trace /\ UnchangedByStep
    BY <1>4 DEF ExpDone, Runs, Steps
  <2>2. StateKept
    BY <1>0, <1>4, <2>1, ListIsKept, DoneKept DEF ExpDone
  <2> QED BY <1>0, <2>1, <2>2, TraceUnchanged, GoingOn
<1>5. ASSUME NEW r \in Regs, Fault(r) PROVE IInv'
  <2>1. running # NoOne /\ LeaveHalted(-11, r) /\ state' = state /\ trace' = trace
    BY <1>5 DEF Fault, Runs, Steps
  <2>2. StateKept /\ TraceKept
    BY <1>0, <2>1, ListIsKept, UnchangedKept, TraceUnchanged
  <2> QED BY <1>5, <2>1, <2>2, Halting DEF Fault
<1>6. ASSUME NEW as \in Seq(Accesses), NEW ts \in Seq(Times),
             FaultySubmitVector(as, ts)
      PROVE  IInv'
  <2>1. running # NoOne /\ Record(as) /\ LeaveHalted(-11, machine.registers)
    BY <1>6 DEF FaultySubmitVector, Runs, Steps
  <2>2. StateKept /\ TraceKept
    BY <1>0, <1>6, <2>1, ReplacedKept, RecordEffect DEF FaultySubmitVector
  <2> QED BY <1>0, <1>6, <2>1, <2>2, Halting DEF FaultySubmitVector
<1>7. CASE Ebreak
  <2>1. /\ running # NoOne /\ machine.registers \in EbreakRegs
        /\ LeaveHalted(0, machine.registers) /\ state' = state /\ trace' = trace
    BY <1>7 DEF Ebreak, Steps
  <2>2. StateKept /\ TraceKept
    BY <1>0, <2>1, ListIsKept, UnchangedKept, TraceUnchanged
  <2> QED BY <1>0, <1>7, <2>1, <2>2, Halting DEF Ebreak
<1>8. CASE Unimplemented
  <2>1. /\ stage' = "panicked" /\ running' = NoOne /\ todo' = <<>>
        /\ UNCHANGED <<config, trial, secret, state, contexts, machine, trace, summary>>
        /\ running # NoOne
    BY <1>8 DEF Unimplemented, Runs, Steps
  <2>2. TypeOK' /\ RunsAsItself' /\ TraceIsThisTrials'
    BY <1>0, <2>1 DEF TypeOK, Stages, RunsAsItself, TraceIsThisTrials
  <2>3. TrialInRange' /\ ScoresAddUp' /\ ExitedAtEbreak'
    BY <2>1, SameConfig DEF IInv, TrialInRange, ScoresAddUp, ExitedAtEbreak
  <2>4. ListIsOfThisTurn'
    BY <1>0, <2>1 DEF ListIsOfThisTurn, Probe
  <2> QED BY <2>2, <2>3, <2>4 DEF IInv
<1> QED
  BY <1>1, <1>2, <1>3, <1>4, <1>5, <1>6, <1>7, <1>8 DEF ProgramStep

-----------------------------------------------------------------------------
(* Scoring a trial.                                                        *)

\* One is a bit.
LEMMA OneType == \A b : One(b) \in Bits
  BY DEF One

(* Counting one more in a function, or in a table, also when the argument  *)
(* is outside of it.                                                       *)
LEMMA EntryIncremented ==
  ASSUME NEW S, NEW f \in [S -> Nat], NEW x
  PROVE  [f EXCEPT ![x] = @ + 1] \in [S -> Nat]
<1>1. CASE x \in S
  <2>1. f[x] + 1 \in Nat
    BY <1>1
  <2>2. [f EXCEPT ![x] = f[x] + 1] \in [S -> Nat]
    BY <2>1
  <2> QED BY <2>2
<1>2. CASE x \notin S
  <2>1. \A v : [f EXCEPT ![x] = v] = f
    BY <1>2
  <2>2. [f EXCEPT ![x] = f[x] + 1] = f
    BY <2>1
  <2> QED BY <2>2
<1> QED BY <1>1, <1>2

\* The same for a table of tables.
LEMMA CellIncremented ==
  ASSUME NEW S, NEW T, NEW table \in [S -> [T -> Nat]], NEW x, NEW y
  PROVE  [table EXCEPT ![x][y] = @ + 1] \in [S -> [T -> Nat]]
<1>1. CASE x \notin S
  <2>1. \A v : [table EXCEPT ![x] = v] = table
    BY <1>1
  <2>2. [table EXCEPT ![x] = [table[x] EXCEPT ![y] = @ + 1]] = table
    BY <2>1
  <2> QED BY <2>2
<1>2. CASE x \in S
  <2>1. table[x] \in [T -> Nat]
    BY <1>2
  <2>2. PICK row \in [T -> Nat] : row = [table[x] EXCEPT ![y] = @ + 1]
    BY <2>1, EntryIncremented
  <2>3. [table EXCEPT ![x] = row] \in [S -> [T -> Nat]]
    BY <2>2
  <2>4. [table EXCEPT ![x][y] = @ + 1] = [table EXCEPT ![x] = row]
    BY <2>2
  <2> QED BY <2>3, <2>4
<1> QED BY <1>1, <1>2

(* What a trial adds to the counters that every attack has. *)
LEMMA CountedType ==
  ASSUME TypeOK
  PROVE  /\ Counted \in Summaries
         /\ Counted.trials = summary.trials + 1
         /\ Counted.accesses = summary.accesses + 1
         /\ Counted.correct = summary.correct
         /\ Counted.tp = summary.tp /\ Counted.tn = summary.tn
         /\ Counted.fp = summary.fp /\ Counted.fn = summary.fn
         /\ Counted.binaryJoint = summary.binaryJoint
         /\ Counted.touched = summary.touched
         /\ Counted.untouched = summary.untouched
<1>1. Interference \in Nat
  BY InterferenceType, LenProperties DEF TypeOK
<1>2. summary \in Summaries
  BY DEF TypeOK
<1>3. /\ summary.trials \in Nat /\ summary.accesses \in Nat
      /\ summary.evictions \in Nat
  BY <1>2 DEF Summaries
<1>4. PICK a, b, c \in Nat : /\ a = summary.trials + 1 /\ b = summary.accesses + 1
                             /\ c = summary.evictions + Interference
  BY <1>1, <1>3
<1>5. Counted = [summary EXCEPT !.trials = a, !.accesses = b, !.evictions = c]
  BY <1>4 DEF Counted
<1> QED BY <1>2, <1>4, <1>5 DEF Summaries

\* Counting whether the target was touched changes the timing fields alone.
LEMMA TimedType ==
  ASSUME NEW s \in Summaries, NEW b \in BOOLEAN
  PROVE  /\ Timed(s, b) \in Summaries
         /\ Timed(s, b).trials = s.trials /\ Timed(s, b).accesses = s.accesses
         /\ Timed(s, b).correct = s.correct
         /\ Timed(s, b).tp = s.tp /\ Timed(s, b).tn = s.tn
         /\ Timed(s, b).fp = s.fp /\ Timed(s, b).fn = s.fn
         /\ Timed(s, b).binaryJoint = s.binaryJoint
         /\ Timed(s, b).touched = s.touched + One(b)
         /\ Timed(s, b).untouched = s.untouched + One(~b)
<1>1. /\ One(b) \in Nat /\ One(~b) \in Nat
      /\ s.touched \in Nat /\ s.untouched \in Nat
  BY OneType DEF Summaries
<1>2. PICK x, y \in Nat : x = s.touched + One(b) /\ y = s.untouched + One(~b)
  BY <1>1
<1>3. Timed(s, b) = [s EXCEPT !.touched = x, !.untouched = y]
  BY <1>2 DEF Timed
<1> QED BY <1>2, <1>3 DEF Summaries

(* Every attack's score keeps the tables in agreement. *)
LEMMA PrimeProbeAddsUp ==
  ASSUME IInv, config.attack = "PrimeProbe", summary' = ScorePrimeProbe,
         config' = config
  PROVE  summary' \in Summaries /\ ScoresAddUp'
<1> DEFINE s == Counted
<1>1. /\ s \in Summaries /\ s.trials = summary.trials + 1
      /\ s.accesses = summary.accesses + 1
  BY CountedType DEF IInv
<1>2. summary.accesses = summary.trials
  BY DEF IInv, ScoresAddUp
<1>3. One(Predicted = secret.set) \in Nat
  BY OneType
<1> HIDE DEF s
<1>4. s.correct \in Nat /\ s.multiJoint \in [Sets -> [Sets -> Nat]]
  BY <1>1 DEF Summaries
<1>5. PICK c \in Nat, joint \in [Sets -> [Sets -> Nat]] :
        /\ c = s.correct + One(Predicted = secret.set)
        /\ joint = [s.multiJoint EXCEPT ![secret.set][Predicted] = @ + 1]
  <2>1. s.correct + One(Predicted = secret.set) \in Nat
    BY <1>3, <1>4
  <2> QED BY <1>4, <2>1, CellIncremented
<1>6. summary' = s \/ summary' = [s EXCEPT !.correct = c, !.multiJoint = joint]
  BY <1>5 DEF ScorePrimeProbe, s
<1>7. /\ summary' \in Summaries /\ summary'.trials = s.trials
      /\ summary'.accesses = s.accesses
  BY <1>1, <1>6 DEF Summaries
<1> QED BY <1>1, <1>2, <1>7 DEF ScoresAddUp

\* Scoring an Evict+Time trial keeps the counters in agreement.
LEMMA EvictTimeAddsUp ==
  ASSUME IInv, config.attack = "EvictTime", summary' = ScoreEvictTime,
         config' = config
  PROVE  summary' \in Summaries /\ ScoresAddUp'
<1> DEFINE b == secret.set = TargetOf(trial)
<1>1. summary' = Timed(Counted, b) /\ summary \in Summaries
  BY DEF ScoreEvictTime, IInv, TypeOK
<1>2. TypeOK
  BY DEF IInv
<1>3. /\ summary' \in Summaries
      /\ summary'.trials = summary.trials + 1
      /\ summary'.accesses = summary.accesses + 1
      /\ summary'.correct = summary.correct
      /\ summary'.touched = summary.touched + One(b)
      /\ summary'.untouched = summary.untouched + One(~b)
  <2> HIDE DEF b
  <2>1. b \in BOOLEAN
    BY DEF b
  <2>2. PICK s \in Summaries : s = Counted
    BY <1>2, CountedType
  <2>3. summary' = Timed(s, b)
    BY <1>1, <2>2
  <2>4. /\ s.trials = summary.trials + 1 /\ s.accesses = summary.accesses + 1
        /\ s.correct = summary.correct /\ s.touched = summary.touched
        /\ s.untouched = summary.untouched
    BY <1>2, <2>2, CountedType
  <2> QED BY <2>1, <2>3, <2>4, TimedType
<1>4. One(b) + One(~b) = 1 /\ One(b) \in Nat /\ One(~b) \in Nat
  BY DEF One
<1>5. /\ summary.accesses = summary.trials /\ summary.correct = 0
      /\ summary.touched + summary.untouched = summary.trials
  BY DEF IInv, ScoresAddUp
<1>6. summary.touched \in Nat /\ summary.untouched \in Nat /\ summary.trials \in Nat
  BY <1>1 DEF Summaries
<1> HIDE DEF b
<1>7. summary'.touched + summary'.untouched = summary'.trials
  BY <1>3, <1>4, <1>5, <1>6
<1> QED BY <1>3, <1>5, <1>7 DEF ScoresAddUp

\* So does scoring a binary Prime+Probe trial, whatever the list holds.
LEMMA BinaryAddsUp ==
  ASSUME IInv, config.attack = "BinaryPrimeProbe", summary' = ScoreBinary,
         config' = config
  PROVE  summary' \in Summaries /\ ScoresAddUp'
<1> DEFINE target == TargetOf(trial)
           time == IF target < Len(Probe) THEN Probe[target + 1].time ELSE 0
           bit == secret.bit
           predicted == One(time >= Threshold)
<1>0. TypeOK
  BY DEF IInv
<1>1. bit \in Bits /\ predicted \in Bits
  BY <1>0, OneType DEF TypeOK, Secret
<1>2. PICK s \in Summaries : s = Counted
  BY <1>0, CountedType
<1>3. /\ s.trials = summary.trials + 1 /\ s.accesses = summary.accesses + 1
      /\ s.correct = summary.correct /\ s.tp = summary.tp /\ s.tn = summary.tn
      /\ s.fp = summary.fp /\ s.fn = summary.fn
      /\ s.binaryJoint = summary.binaryJoint
      /\ s.touched = summary.touched /\ s.untouched = summary.untouched
  BY <1>0, <1>2, CountedType
<1>4. /\ s.correct \in Nat /\ s.tp \in Nat /\ s.tn \in Nat /\ s.fp \in Nat
      /\ s.fn \in Nat /\ s.touched \in Nat /\ s.untouched \in Nat
      /\ s.trials \in Nat /\ s.accesses \in Nat
      /\ s.binaryJoint \in [Bits -> [Bits -> Nat]]
  BY DEF Summaries
<1> DEFINE correct == s.correct + One(predicted = bit)
           joint == [s.binaryJoint EXCEPT ![bit][predicted] = @ + 1]
           tp == s.tp + One(bit = 1 /\ predicted = 1)
           tn == s.tn + One(bit = 0 /\ predicted = 0)
           fp == s.fp + One(bit = 0 /\ predicted = 1)
           fn == s.fn + One(bit = 1 /\ predicted = 0)
<1>5. PICK m : m = [s EXCEPT !.correct = correct, !.binaryJoint = joint,
                             !.tp = tp, !.tn = tn, !.fp = fp, !.fn = fn]
  OBVIOUS
<1>6. summary' = Timed(m, bit = 1)
  BY <1>2, <1>5 DEF ScoreBinary
<1> HIDE DEF bit, predicted, target, time
<1>7. /\ correct \in Nat /\ tp \in Nat /\ tn \in Nat /\ fp \in Nat /\ fn \in Nat
      /\ joint \in [Bits -> [Bits -> Nat]]
  <2>1. \A n \in Nat : \A b : n + One(b) \in Nat
    BY DEF One
  <2>2. joint \in [Bits -> [Bits -> Nat]]
    BY ONLY <1>4, CellIncremented
  <2> QED BY <1>4, <2>1, <2>2
<1> HIDE DEF correct, joint, tp, tn, fp, fn
<1>8. /\ m \in Summaries /\ m.trials = s.trials /\ m.accesses = s.accesses
      /\ m.correct = correct /\ m.binaryJoint = joint
      /\ m.tp = tp /\ m.tn = tn /\ m.fp = fp /\ m.fn = fn
      /\ m.touched = s.touched /\ m.untouched = s.untouched
  BY <1>5, <1>7 DEF Summaries
<1>9. /\ summary' \in Summaries
      /\ summary'.trials = s.trials /\ summary'.accesses = s.accesses
      /\ summary'.correct = correct /\ summary'.binaryJoint = joint
      /\ summary'.tp = tp /\ summary'.tn = tn
      /\ summary'.fp = fp /\ summary'.fn = fn
      /\ summary'.touched = s.touched + One(bit = 1)
      /\ summary'.untouched = s.untouched + One(~(bit = 1))
  <2>1. PICK b \in BOOLEAN : b = (bit = 1)
    OBVIOUS
  <2>2. summary' = Timed(m, b)
    BY <1>6, <2>1
  <2>3. One(b) = One(bit = 1) /\ One(~b) = One(~(bit = 1))
    BY <2>1 DEF One
  <2> QED BY <1>8, <2>2, <2>3, TimedType
<1>10. \A b, p \in Bits :
         joint[b][p] = s.binaryJoint[b][p] + One(b = bit /\ p = predicted)
  BY <1>1, <1>4 DEF One, joint
<1>11. LET o == summary IN
       /\ o.accesses = o.trials
       /\ o.tp + o.tn + o.fp + o.fn = o.trials
       /\ o.correct = o.tp + o.tn
       /\ o.touched = o.tp + o.fn /\ o.untouched = o.tn + o.fp
       /\ o.binaryJoint[1][1] = o.tp /\ o.binaryJoint[0][0] = o.tn
       /\ o.binaryJoint[0][1] = o.fp /\ o.binaryJoint[1][0] = o.fn
  BY DEF IInv, ScoresAddUp
<1>12. /\ joint[1][1] = tp /\ joint[0][0] = tn /\ joint[0][1] = fp /\ joint[1][0] = fn
  <2>1. /\ One(1 = bit /\ 1 = predicted) = One(bit = 1 /\ predicted = 1)
        /\ One(0 = bit /\ 0 = predicted) = One(bit = 0 /\ predicted = 0)
        /\ One(0 = bit /\ 1 = predicted) = One(bit = 0 /\ predicted = 1)
        /\ One(1 = bit /\ 0 = predicted) = One(bit = 1 /\ predicted = 0)
    BY DEF One
  <2> QED BY <1>3, <1>10, <1>11, <2>1 DEF tp, tn, fp, fn
<1>13. /\ tp + tn + fp + fn = s.trials /\ correct = tp + tn
       /\ s.touched + One(bit = 1) = tp + fn
       /\ s.untouched + One(~(bit = 1)) = tn + fp
  BY <1>1, <1>3, <1>4, <1>11 DEF One, correct, tp, tn, fp, fn
<1>14. s.accesses = s.trials
  BY <1>3, <1>11
<1> QED BY <1>9, <1>12, <1>13, <1>14 DEF ScoresAddUp

(* What a finished trial is scored as is a summary again. *)
LEMMA ScoredAddsUp ==
  ASSUME IInv, summary' = Scored, config' = config
  PROVE  summary' \in Summaries /\ ScoresAddUp'
<1>1. config.attack \in {"BinaryPrimeProbe", "PrimeProbe", "EvictTime"}
  BY ExperimentAssumption DEF IInv, TypeOK, Config
<1> QED BY <1>1, PrimeProbeAddsUp, BinaryAddsUp, EvictTimeAddsUp DEF Scored

-----------------------------------------------------------------------------
(* Steps of the driver.                                                    *)

\* The configuration is one the command line lets through.
LEMMA ConfigType == ASSUME TypeOK PROVE config \in Config
  BY ExperimentAssumption DEF TypeOK

\* A program has an identity.
LEMMA IdentityType == \A i \in Programs : Identity(i) \in Identities
  BY DEF Identity, Identities

\* The shared state of a phase that begins is well formed and its list empty.
LEMMA BeginPhaseType ==
  ASSUME IInv, NEW p \in Phases, BeginPhase(p)
  PROVE  state' \in States /\ state'.phase = p /\ state'.submitted = <<>>
<1>1. secret.set \in Sets /\ secret.bit \in Bits /\ 0 \in Sets
  BY ExperimentAssumption DEF IInv, TypeOK, Secret
<1>2. stage = "trial" => TargetOf(trial) \in Sets
  BY TargetOfIsSet, ConfigType DEF IInv, TypeOK, TrialInRange
<1>3. <<>> \in Seq(Entry)
  BY EmptySeq
<1> QED BY <1>1, <1>2, <1>3 DEF BeginPhase, States

\* Restoring a program for its turn keeps the invariant.
LEMMA BeginTurnKeeps == IInv /\ BeginTurn => IInv'
<1> SUFFICES ASSUME IInv, BeginTurn PROVE IInv'
  OBVIOUS
<1> DEFINE p == Head(todo).phase
           i == Head(todo).who
<1>1. /\ BeginPhase(p) /\ SwitchTo(i) /\ running' = i /\ todo # <<>>
      /\ UNCHANGED <<config, stage, trial, secret, todo, contexts, trace, summary>>
  BY DEF BeginTurn
<1>2. p \in Phases /\ i \in Programs
  <2>1. todo \in Seq(Turns) /\ todo # <<>>
    BY <1>1 DEF IInv, TypeOK
  <2>2. Head(todo) \in Turns
    BY <2>1, HeadTailProperties
  <2> QED BY <2>2 DEF Turns
<1>3. p' = p /\ i' = i
  BY <1>1
<1> HIDE DEF p, i
<1>4. state' \in States /\ state'.phase = p /\ state'.submitted = <<>>
  BY <1>1, <1>2, BeginPhaseType
<1>5. /\ machine' \in Machines /\ machine'.registers = contexts[i].registers
      /\ machine'.segment = i /\ machine'.requester = Identity(i)
  BY <1>1, <1>2, IdentityType DEF SwitchTo, Machines, IInv, TypeOK, Contexts
<1>6. TypeOK'
  BY <1>1, <1>2, <1>4, <1>5 DEF IInv, TypeOK
<1>7. RunsAsItself'
  BY <1>1, <1>2, <1>3, <1>4, <1>5, SameConfig DEF RunsAsItself, p, i
<1>8. ListIsOfThisTurn'
  BY <1>4 DEF ListIsOfThisTurn, Probe
<1>9. TraceIsThisTrials' /\ TrialInRange' /\ ScoresAddUp'
  BY <1>1, SameConfig DEF IInv, TraceIsThisTrials, TrialInRange, ScoresAddUp
<1>10. ExitedAtEbreak'
  BY <1>1, <1>5 DEF IInv, ExitedAtEbreak
<1> QED BY <1>6, <1>7, <1>8, <1>9, <1>10 DEF IInv

\* So does saving it when it has said that it is done.
LEMMA EndTurnKeeps == IInv /\ EndTurn => IInv'
<1> SUFFICES ASSUME IInv, EndTurn PROVE IInv'
  OBVIOUS
<1> DEFINE c == [contexts[running] EXCEPT !.registers = machine.registers]
<1>1. /\ running # NoOne /\ LeaveTurn(c)
      /\ UNCHANGED <<config, stage, trial, secret, state, machine, trace, summary>>
  BY DEF EndTurn
<1>2. running \in Programs /\ contexts[running] \in Contexts /\ machine \in Machines
  BY <1>1 DEF IInv, TypeOK
<1>3. /\ c \in Contexts /\ c.registers = machine.registers
      /\ c.exited = contexts[running].exited
      /\ c.exitCode = contexts[running].exitCode
  BY <1>2 DEF Contexts, Machines
<1>4. c.exited /\ c.exitCode = 0 => c.registers \in EbreakRegs
  BY <1>2, <1>3 DEF IInv, ExitedAtEbreak
<1>5. StateKept /\ TraceKept
  BY <1>1, ListIsKept, UnchangedKept, TraceUnchanged DEF IInv
<1> HIDE DEF c
<1> QED BY <1>1, <1>2, <1>3, <1>4, <1>5, Leaving DEF UnchangedByPrograms

(* A step of the driver that leaves the programs, the list and the scores. *)
LEMMA DriverOnly ==
  ASSUME IInv, running = NoOne, stage' \in Stages, todo' \in Seq(Turns),
         trace' = trace \/ trace' = <<>>,
         stage' = "trial" => stage = "trial",
         ListIsOfThisTurn',
         UNCHANGED <<config, trial, secret, running, state, contexts, machine, summary>>
  PROVE  IInv'
<1>1. <<>> \in Seq(Event) /\ Len(<<>>) = 0
  BY EmptySeq
<1>2. TypeOK'
  BY <1>1 DEF IInv, TypeOK
<1>3. TrialInRange' /\ ScoresAddUp' /\ RunsAsItself' /\ ExitedAtEbreak'
  BY SameConfig
  DEF IInv, TrialInRange, ScoresAddUp, RunsAsItself, ExitedAtEbreak
<1>4. TraceIsThisTrials'
  BY <1>1 DEF IInv, TraceIsThisTrials
<1> QED BY <1>2, <1>3, <1>4 DEF IInv

(* When no turn is left, what is in the list is of the trial under way. *)
LEMMA ListAtRest ==
  ASSUME IInv, stage # "trial" \/ todo = <<>>, state' = state, trial' = trial
  PROVE  ListIsOfThisTurn'
  BY DEF IInv, ListIsOfThisTurn, Probe

\* So does beginning a trial.
LEMMA BeginTrialKeeps == IInv /\ BeginTrial => IInv'
<1> SUFFICES ASSUME IInv, BeginTrial PROVE IInv'
  OBVIOUS
<1>1. /\ running = NoOne /\ trial < NumTrials
      /\ stage' = "trial" /\ trial' = trial + 1 /\ secret' \in Secrets(trial + 1)
      /\ trace' = <<>> /\ todo' = Script
      /\ UNCHANGED <<config, running, state, contexts, machine, summary>>
  BY DEF BeginTrial, AtRest
<1>2. trial \in Nat /\ NumTrials \in Nat /\ config \in Config
  BY ConfigType, NumTrialsType DEF IInv, TypeOK
<1>3. secret' \in Secret
  BY <1>1, <1>2, SecretsType
<1>4. TypeOK'
  BY <1>1, <1>2, <1>3, ScriptType, EmptySeq DEF IInv, TypeOK, Stages
<1>5. TrialInRange'
  BY <1>1, <1>2, SameConfig DEF TrialInRange
<1>6. RunsAsItself' /\ ScoresAddUp' /\ ExitedAtEbreak'
  BY <1>1 DEF IInv, RunsAsItself, ScoresAddUp, ExitedAtEbreak
<1>7. TraceIsThisTrials'
  BY <1>1, EmptySeq DEF TraceIsThisTrials
<1>8. ListIsOfThisTurn'
  BY <1>1, ScriptType DEF IInv, ListIsOfThisTurn, Probe
<1> QED BY <1>4, <1>5, <1>6, <1>7, <1>8 DEF IInv

\* So does scoring it.
LEMMA EndTrialKeeps == IInv /\ EndTrial => IInv'
<1> SUFFICES ASSUME IInv, EndTrial PROVE IInv'
  OBVIOUS
<1>1. /\ summary' = Scored /\ trace' = <<>> /\ todo = <<>>
      /\ UNCHANGED <<config, stage, trial, secret, todo, running, state, contexts,
                     machine>>
  BY DEF EndTrial, AtRest
<1>2. summary' \in Summaries /\ ScoresAddUp'
  BY <1>1, ScoredAddsUp
<1>3. TypeOK'
  BY <1>1, <1>2, EmptySeq DEF IInv, TypeOK
<1>4. TrialInRange' /\ RunsAsItself' /\ ExitedAtEbreak'
  BY <1>1, SameConfig DEF IInv, TrialInRange, RunsAsItself, ExitedAtEbreak
<1>5. TraceIsThisTrials'
  BY <1>1, EmptySeq DEF TraceIsThisTrials
<1>6. ListIsOfThisTurn'
  BY <1>1, ListAtRest
<1> QED BY <1>2, <1>3, <1>4, <1>5, <1>6 DEF IInv

\* Every step of the driver keeps the invariant.
LEMMA DriverStepKeeps == IInv /\ DriverStep => IInv'
<1> SUFFICES ASSUME IInv, DriverStep PROVE IInv'
  OBVIOUS
<1>1. CASE SkipTurn
  <2>1. todo \in Seq(Turns) /\ todo # <<>>
    BY <1>1 DEF SkipTurn, IInv, TypeOK
  <2>2. todo' \in Seq(Turns)
    BY <1>1, <2>1, HeadTailProperties DEF SkipTurn
  <2>3. ListIsOfThisTurn'
    BY <1>1, ListAtRest DEF SkipTurn
  <2> QED BY <1>1, <2>2, <2>3, DriverOnly DEF SkipTurn, Stages
<1>2. CASE PanicOnScore
  <2>1. ListIsOfThisTurn' /\ todo' \in Seq(Turns)
    BY <1>2, ListAtRest DEF PanicOnScore, AtRest, IInv, TypeOK
  <2> QED BY <1>2, <2>1, DriverOnly DEF PanicOnScore, AtRest, Stages
<1>3. CASE HaltContexts
  <2>1. ListIsOfThisTurn' /\ todo' \in Seq(Turns)
    BY <1>3, ListAtRest, HaltTurnsType DEF HaltContexts, AtRest
  <2> QED BY <1>3, <2>1, DriverOnly DEF HaltContexts, AtRest, Stages
<1>4. CASE Return
  <2>1. ListIsOfThisTurn' /\ todo' \in Seq(Turns)
    BY <1>4, ListAtRest DEF Return, AtRest, IInv, TypeOK
  <2> QED BY <1>4, <2>1, DriverOnly DEF Return, AtRest, Stages
<1> QED
  BY <1>1, <1>2, <1>3, <1>4, BeginTurnKeeps, EndTurnKeeps, BeginTrialKeeps,
     EndTrialKeeps
  DEF DriverStep

-----------------------------------------------------------------------------

\* The invariant holds when the driver has loaded the programs.
LEMMA InitIInv == Init => IInv
<1> SUFFICES ASSUME Init PROVE IInv
  OBVIOUS
<1>1. /\ 0 \in Sets /\ config \in Configs /\ config \in Config
      /\ EntryRegs \subseteq Regs
  BY ExperimentAssumption DEF Init
<1>2. contexts \in [Programs -> Contexts]
      /\ \A i \in Programs : ~contexts[i].exited /\ contexts[i].registers \in Regs
  <2>1. \A r \in EntryRegs : /\ NewContext(r) \in Contexts
                             /\ ~NewContext(r).exited
                             /\ NewContext(r).registers \in Regs
    BY <1>1 DEF NewContext, Contexts
  <2>2. \A i \in Programs : \E r \in EntryRegs : contexts[i] = NewContext(r)
    BY DEF Init
  <2>3. contexts \in [Programs -> {NewContext(r) : r \in EntryRegs}]
    BY DEF Init
  <2> QED BY <2>1, <2>2, <2>3
<1>3. machine \in Machines
  BY <1>2 DEF Init, Machines, Identities
<1>4. state \in States /\ state.submitted = <<>>
  BY <1>1, EmptySeq DEF Init, States
<1>5. summary \in Summaries
  BY DEF Init, ZeroSummary, Summaries
<1>6. TypeOK
  BY <1>1, <1>2, <1>3, <1>4, <1>5, HaltTurnsType, EmptySeq
  DEF Init, TypeOK, Stages, Secret
<1>7. TrialInRange
  BY <1>1, NumTrialsType DEF Init, TrialInRange
<1>8. RunsAsItself /\ TraceIsThisTrials /\ ExitedAtEbreak
  BY <1>2 DEF Init, RunsAsItself, TraceIsThisTrials, ExitedAtEbreak
<1>9. ListIsOfThisTurn
  BY <1>4 DEF ListIsOfThisTurn, Probe
<1>10. ScoresAddUp
  BY DEF Init, ZeroSummary, ScoresAddUp
<1> QED BY <1>6, <1>7, <1>8, <1>9, <1>10 DEF IInv

\* Every step keeps the invariant.
LEMMA NextIInv == IInv /\ [Next]_vars => IInv'
<1>1. ASSUME IInv, UNCHANGED vars PROVE IInv'
  <2>1. /\ config' = config /\ stage' = stage /\ trial' = trial /\ secret' = secret
        /\ todo' = todo /\ running' = running /\ state' = state
        /\ contexts' = contexts /\ machine' = machine /\ trace' = trace
        /\ summary' = summary
    BY <1>1 DEF vars
  <2>2. TypeOK' /\ TrialInRange' /\ ScoresAddUp'
    BY <1>1, <2>1, SameConfig DEF IInv, TypeOK, TrialInRange, ScoresAddUp
  <2>3. RunsAsItself'
    BY <1>1, <2>1, SameConfig DEF IInv, TypeOK, RunsAsItself
  <2>4. ListIsOfThisTurn' /\ TraceIsThisTrials' /\ ExitedAtEbreak'
    BY <1>1, <2>1
    DEF IInv, ListIsOfThisTurn, Probe, TraceIsThisTrials, ExitedAtEbreak
  <2> QED BY <2>2, <2>3, <2>4 DEF IInv
<1> QED BY <1>1, DriverStepKeeps, ProgramStepKeeps DEF Next

\* The invariant holds throughout.
LEMMA IInvAlways == Spec => []IInv
<1> QED BY InitIInv, NextIInv, PTL DEF Spec

(* Every variable has its type: the counters and tables of a summary, the  *)
(* target of a trial and a program's saved registers among them.           *)
THEOREM ExperimentTypes == Spec => []TypeOK
<1>1. IInv => TypeOK
  BY DEF IInv
<1> QED BY <1>1, IInvAlways, PTL

\* A program runs only in its own turn, segment and identity, which
\* run_context_until_done gives the machine before the first step of the turn.
THEOREM ProgramsRunAsThemselves == Spec => []RunsAsItself
<1>1. IInv => RunsAsItself
  BY DEF IInv
<1> QED BY <1>1, IInvAlways, PTL

\* What is scored was submitted in the turn just run: begin_phase clears the
\* list, and only the program whose turn it is submits after that.
THEOREM NoStaleSubmissions == Spec => []SubmissionsAreFresh
<1>1. IInv => SubmissionsAreFresh
  BY DEF IInv, ListIsOfThisTurn, SubmissionsAreFresh, AtRest
<1> QED BY <1>1, IInvAlways, PTL

\* What is counted as interference happened in this trial: the trace is
\* drained when a trial begins and when it ends (CacheTrace::drain).
THEOREM NoStaleEvents == Spec => []TraceIsThisTrials
<1>1. IInv => TraceIsThisTrials
  BY DEF IInv
<1> QED BY <1>1, IInvAlways, PTL

\* The counters and tables that update_summary increments in different
\* branches count the same trials.
THEOREM TablesAgree == Spec => []ScoresAddUp
<1>1. IInv => ScoresAddUp
  BY DEF IInv
<1> QED BY <1>1, IInvAlways, PTL

-----------------------------------------------------------------------------
(* What one step may do to a program's registers.                          *)

(* The program on the machine goes on, or leaves, or the machine panics.   *)
LEMMA ProgramStepShape ==
  ASSUME ProgramStep
  PROVE  /\ Steps
         /\ \/ running' = running /\ contexts' = contexts
            \/ \E c : LeaveTurn(c)
            \/ running' = NoOne /\ contexts' = contexts
         /\ Ebreak \/ machine.registers \notin EbreakRegs
<1>1. CASE \E r \in Regs :
             \/ \E as \in Seq(Accesses) : Compute(as, r)
             \/ \E index \in Nat, t \in Times : SubmitScalar(index, t, r)
             \/ \E as \in Seq(Accesses), ts \in Seq(Times) : SubmitVector(as, ts, r)
             \/ ExpDone(r)
  <2>1. Runs /\ running' = running /\ contexts' = contexts
    BY <1>1 DEF Compute, SubmitScalar, SubmitVector, ExpDone, UnchangedByStep
  <2> QED BY <2>1 DEF Runs
<1>2. CASE \/ \E r \in Regs : Fault(r)
           \/ \E as \in Seq(Accesses), ts \in Seq(Times) : FaultySubmitVector(as, ts)
  <2>1. Runs /\ \E c : LeaveTurn(c)
    BY <1>2 DEF Fault, FaultySubmitVector, LeaveHalted
  <2> QED BY <2>1 DEF Runs
<1>3. CASE Ebreak
  BY <1>3 DEF Ebreak, LeaveHalted
<1>4. CASE Unimplemented
  BY <1>4 DEF Unimplemented, Runs
<1> QED BY <1>1, <1>2, <1>3, <1>4 DEF ProgramStep

(* A step touches the registers, and the context, of nobody else.          *)
LEMMA OthersAreKept ==
  ASSUME IInv, ProgramStep, NEW i \in Programs, running # i
  PROVE  RegistersOf(i)' = RegistersOf(i) /\ contexts'[i] = contexts[i]
<1>1. /\ running' = running \/ running' = NoOne
      /\ contexts' = contexts \/ \E c : contexts' = [contexts EXCEPT ![running] = c]
  BY ProgramStepShape DEF LeaveTurn
<1>2. contexts'[i] = contexts[i]
  BY <1>1 DEF IInv, TypeOK
<1> QED BY <1>1, <1>2 DEF RegistersOf

(* The driver puts a program on the machine, and saves it, as it is.       *)
LEMMA DriverKeepsRegisters ==
  ASSUME IInv, DriverStep, NEW i \in Programs
  PROVE  RegistersOf(i)' = RegistersOf(i)
<1>1. CASE BeginTurn
  <2>1. /\ running = NoOne /\ contexts' = contexts /\ running' = Head(todo).who
        /\ machine'.registers = contexts[Head(todo).who].registers
    BY <1>1 DEF BeginTurn, SwitchTo
  <2> QED BY <2>1 DEF RegistersOf
<1>2. CASE EndTurn
  <2>1. /\ running # NoOne /\ running \in Programs /\ running' = NoOne
        /\ contexts[running] \in Contexts
        /\ contexts' = [contexts EXCEPT ![running] =
                          [contexts[running] EXCEPT !.registers = machine.registers]]
    BY <1>2 DEF EndTurn, LeaveTurn, IInv, TypeOK
  <2>2. contexts'[i].registers =
          IF i = running THEN machine.registers ELSE contexts[i].registers
    BY <2>1 DEF IInv, TypeOK, Contexts
  <2> QED BY <2>1, <2>2 DEF RegistersOf
<1>3. CASE SkipTurn \/ BeginTrial \/ EndTrial \/ PanicOnScore \/ HaltContexts \/ Return
  <2>1. running = NoOne /\ running' = NoOne /\ contexts' = contexts
    BY <1>3
    DEF SkipTurn, BeginTrial, EndTrial, PanicOnScore, HaltContexts, Return, AtRest
  <2> QED BY <2>1 DEF RegistersOf
<1> QED BY <1>1, <1>2, <1>3 DEF DriverStep

\* A program finds its registers as it left them: run_context_until_done saves
\* them however it stops.
THEOREM RegistersAreKept == Spec => ProgramsKeepTheirRegisters
<1>1. IInv /\ [Next]_vars =>
        [\A i \in Programs :
           RegistersOf(i)' # RegistersOf(i) => running = i /\ ~state.done]_vars
  <2> SUFFICES ASSUME IInv, Next, NEW i \in Programs,
                      RegistersOf(i)' # RegistersOf(i)
               PROVE  running = i /\ ~state.done
    OBVIOUS
  <2>1. ProgramStep
    BY DriverKeepsRegisters DEF Next
  <2> QED BY <2>1, OthersAreKept, ProgramStepShape DEF Steps
<1> QED BY <1>1, IInvAlways, PTL DEF Spec, ProgramsKeepTheirRegisters

\* A program that came to its ebreak does nothing more, though it is restored
\* and stepped again in its later turns (run_context_until_done).
THEOREM ExitsAreFinal == Spec => ExitIsFinal
<1>1. IInv /\ [Next]_vars =>
        [\A i \in Programs :
           contexts[i].exited /\ contexts[i].exitCode = 0 =>
             /\ RegistersOf(i)' = RegistersOf(i)
             /\ contexts[i]' = contexts[i]
             /\ running = i => state' = state /\ trace' = trace]_vars
  <2> SUFFICES ASSUME IInv, Next, NEW i \in Programs,
                      contexts[i].exited, contexts[i].exitCode = 0
               PROVE  /\ RegistersOf(i)' = RegistersOf(i)
                      /\ contexts'[i] = contexts[i]
                      /\ running = i => state' = state /\ trace' = trace
    OBVIOUS
  <2>0. /\ contexts[i] \in Contexts /\ contexts \in [Programs -> Contexts]
        /\ contexts[i].registers \in EbreakRegs
        /\ running = i => machine.registers = contexts[i].registers
    BY DEF IInv, TypeOK, ExitedAtEbreak
  <2>1. CASE ProgramStep /\ running # i
    BY <2>1, OthersAreKept
  <2>2. CASE ProgramStep /\ running = i
    <3>1. Ebreak
      BY <2>0, <2>2, ProgramStepShape
    <3>2. /\ state' = state /\ trace' = trace /\ running' = NoOne
          /\ contexts' = [contexts EXCEPT ![i] =
                [registers |-> machine.registers, exited |-> TRUE, exitCode |-> 0]]
      BY <2>2, <3>1 DEF Ebreak, LeaveHalted, LeaveTurn
    <3>3. contexts[i] = [registers |-> machine.registers, exited |-> TRUE, exitCode |-> 0]
      BY <2>0, <2>2 DEF Contexts
    <3>4. contexts'[i] = contexts[i]
      BY <2>0, <3>2, <3>3
    <3> QED BY <2>0, <2>2, <3>2, <3>4 DEF RegistersOf
  <2>3. CASE DriverStep
    <3>1. RegistersOf(i)' = RegistersOf(i)
      BY <2>3, DriverKeepsRegisters
    <3>2. CASE EndTurn
      <4>1. /\ state' = state /\ trace' = trace /\ running \in Programs
            /\ contexts' = [contexts EXCEPT ![running] =
                  [contexts[running] EXCEPT !.registers = machine.registers]]
        BY <3>2 DEF EndTurn, LeaveTurn, IInv, TypeOK
      <4>2. CASE running = i
        <5>1. [contexts[i] EXCEPT !.registers = machine.registers] = contexts[i]
          BY <2>0, <4>2 DEF Contexts
        <5> QED BY <2>0, <3>1, <4>1, <4>2, <5>1
      <4>3. CASE running # i
        BY <2>0, <3>1, <4>1, <4>3
      <4> QED BY <4>2, <4>3
    <3>3. CASE ~EndTurn
      <4>1. running = NoOne /\ contexts' = contexts
        BY <2>3, <3>3
        DEF DriverStep, BeginTurn, SkipTurn, BeginTrial, EndTrial, PanicOnScore,
            HaltContexts, Return, AtRest
      <4> QED BY <3>1, <4>1
    <3> QED BY <3>2, <3>3
  <2> QED BY <2>1, <2>2, <2>3 DEF Next
<1> QED BY <1>1, IInvAlways, PTL DEF Spec, ExitIsFinal

-----------------------------------------------------------------------------
(* The shipped programs, and the other ones the runs use, are programs as   *)
(* Experiment allows them.                                                  *)

(* A shipped program is never anywhere else than where its code is.        *)
ShippedStayInside ==
  programs = "shipped" =>
    /\ machine.registers \in ShippedRegs
    /\ \A i \in Programs : contexts[i].registers \in ShippedRegs

L1dInv == IInv /\ ShippedStayInside

-----------------------------------------------------------------------------
(* The steps of the programs, typed.                                       *)

\* What a step of a program may access is a list of accesses.
LEMMA AccessListsType == AccessLists \subseteq Seq(Accesses)
<1>1. \A a \in Accesses : <<a>> \in Seq(Accesses)
  OBVIOUS
<1> QED BY <1>1, EmptySeq DEF AccessLists

\* The places of the shipped programs are registers.
LEMMA PlacesType ==
  /\ \A pc \in ShippedPcs : At(pc) \in ShippedRegs
  /\ \A n \in 0 .. SETS : Probing(n) \in ShippedRegs
  /\ \A n \in Sets : Submitting(n) \in ShippedRegs
  /\ ShippedRegs \subseteq Regs
  BY L1dAssumption DEF ShippedRegs

\* What a program does in a phase is one of these.
LEMMA WorkNames ==
  ASSUME NEW i, NEW phase
  PROVE  Work(i, phase) \in
           {"return", "prime", "evict", "warm", "access", "ready", "probe"}
<1>1. AttackerWork(phase) \in {"return", "prime", "probe", "evict", "ready"}
  BY DEF AttackerWork
<1>2. VictimWork(phase) \in {"return", "warm", "access", "ready"}
  BY DEF VictimWork
<1> QED BY <1>1, <1>2 DEF Work

\* It begins at a place of the shipped programs.
LEMMA WorkType ==
  ASSUME NEW i, NEW phase PROVE At(Work(i, phase)) \in ShippedRegs
<1>1. Probing(0) = At("probe") /\ Probing(0) \in ShippedRegs
  BY PlacesType, ExperimentAssumption DEF Probing, At
<1>2. \A pc \in {"return", "prime", "evict", "warm", "access", "ready"} :
        At(pc) \in ShippedRegs
  BY PlacesType DEF ShippedPcs
<1> QED BY <1>1, <1>2, WorkNames

(* Where a shipped program is, and the loop variable of a probe.           *)
LEMMA LoopVariableType ==
  ASSUME machine.registers \in ShippedRegs
  PROVE  iNow \in 0 .. SETS /\ (pcNow = "submit" => iNow \in Sets)
<1>1. 0 \in 0 .. SETS /\ Sets \subseteq 0 .. SETS
  BY ExperimentAssumption DEF Sets
<1>2. \/ \E pc \in ShippedPcs : machine.registers = At(pc)
      \/ \E n \in 0 .. SETS : machine.registers = Probing(n)
      \/ \E n \in Sets : machine.registers = Submitting(n)
  BY DEF ShippedRegs
<1>3. CASE \E pc \in ShippedPcs : machine.registers = At(pc)
  BY <1>1, <1>3 DEF iNow, pcNow, At, ShippedPcs
<1>4. CASE \E n \in 0 .. SETS : machine.registers = Probing(n)
  BY <1>4 DEF iNow, pcNow, Probing
<1>5. CASE \E n \in Sets : machine.registers = Submitting(n)
  BY <1>1, <1>5 DEF iNow, pcNow, Submitting
<1> QED BY <1>2, <1>3, <1>4, <1>5

\* The set to be probed next is a number.
LEMMA PermutedSetType ==
  ASSUME TypeOK, NEW n \in 0 .. SETS
  PROVE  PermutedSet(ProbeStart, n) \in Nat
<1>1. SETS \in Nat \ {0} /\ ProbeStride \in Nat
  BY ExperimentAssumption, L1dAssumption
<1>2. state.secretSet \in Nat /\ state.targetSet \in Nat
  BY <1>1 DEF TypeOK, States, Sets
<1>3. ProbeStart \in Nat
  BY <1>1, <1>2 DEF ProbeStart
<1>4. n * ProbeStride \in Nat
  BY <1>1
<1> HIDE DEF ProbeStart
<1> QED BY <1>1, <1>3, <1>4 DEF PermutedSet

(* A step of a shipped program is one that goes on to one of its places.   *)
GoesOnInside(r) ==
  /\ r \in ShippedRegs
  /\ \/ \E as \in Seq(Accesses) : Compute(as, r)
     \/ \E index \in Nat, t \in Times : SubmitScalar(index, t, r)
     \/ ExpDone(r)

\* A step of the shipped programs ends at one of their places.
LEMMA ShippedStepType ==
  ASSUME TypeOK, machine.registers \in ShippedRegs, ShippedStep
  PROVE  \E r \in ShippedRegs : GoesOnInside(r)
<1>0. /\ AccessLists \subseteq Seq(Accesses) /\ <<>> \in Seq(Accesses)
      /\ iNow \in 0 .. SETS /\ SETS \in Nat \ {0}
  BY AccessListsType, EmptySeq, LoopVariableType, ExperimentAssumption
<1>1. At("ready") \in ShippedRegs /\ At("loop") \in ShippedRegs
      /\ At("exit") \in ShippedRegs
  BY PlacesType DEF ShippedPcs
<1> HIDE DEF At
<1>2. CASE StartUp
  BY <1>0, <1>1, <1>2 DEF StartUp, GoesOnInside
<1>3. CASE GetPhase
  BY <1>0, <1>3, WorkType DEF GetPhase, GoesOnInside
<1>4. CASE Touch
  BY <1>0, <1>1, <1>4 DEF Touch, GoesOnInside
<1>5. CASE ProbeOneSet
  <2>1. iNow \in Sets
    BY <1>0, <1>5 DEF ProbeOneSet, Sets
  <2>2. Submitting(iNow) \in ShippedRegs
    BY <2>1, PlacesType
  <2> QED BY <1>0, <1>5, <2>2 DEF ProbeOneSet, GoesOnInside
<1>6. CASE SubmitOneSet
  <2>1. iNow \in Sets
    BY <1>6, LoopVariableType DEF SubmitOneSet
  <2>2. Probing(iNow + 1) \in ShippedRegs
    BY <1>0, <2>1, PlacesType DEF Sets
  <2>3. PermutedSet(ProbeStart, iNow) \in Nat
    BY <1>0, PermutedSetType
  <2> QED BY <1>6, <2>2, <2>3 DEF SubmitOneSet, GoesOnInside
<1>7. CASE ProbeIsOver
  BY <1>0, <1>1, <1>7 DEF ProbeIsOver, GoesOnInside
<1>8. CASE SayDone
  BY <1>1, <1>8 DEF SayDone, GoesOnInside
<1> QED BY <1>2, <1>3, <1>4, <1>5, <1>6, <1>7, <1>8 DEF ShippedStep

-----------------------------------------------------------------------------
(* Every step is a step of Experiment.                                     *)

\* Such a step is one of the steps Experiment allows a program.
LEMMA GoesOnIsProgramStep ==
  ASSUME NEW r \in ShippedRegs, GoesOnInside(r)
  PROVE  /\ ProgramStep /\ machine' = [machine EXCEPT !.registers = r]
         /\ contexts' = contexts
<1>1. r \in Regs
  BY PlacesType
<1> QED
  BY <1>1 DEF GoesOnInside, ProgramStep, Compute, SubmitScalar, ExpDone,
              UnchangedByStep, GoesOnAt

\* So is every step of the other programs.
LEMMA OtherStepIsProgramStep == OtherStep => ProgramStep
<1>1. /\ OtherRegs \subseteq Regs /\ Indices \subseteq Nat
      /\ TimeLists \subseteq Seq(Times)
  BY L1dAssumption
<1> QED BY <1>1, AccessListsType DEF OtherStep, ProgramStep

\* A step of the experiment with these programs is a step of Experiment.
LEMMA L1dStep == L1dInv /\ [L1dNext]_l1dVars => L1dInv' /\ [Next]_vars
<1> SUFFICES ASSUME L1dInv, [L1dNext]_l1dVars PROVE L1dInv' /\ [Next]_vars
  OBVIOUS
<1>0. TypeOK /\ programs' = programs
  BY DEF L1dInv, IInv, L1dNext, l1dVars
<1>1. CASE UNCHANGED l1dVars
  <2>1. UNCHANGED vars
    BY <1>1 DEF l1dVars
  <2>2. machine' = machine /\ contexts' = contexts
    BY <2>1 DEF vars
  <2> QED BY <1>0, <2>1, <2>2, NextIInv DEF L1dInv, ShippedStayInside
<1>2. CASE Drive
  <2>1. Next
    BY <1>2 DEF Drive, Next
  <2>2. ASSUME programs = "shipped" PROVE ShippedStayInside'
    <3>1. /\ machine.registers \in ShippedRegs
          /\ \A i \in Programs : contexts[i].registers \in ShippedRegs
      BY <2>2 DEF L1dInv, ShippedStayInside
    <3>2. machine' = machine \/ \E i \in Programs : SwitchTo(i)
      <4>1. CASE BeginTurn
        <5>1. todo \in Seq(Turns) /\ todo # <<>> /\ SwitchTo(Head(todo).who)
          BY <1>0, <4>1 DEF BeginTurn, TypeOK
        <5>2. Head(todo).who \in Programs
          <6>1. Head(todo) \in Turns
            BY <5>1, HeadTailProperties
          <6> QED BY <6>1 DEF Turns
        <5> QED BY <5>1, <5>2
      <4>2. CASE ~BeginTurn
        BY <1>2, <4>2 DEF Drive, DriverStep, SkipTurn, EndTurn, BeginTrial,
                          EndTrial, PanicOnScore, HaltContexts, Return
      <4> QED BY <4>1, <4>2
    <3>3. machine'.registers \in ShippedRegs
      BY <3>1, <3>2 DEF SwitchTo
    <3>4. ASSUME NEW i \in Programs PROVE contexts'[i].registers \in ShippedRegs
      <4>1. RegistersOf(i)' = RegistersOf(i)
        BY <1>2, DriverKeepsRegisters DEF Drive, L1dInv
      <4>2. running' = NoOne \/ contexts' = contexts
        BY <1>2 DEF Drive, DriverStep, BeginTurn, SkipTurn, EndTurn, LeaveTurn,
                    BeginTrial, EndTrial, PanicOnScore, HaltContexts, Return
      <4> QED BY <3>1, <4>1, <4>2 DEF RegistersOf, NoOne, Programs
    <3> QED BY <3>3, <3>4 DEF ShippedStayInside
  <2> QED BY <1>0, <2>1, <2>2, NextIInv DEF L1dInv, ShippedStayInside
<1>3. CASE programs = "shipped" /\ Steps /\ ShippedStep
  <2>1. /\ machine.registers \in ShippedRegs
        /\ \A i \in Programs : contexts[i].registers \in ShippedRegs
    BY <1>3 DEF L1dInv, ShippedStayInside
  <2>2. PICK r \in ShippedRegs : GoesOnInside(r)
    BY <1>0, <1>3, <2>1, ShippedStepType
  <2>3. /\ Next /\ contexts' = contexts
        /\ machine' = [machine EXCEPT !.registers = r]
    BY <2>2, GoesOnIsProgramStep DEF Next
  <2>4. machine'.registers = r
    BY <1>0, <2>3 DEF TypeOK, Machines
  <2> QED BY <2>1, <2>3, <2>4, NextIInv DEF L1dInv, ShippedStayInside
<1>4. CASE programs = "other" /\ Steps /\ OtherStep
  <2>1. Next
    BY <1>4, OtherStepIsProgramStep DEF Next
  <2> QED BY <1>0, <1>4, <2>1, NextIInv DEF L1dInv, ShippedStayInside
<1>5. CASE Ebreak
  <2>1. Next
    BY <1>5 DEF Next, ProgramStep
  <2>2. /\ running \in Programs /\ machine'.registers = machine.registers
        /\ contexts'[running].registers = machine.registers
        /\ \A i \in Programs : i # running => contexts'[i] = contexts[i]
    BY <1>0, <1>5 DEF Ebreak, Steps, LeaveHalted, LeaveTurn, TypeOK, Machines
  <2> QED BY <1>0, <2>1, <2>2, NextIInv DEF L1dInv, ShippedStayInside
<1> QED BY <1>1, <1>2, <1>3, <1>4, <1>5 DEF L1dNext

\* Its initial states are initial states of Experiment.
LEMMA L1dInitInv == L1dInit => L1dInv /\ Init
<1> SUFFICES ASSUME L1dInit PROVE L1dInv /\ Init
  OBVIOUS
<1>1. ASSUME programs = "shipped" PROVE ShippedStayInside
  <2>1. At("start") \in ShippedRegs
    BY PlacesType DEF ShippedPcs
  <2>2. /\ \A i \in Programs : contexts[i].registers = At("start")
        /\ machine.registers = contexts[0].registers
    BY <1>1 DEF L1dInit, Init
  <2> QED BY <2>1, <2>2 DEF ShippedStayInside, Programs
<1> QED BY <1>1, InitIInv DEF L1dInit, L1dInv, ShippedStayInside

-----------------------------------------------------------------------------

\* The shipped programs stay at their places throughout.
LEMMA L1dInvAlways == L1dSpec => []L1dInv
<1>1. L1dInv /\ [L1dNext]_l1dVars => L1dInv'
  BY L1dStep
<1> QED BY <1>1, L1dInitInv, PTL DEF L1dSpec

(* The shipped programs are programs as Experiment has them.               *)
THEOREM L1dImplementsExperiment == L1dSpec => Spec
<1>1. L1dInv /\ [L1dNext]_l1dVars => [Next]_vars
  BY L1dStep
<1>2. L1dInit => Init
  BY L1dInitInv
<1> QED BY <1>1, <1>2, L1dInvAlways, PTL DEF L1dSpec, Spec

-----------------------------------------------------------------------------
(* What the shipped programs have done at every point of a trial.          *)

(* The turns of a trial, and the work there is in a list of turns.         *)
TrialTurns == {Turn(PRIME, 0), Turn(PROBE, 0), Turn(EVICT_TARGET, 0),
               Turn(WARM_VICTIM, 1), Turn(VICTIM_ACCESS, 1)}
Works == {"prime", "probe", "evict", "warm", "access"}
WorkOf(turns) == [n \in 1 .. Len(turns) |-> Work(turns[n].who, turns[n].phase)]

(* The first n sets of the probe's order have been measured.               *)
IsMeasured(s) == s < Len(Probe) /\ Probe[s + 1].measured
ProbedUpTo(n) ==
  /\ Len(Probe) <= SETS
  /\ \A m \in 0 .. n - 1 : IsMeasured(PermutedSet(ProbeStart, m))
ProbedIfProbe == state.phase = PROBE => ProbedUpTo(SETS)

(* Before its first turn a program is at its start, after it in its loop.  *)
Started(i) == todo = <<>> \/ (todo = <<Turn(HALT, 1)>> /\ i = 0)
StartingUp ==
  /\ todo \in {HaltTurns, <<Turn(HALT, 1)>>, <<>>}
  /\ \A i \in Programs :
       i # running =>
         contexts[i].registers = At(IF Started(i) THEN "loop" ELSE "start")
  /\ running # NoOne =>
       machine.registers \in
         IF state.done THEN {At("loop")} ELSE {At("start"), At("ready")}

(* In its turn a program is at the work of the phase, or behind it.        *)
TurnIsDone ==
  /\ worked \o WorkOf(Tail(todo)) = WorkOf(Script)
  /\ ProbedIfProbe
TurnIsToBeDone ==
  /\ worked \o WorkOf(todo) = WorkOf(Script)
  /\ \/ machine.registers = At("loop") /\ Probe = <<>>
     \/ /\ state.phase # PROBE
        /\ machine.registers = At(Work(running, state.phase))
     \/ /\ state.phase = PROBE
        /\ \E n \in 0 .. SETS : machine.registers = Probing(n) /\ ProbedUpTo(n)
     \/ /\ state.phase = PROBE
        /\ \E n \in Sets : machine.registers = Submitting(n) /\ ProbedUpTo(n)
InTurn ==
  IF state.done THEN machine.registers = At("loop") /\ TurnIsDone
  ELSE \/ machine.registers = At("ready") /\ TurnIsDone
       \/ TurnIsToBeDone

(* The probe is the last turn of a trial that has one.                     *)
ProbeIsLast ==
  config.attack # "EvictTime" /\ todo # <<>> => todo[Len(todo)] = Turn(PROBE, 0)

BetweenTurns ==
  /\ worked \o WorkOf(todo) = WorkOf(Script)
  /\ config.attack # "EvictTime" /\ todo = <<>> => ProbedUpTo(SETS)

InTrial ==
  /\ \A i \in Programs : i # running => contexts[i].registers = At("loop")
  /\ worked \in Seq(Works)
  /\ ~AtRest => trial > summary.trials
  /\ trial > summary.trials =>
       /\ todo \in Seq(TrialTurns) /\ ProbeIsLast
       /\ IF running = NoOne THEN BetweenTurns ELSE InTurn

WorksOff ==
  programs = "shipped" =>
    /\ stage = "init" => StartingUp
    /\ stage = "trial" => InTrial

\* Two different places in the probe's order are different sets.
LEMMA StrideIsInjective ==
  ASSUME NEW start \in Nat, NEW j \in 0 .. SETS - 1, NEW k \in 0 .. SETS - 1,
         PermutedSet(start, j) = PermutedSet(start, k)
  PROVE  j = k
<1>1. SETS \in Nat \ {0} /\ ProbeStride \in Nat
  BY ExperimentAssumption, L1dAssumption
<1>2. ASSUME NEW a \in Nat, NEW b \in Nat, a % SETS = (a + b) % SETS
      PROVE  b % SETS = 0
  <2>1. PICK q \in Nat : a = SETS * q + (a % SETS)
    <3>1. a \div SETS \in Nat /\ a = SETS * (a \div SETS) + (a % SETS)
      BY <1>1, Z3
    <3> QED BY <3>1
  <2>2. PICK r \in Nat : a + b = SETS * r + (a % SETS)
    <3>1. /\ (a + b) \div SETS \in Nat
          /\ a + b = SETS * ((a + b) \div SETS) + ((a + b) % SETS)
      BY <1>1, Z3
    <3> QED BY <1>2, <3>1
  <2>3. r - q \in Int /\ b = SETS * (r - q)
    BY <1>1, <2>1, <2>2, Z3
  <2> QED BY <1>1, <2>3, Z3
<1>3. ASSUME NEW m \in 0 .. SETS - 1, NEW n \in 0 .. SETS - 1, m < n,
             PermutedSet(start, m) = PermutedSet(start, n)
      PROVE  FALSE
  <2>1. n - m \in 1 .. SETS - 1
    BY <1>1, <1>3
  <2>2. /\ start + m * ProbeStride \in Nat /\ (n - m) * ProbeStride \in Nat
        /\ start + n * ProbeStride
             = (start + m * ProbeStride) + (n - m) * ProbeStride
    BY <1>1, <1>3, <2>1, Z3
  <2>3. ((n - m) * ProbeStride) % SETS = 0
    BY <1>2, <1>3, <2>2 DEF PermutedSet
  <2> QED BY <2>1, <2>3, L1dAssumption
<1>4. j < k \/ k < j \/ j = k
  BY <1>1
<1> QED BY <1>3, <1>4

\* A place in the probe's order is a set, and every set has its place.
LEMMA ProbeCoversSets ==
  ASSUME NEW start \in Nat
  PROVE  /\ \A n \in Nat : PermutedSet(start, n) \in Sets
         /\ \A s \in Sets : \E n \in 0 .. SETS - 1 : PermutedSet(start, n) = s
<1>1. SETS \in Nat \ {0} /\ ProbeStride \in Nat
  BY ExperimentAssumption, L1dAssumption
<1>2. ASSUME NEW n \in Nat PROVE PermutedSet(start, n) \in Sets
  <2>1. start + n * ProbeStride \in Nat
    BY <1>1
  <2> HIDE DEF Sets
  <2> DEFINE a == start + n * ProbeStride
  <2>2. a % SETS \in 0 .. SETS - 1
    <3> HIDE DEF a
    <3> QED BY <1>1, <2>1 DEF a
  <2> QED BY <2>2 DEF PermutedSet, Sets
<1>3. ASSUME NEW s \in Sets,
             \A n \in 0 .. SETS - 1 : PermutedSet(start, n) # s
      PROVE  FALSE
  <2> DEFINE f == [n \in 0 .. SETS - 1 |-> PermutedSet(start, n)]
  <2>1. f \in [0 .. SETS - 1 -> (0 .. SETS - 1) \ {s}]
    BY <1>1, <1>2, <1>3
  <2>2. IsFiniteSet(0 .. SETS - 1) /\ Cardinality(0 .. SETS - 1) = SETS
    BY <1>1, FS_Interval
  <2>3. /\ IsFiniteSet((0 .. SETS - 1) \ {s})
        /\ Cardinality((0 .. SETS - 1) \ {s}) = SETS - 1
    BY <1>3, <2>2, FS_RemoveElement
  <2>4. SETS - 1 < SETS
    BY <1>1
  <2> HIDE DEF f
  <2>5. PICK x \in 0 .. SETS - 1, y \in 0 .. SETS - 1 : x # y /\ f[x] = f[y]
    BY <2>1, <2>2, <2>3, <2>4, FS_PigeonHole
  <2>6. PermutedSet(start, x) = PermutedSet(start, y)
    BY <2>5 DEF f
  <2> QED BY <2>5, <2>6, StrideIsInjective
<1> QED BY <1>2, <1>3

\* A probe begins at a number.
LEMMA ProbeStartType ==
  ASSUME TypeOK PROVE ProbeStart \in Nat
<1>1. SETS \in Nat \ {0}
  BY ExperimentAssumption
<1>2. state.secretSet \in Nat /\ state.targetSet \in Nat
  BY <1>1 DEF TypeOK, States
<1> QED BY <1>1, <1>2 DEF ProbeStart

-----------------------------------------------------------------------------
(* The work of a list of turns.                                            *)

\* The work of a turn, which in one phase only is the probe.
LEMMA WorkOfTurn ==
  ASSUME NEW t \in TrialTurns
  PROVE  /\ Work(t.who, t.phase) \in Works
         /\ Work(t.who, t.phase) = "probe" <=> t.phase = PROBE
         /\ t.phase = PROBE => t.who = 0
         /\ t \in Turns
<1>1. /\ t.who = 0 => Work(t.who, t.phase) = AttackerWork(t.phase)
      /\ t.who = 1 => Work(t.who, t.phase) = VictimWork(t.phase)
  BY DEF Work
<1>2. /\ AttackerWork(PRIME) = "prime" /\ AttackerWork(PROBE) = "probe"
      /\ AttackerWork(EVICT_TARGET) = "evict"
      /\ VictimWork(WARM_VICTIM) = "warm" /\ VictimWork(VICTIM_ACCESS) = "access"
  BY DEF AttackerWork, VictimWork
<1>3. \/ t.phase = PRIME /\ t.who = 0
      \/ t.phase = PROBE /\ t.who = 0
      \/ t.phase = EVICT_TARGET /\ t.who = 0
      \/ t.phase = WARM_VICTIM /\ t.who = 1
      \/ t.phase = VICTIM_ACCESS /\ t.who = 1
  BY DEF TrialTurns, Turn
<1>4. t \in Turns
  BY DEF TrialTurns, Turn, Turns
<1> QED BY <1>1, <1>2, <1>3, <1>4 DEF Works

\* The work of a list of turns is a list of works.
LEMMA WorkOfType ==
  ASSUME NEW turns \in Seq(TrialTurns)
  PROVE  WorkOf(turns) \in Seq(Works) /\ Len(WorkOf(turns)) = Len(turns)
<1>1. Len(turns) \in Nat /\ \A n \in 1 .. Len(turns) : turns[n] \in TrialTurns
  BY ElementOfSeq, LenProperties
<1>2. WorkOf(turns) \in [1 .. Len(turns) -> Works]
  BY <1>1, WorkOfTurn DEF WorkOf
<1> QED BY <1>1, <1>2, SeqFromFunction

\* Working off the first turn moves its work from what is to be done to what
\* has been done.
LEMMA WorkIsMoved ==
  ASSUME NEW done \in Seq(Works), NEW turns \in Seq(TrialTurns), turns # <<>>
  PROVE  Append(done, Work(Head(turns).who, Head(turns).phase)) \o WorkOf(Tail(turns))
           = done \o WorkOf(turns)
<1> DEFINE x == Work(Head(turns).who, Head(turns).phase)
           rest == WorkOf(Tail(turns))
<1>1. /\ Head(turns) \in TrialTurns /\ Tail(turns) \in Seq(TrialTurns)
      /\ Len(Tail(turns)) = Len(turns) - 1 /\ Len(turns) \in Nat \ {0}
      /\ \A n \in 1 .. Len(Tail(turns)) : Tail(turns)[n] = turns[n + 1]
      /\ Head(turns) = turns[1]
  BY HeadTailProperties, EmptySeq
<1>2. x \in Works /\ rest \in Seq(Works) /\ Len(rest) = Len(turns) - 1
  BY <1>1, WorkOfTurn, WorkOfType
<1>3. \A n \in 1 .. Len(turns) - 1 :
        rest[n] = Work(turns[n + 1].who, turns[n + 1].phase)
  BY <1>1 DEF WorkOf
<1>4. WorkOf(turns) = <<x>> \o rest
  <2>1. /\ WorkOf(turns) \in Seq(Works) /\ Len(WorkOf(turns)) = Len(turns)
        /\ \A n \in 1 .. Len(turns) :
             WorkOf(turns)[n] = Work(turns[n].who, turns[n].phase)
    BY <1>1, WorkOfType DEF WorkOf
  <2>2. x = Work(turns[1].who, turns[1].phase)
    BY <1>1
  <2> HIDE DEF x, rest
  <2>3. <<x>> \in Seq(Works) /\ Len(<<x>>) = 1 /\ <<x>>[1] = x
    BY <1>2
  <2>4. /\ <<x>> \o rest \in Seq(Works) /\ Len(<<x>> \o rest) = Len(turns)
        /\ \A n \in 1 .. Len(turns) :
             (<<x>> \o rest)[n] = IF n <= 1 THEN x ELSE rest[n - 1]
    <3>1. 1 + Len(rest) = Len(turns)
      BY <1>1, <1>2
    <3>2. /\ <<x>> \o rest \in Seq(Works) /\ Len(<<x>> \o rest) = 1 + Len(rest)
          /\ \A n \in 1 .. 1 + Len(rest) :
               (<<x>> \o rest)[n] = IF n <= 1 THEN <<x>>[n] ELSE rest[n - 1]
      BY <1>2, <2>3, ConcatProperties
    <3>3. \A n \in 1 .. Len(turns) : n <= 1 => n = 1
      BY <1>1
    <3> QED BY <2>3, <3>1, <3>2, <3>3
  <2>5. ASSUME NEW n \in 1 .. Len(turns)
        PROVE  WorkOf(turns)[n] = (<<x>> \o rest)[n]
    <3>1. CASE n = 1
      BY <2>1, <2>2, <2>4, <3>1
    <3>2. CASE n # 1
      <4>1. n - 1 \in 1 .. Len(turns) - 1 /\ ~(n <= 1) /\ (n - 1) + 1 = n
        BY <1>1, <3>2
      <4> QED BY <1>3, <2>1, <2>4, <4>1
    <3> QED BY <3>1, <3>2
  <2> QED BY <2>1, <2>4, <2>5, SeqEqual
<1> HIDE DEF x, rest
<1>5. Append(done, x) = done \o <<x>> /\ <<x>> \in Seq(Works)
  BY <1>2, AppendIsConcat
<1> QED BY <1>2, <1>4, <1>5, ConcatAssociative DEF x, rest

\* The script of a trial, which ends with the probe if it has one.
LEMMA ScriptWorks ==
  ASSUME config \in Config
  PROVE  /\ Script \in Seq(TrialTurns) /\ Script # <<>>
         /\ config.attack # "EvictTime" => Script[Len(Script)] = Turn(PROBE, 0)
<1>1. /\ Turn(PRIME, 0) \in TrialTurns /\ Turn(PROBE, 0) \in TrialTurns
      /\ Turn(WARM_VICTIM, 1) \in TrialTurns /\ Turn(EVICT_TARGET, 0) \in TrialTurns
      /\ Turn(VICTIM_ACCESS, 1) \in TrialTurns
  BY DEF TrialTurns
<1>2. VictimTurn \in Seq(TrialTurns)
  BY <1>1 DEF VictimTurn
<1>3. CASE config.attack = "EvictTime"
  <2>1. <<Turn(WARM_VICTIM, 1), Turn(EVICT_TARGET, 0)>> \in Seq(TrialTurns)
    BY <1>1
  <2>2. Script \in Seq(TrialTurns) /\ Len(Script) # 0
    BY <1>2, <1>3, <2>1 DEF Script
  <2> QED BY <1>3, <2>2
<1>4. CASE config.attack # "EvictTime"
  <2>1. <<Turn(PRIME, 0)>> \in Seq(TrialTurns) /\ <<Turn(PROBE, 0)>> \in Seq(TrialTurns)
    BY <1>1
  <2>2. PICK first : first = <<Turn(PRIME, 0)>> \o VictimTurn
    OBVIOUS
  <2>3. first \in Seq(TrialTurns) /\ Script = first \o <<Turn(PROBE, 0)>>
    BY <1>2, <1>4, <2>1, <2>2 DEF Script
  <2>4. Script = Append(first, Turn(PROBE, 0))
    BY <1>1, <2>3, AppendIsConcat
  <2> QED BY <1>1, <2>3, <2>4, AppendProperties
<1> QED BY <1>3, <1>4

-----------------------------------------------------------------------------
(* The steps of the shipped programs.                                      *)

\* What a program's own step leaves alone.
LEMMA OwnStep ==
  ASSUME TypeOK, ShippedStep, machine.registers \in ShippedRegs
  PROVE  /\ UNCHANGED <<config, stage, trial, secret, summary, todo, running, contexts>>
         /\ state'.phase = state.phase /\ ProbeStart' = ProbeStart
         /\ Script' = Script /\ AtRest' = AtRest
<1>1. PICK r \in ShippedRegs : GoesOnInside(r)
  BY ShippedStepType
<1>2. /\ UNCHANGED <<config, stage, trial, secret, summary, todo, running, contexts>>
      /\ \/ state' = state
         \/ \E list : state' = [state EXCEPT !.submitted = list]
         \/ state' = [state EXCEPT !.done = TRUE]
  BY <1>1 DEF GoesOnInside, Compute, SubmitScalar, ExpDone, UnchangedByStep,
              UnchangedByPrograms
<1>3. /\ state'.phase = state.phase /\ state'.secretSet = state.secretSet
      /\ state'.targetSet = state.targetSet
  BY <1>2 DEF TypeOK, States
<1> QED BY <1>2, <1>3 DEF ProbeStart, Script, VictimTurn, AtRest

\* A step of a program that leaves the list alone, at the place it goes to.
LEMMA ComputeEffect ==
  ASSUME TypeOK, NEW as, NEW r, Compute(as, r)
  PROVE  machine'.registers = r /\ state' = state
  BY DEF Compute, GoesOnAt, TypeOK, Machines

\* The measured sets stay measured when the list stays.
LEMMA ProbedKept ==
  ASSUME ProbeStart' = ProbeStart, Probe' = Probe, NEW n
  PROVE  ProbedUpTo(n)' <=> ProbedUpTo(n)
  BY DEF ProbedUpTo, IsMeasured, PermutedSet

\* Submitting the time of one more set.
LEMMA OneMoreSet ==
  ASSUME TypeOK, NEW n \in Sets, ProbedUpTo(n), NEW t \in Times, NEW r,
         SubmitScalar(PermutedSet(ProbeStart, n), t, r),
         ProbeStart' = ProbeStart
  PROVE  ProbedUpTo(n + 1)'
<1> DEFINE index == PermutedSet(ProbeStart, n)
           size == IF Len(Probe) <= index THEN index + 1 ELSE Len(Probe)
<1>1. /\ index \in Sets /\ SETS \in Nat \ {0}
      /\ \A m \in 0 .. n : PermutedSet(ProbeStart, m) \in Sets
  <2>1. SETS \in Nat \ {0} /\ n \in Nat /\ \A m \in 0 .. n : m \in Nat
    BY ExperimentAssumption
  <2>2. ProbeStart \in Nat
    BY ProbeStartType
  <2> HIDE DEF Sets
  <2>3. \A m \in Nat : PermutedSet(ProbeStart, m) \in Sets
    BY <2>2, ProbeCoversSets
  <2> QED BY <2>1, <2>3
<1>2. Len(Probe) \in Nat /\ Len(Probe) <= SETS
  BY LenProperties DEF TypeOK, States, Probe, ProbedUpTo
<1>3. \E f : /\ Probe' = [m \in 1 .. size |->
                            IF m = index + 1 THEN Measured(t, TRUE) ELSE f[m]]
             /\ \A m \in 1 .. Len(Probe) : f[m] = Probe[m]
  <2> DEFINE f == [m \in 1 .. size |-> IF m <= Len(Probe) THEN Probe[m] ELSE Measured(0, FALSE)]
             new == [m \in 1 .. size |->
                       IF m = index + 1 THEN Measured(t, TRUE)
                       ELSE IF m <= Len(Probe) THEN Probe[m] ELSE Measured(0, FALSE)]
  <2>1. state' = [state EXCEPT !.submitted = new]
    BY DEF SubmitScalar, Probe
  <2>2. Probe' = new
    BY <2>1 DEF Probe, TypeOK, States
  <2>3. size \in Nat /\ size >= Len(Probe)
    BY <1>1, <1>2
  <2> HIDE DEF size, index
  <2>4. \A m \in 1 .. Len(Probe) : m \in 1 .. size /\ f[m] = Probe[m]
    BY <1>2, <2>3
  <2>5. new = [m \in 1 .. size |-> IF m = index + 1 THEN Measured(t, TRUE) ELSE f[m]]
    OBVIOUS
  <2> QED BY <2>2, <2>4, <2>5
<1>4. PICK f : /\ Probe' = [m \in 1 .. size |->
                              IF m = index + 1 THEN Measured(t, TRUE) ELSE f[m]]
               /\ \A m \in 1 .. Len(Probe) : f[m] = Probe[m]
  BY <1>3
<1>5. size \in Nat /\ size <= SETS /\ Len(Probe) <= size /\ index + 1 <= size
      /\ index \in Nat
  BY <1>1, <1>2
<1> HIDE DEF size, index
<1>6. Len(Probe') = size
  BY <1>4, <1>5
<1>7. ASSUME NEW s \in Sets, IsMeasured(s) \/ s = index
      PROVE  IsMeasured(s)'
  <2>1. s < size /\ s + 1 \in 1 .. size
    BY <1>2, <1>5, <1>7 DEF IsMeasured
  <2>2. CASE s = index
    BY <1>4, <1>6, <2>1, <2>2 DEF IsMeasured, Measured
  <2>3. CASE s # index
    <3>1. s + 1 # index + 1 /\ s + 1 \in 1 .. Len(Probe) /\ Probe[s + 1].measured
      BY <1>2, <1>5, <1>7, <2>3 DEF IsMeasured
    <3> QED BY <1>4, <1>6, <2>1, <3>1 DEF IsMeasured
  <2> QED BY <2>2, <2>3
<1>8. ASSUME NEW m \in 0 .. n PROVE IsMeasured(PermutedSet(ProbeStart, m))'
  <2>1. m = n \/ m \in 0 .. n - 1
    BY <1>1
  <2>2. IsMeasured(PermutedSet(ProbeStart, m)) \/ PermutedSet(ProbeStart, m) = index
    BY <2>1 DEF ProbedUpTo, index
  <2>3. PermutedSet(ProbeStart, m)' = PermutedSet(ProbeStart, m)
    BY DEF PermutedSet
  <2> QED BY <1>1, <1>7, <2>2, <2>3 DEF IsMeasured
<1>9. 0 .. (n + 1) - 1 = 0 .. n
  BY <1>1
<1> QED BY <1>5, <1>6, <1>8, <1>9 DEF ProbedUpTo

\* A step of a shipped program in its turn of a trial.
LEMMA ShippedStepInTrial ==
  ASSUME L1dInv, programs = "shipped", Steps, ShippedStep, stage = "trial", InTrial
  PROVE  InTrial'
<1> DEFINE w == Work(running, state.phase)
<1>1. /\ TypeOK /\ machine.registers \in ShippedRegs
      /\ running # NoOne /\ ~state.done /\ ~AtRest
      /\ todo # <<>> /\ running = Head(todo).who /\ state.phase = Head(todo).phase
  BY DEF L1dInv, IInv, ShippedStayInside, RunsAsItself, Steps, AtRest
<1>2. /\ todo \in Seq(TrialTurns) /\ ProbeIsLast /\ worked \in Seq(Works)
      /\ trial > summary.trials
      /\ \A i \in Programs : i # running => contexts[i].registers = At("loop")
      /\ (machine.registers = At("ready") /\ TurnIsDone) \/ TurnIsToBeDone
  BY <1>1 DEF InTrial, InTurn
<1>3. /\ w \in Works /\ (w = "probe" <=> state.phase = PROBE)
      /\ state.phase = PROBE => running = 0
  <2>1. Head(todo) \in TrialTurns
    BY <1>1, <1>2, HeadTailProperties
  <2> QED BY <1>1, <2>1, WorkOfTurn
<1>4. /\ UNCHANGED <<config, stage, trial, secret, summary, todo, running, contexts>>
      /\ state'.phase = state.phase /\ ProbeStart' = ProbeStart
      /\ Script' = Script /\ AtRest' = AtRest
  BY <1>1, OwnStep
<1>5. Append(worked, w) \o WorkOf(Tail(todo)) = worked \o WorkOf(todo)
  BY <1>1, <1>2, WorkIsMoved
<1>6. Append(worked, w) \in Seq(Works)
  BY <1>2, <1>3, AppendProperties
<1>7. SUFFICES worked' \in Seq(Works) /\ InTurn'
  <2>1. todo' \in Seq(TrialTurns) /\ ProbeIsLast' /\ trial' > summary'.trials
    BY <1>2, <1>4 DEF ProbeIsLast
  <2> QED BY <1>1, <1>2, <1>4, <2>1 DEF InTrial
<1> HIDE DEF w
<1>8. CASE machine.registers = At("ready") /\ TurnIsDone
  <2>1. pcNow = "ready"
    BY <1>8 DEF pcNow, At
  <2>2. ExpDone(At("loop")) /\ worked' = worked
    BY <2>1 DEF ShippedStep, StartUp, GetPhase, Touch, ProbeOneSet, SubmitOneSet,
                ProbeIsOver, SayDone
  <2>3. /\ machine'.registers = At("loop") /\ state'.done
        /\ state'.submitted = state.submitted
    BY <1>1, <2>2 DEF ExpDone, GoesOnAt, TypeOK, Machines, States
  <2>4. ProbedIfProbe'
    BY <1>4, <1>8, <2>3, ProbedKept DEF TurnIsDone, ProbedIfProbe, Probe
  <2>5. TurnIsDone'
    BY <1>4, <1>8, <2>2, <2>4 DEF TurnIsDone
  <2> QED BY <1>2, <2>2, <2>3, <2>5 DEF InTurn
<1>9. CASE /\ worked \o WorkOf(todo) = WorkOf(Script)
           /\ machine.registers = At("loop") /\ Probe = <<>>
  <2>1. pcNow = "loop"
    BY <1>9 DEF pcNow, At
  <2>2. Compute(<<>>, At(w)) /\ worked' = worked
    BY <2>1 DEF ShippedStep, StartUp, GetPhase, Touch, ProbeOneSet, SubmitOneSet,
                ProbeIsOver, SayDone, w
  <2>3. machine'.registers = At(w) /\ state' = state
    BY <1>1, <2>2, ComputeEffect
  <2>4. (worked \o WorkOf(todo) = WorkOf(Script))'
    BY <1>4, <1>9, <2>2
  <2>5. CASE state.phase = PROBE
    <3>1. machine'.registers = Probing(0) /\ 0 \in 0 .. SETS
      BY <1>3, <2>3, <2>5, ExperimentAssumption DEF At, Probing
    <3>2. ProbedUpTo(0)'
      BY <1>9, <2>3, EmptySeq, ExperimentAssumption DEF ProbedUpTo, Probe
    <3> QED BY <1>1, <1>2, <1>4, <2>2, <2>3, <2>4, <2>5, <3>1, <3>2
            DEF InTurn, TurnIsToBeDone
  <2>6. CASE state.phase # PROBE
    <3>1. machine'.registers = At(Work(running, state.phase)')
      BY <1>4, <2>3 DEF w
    <3> QED BY <1>1, <1>2, <1>4, <2>2, <2>3, <2>4, <2>6, <3>1
            DEF InTurn, TurnIsToBeDone
  <2> QED BY <2>5, <2>6
<1>10. CASE /\ worked \o WorkOf(todo) = WorkOf(Script)
            /\ state.phase # PROBE /\ machine.registers = At(w)
  <2>1. pcNow = w /\ w \in {"prime", "evict", "warm", "access"}
    BY <1>3, <1>10 DEF pcNow, At, Works
  <2>2. (\E as : Compute(as, At("ready"))) /\ worked' = Append(worked, w)
    BY <2>1 DEF ShippedStep, StartUp, GetPhase, Touch, ProbeOneSet, SubmitOneSet,
                ProbeIsOver, SayDone
  <2>3. machine'.registers = At("ready") /\ state' = state
    BY <1>1, <2>2, ComputeEffect
  <2>4. TurnIsDone'
    BY <1>4, <1>5, <1>10, <2>2 DEF TurnIsDone, ProbedIfProbe
  <2> QED BY <1>1, <1>6, <2>2, <2>3, <2>4 DEF InTurn
<1>11. CASE /\ worked \o WorkOf(todo) = WorkOf(Script)
            /\ state.phase = PROBE
            /\ \E n \in 0 .. SETS : machine.registers = Probing(n) /\ ProbedUpTo(n)
  <2>1. PICK n \in 0 .. SETS : machine.registers = Probing(n) /\ ProbedUpTo(n)
    BY <1>11
  <2>2. pcNow = "probe" /\ iNow = n
    BY <2>1 DEF pcNow, iNow, Probing
  <2>3. \/ n < SETS /\ (\E as : Compute(as, Submitting(n))) /\ worked' = worked
        \/ n = SETS /\ Compute(<<>>, At("ready")) /\ worked' = Append(worked, w)
    BY <1>3, <1>11, <2>2
    DEF ShippedStep, StartUp, GetPhase, Touch, ProbeOneSet, SubmitOneSet,
        ProbeIsOver, SayDone
  <2>4. CASE n < SETS /\ (\E as : Compute(as, Submitting(n))) /\ worked' = worked
    <3>1. machine'.registers = Submitting(n) /\ state' = state
      BY <1>1, <2>4, ComputeEffect
    <3>2. n \in Sets
      BY <2>4, ExperimentAssumption
    <3>3. ProbedUpTo(n)'
      BY <1>4, <2>1, <3>1, ProbedKept DEF Probe
    <3>4. TurnIsToBeDone'
      BY <1>4, <1>11, <2>4, <3>1, <3>2, <3>3 DEF TurnIsToBeDone
    <3> QED BY <1>1, <1>2, <2>4, <3>1, <3>4 DEF InTurn
  <2>5. CASE n = SETS /\ Compute(<<>>, At("ready")) /\ worked' = Append(worked, w)
    <3>1. machine'.registers = At("ready") /\ state' = state
      BY <1>1, <2>5, ComputeEffect
    <3>2. ProbedUpTo(SETS)'
      BY <1>4, <2>1, <2>5, <3>1, ProbedKept DEF Probe
    <3>3. TurnIsDone'
      BY <1>4, <1>5, <1>11, <2>5, <3>2 DEF TurnIsDone, ProbedIfProbe
    <3> QED BY <1>1, <1>6, <2>5, <3>1, <3>3 DEF InTurn
  <2> QED BY <2>3, <2>4, <2>5
<1>12. CASE /\ worked \o WorkOf(todo) = WorkOf(Script)
            /\ state.phase = PROBE
            /\ \E n \in Sets : machine.registers = Submitting(n) /\ ProbedUpTo(n)
  <2>1. PICK n \in Sets : machine.registers = Submitting(n) /\ ProbedUpTo(n)
    BY <1>12
  <2>2. pcNow = "submit" /\ iNow = n
    BY <2>1 DEF pcNow, iNow, Submitting
  <2>3. PICK t \in Times : SubmitScalar(PermutedSet(ProbeStart, n), t, Probing(n + 1))
    BY <2>2 DEF ShippedStep, StartUp, GetPhase, Touch, ProbeOneSet, SubmitOneSet,
                ProbeIsOver, SayDone
  <2>4. worked' = worked
    BY <2>2 DEF ShippedStep, StartUp, GetPhase, Touch, ProbeOneSet, SubmitOneSet,
                ProbeIsOver, SayDone
  <2>5. machine'.registers = Probing(n + 1) /\ state'.done = state.done
    BY <1>1, <2>3 DEF SubmitScalar, GoesOnAt, TypeOK, Machines, States
  <2>6. ProbedUpTo(n + 1)'
    BY <1>1, <1>4, <2>1, <2>3, OneMoreSet
  <2>7. n + 1 \in 0 .. SETS
    BY ExperimentAssumption
  <2>8. TurnIsToBeDone'
    BY <1>4, <1>12, <2>4, <2>5, <2>6, <2>7 DEF TurnIsToBeDone
  <2> QED BY <1>1, <1>2, <2>4, <2>5, <2>8 DEF InTurn
<1> QED BY <1>2, <1>8, <1>9, <1>10, <1>11, <1>12 DEF TurnIsToBeDone, w

\* A step of a shipped program before its first trial.
LEMMA ShippedStepInStartUp ==
  ASSUME L1dInv, programs = "shipped", Steps, ShippedStep, stage = "init", StartingUp
  PROVE  StartingUp'
<1>1. /\ TypeOK /\ machine.registers \in ShippedRegs
      /\ running # NoOne /\ ~state.done
      /\ machine.registers \in {At("start"), At("ready")}
  BY DEF L1dInv, IInv, ShippedStayInside, Steps, StartingUp
<1>2. UNCHANGED <<todo, running, contexts>>
  BY <1>1, OwnStep
<1>3. pcNow \in {"start", "ready"}
  BY <1>1 DEF pcNow, At
<1>4. \/ \E as : Compute(as, At("ready"))
      \/ ExpDone(At("loop"))
  BY <1>3 DEF ShippedStep, StartUp, GetPhase, Touch, ProbeOneSet, SubmitOneSet,
              ProbeIsOver, SayDone
<1>5. CASE \E as : Compute(as, At("ready"))
  <2>1. machine'.registers = At("ready") /\ state' = state
    BY <1>1, <1>5, ComputeEffect
  <2> QED BY <1>1, <1>2, <2>1 DEF StartingUp, Started
<1>6. CASE ExpDone(At("loop"))
  <2>1. machine'.registers = At("loop") /\ state'.done
    BY <1>1, <1>6 DEF ExpDone, GoesOnAt, TypeOK, Machines, States
  <2> QED BY <1>1, <1>2, <2>1 DEF StartingUp, Started
<1> QED BY <1>4, <1>5, <1>6

-----------------------------------------------------------------------------
(* The steps of the driver.                                                *)

\* The driver begins a turn.
LEMMA BeginTurnWorksOff ==
  ASSUME L1dInv, programs = "shipped", BeginTurn, worked' = worked,
         stage = "init" => StartingUp, stage = "trial" => InTrial
  PROVE  (stage = "init" => StartingUp)' /\ (stage = "trial" => InTrial)'
<1>1. /\ TypeOK /\ running = NoOne /\ todo # <<>>
      /\ UNCHANGED <<config, stage, trial, secret, todo, contexts, summary>>
      /\ running' = Head(todo).who
      /\ machine'.registers = contexts[Head(todo).who].registers
      /\ state'.done = FALSE /\ state'.submitted = <<>>
  BY DEF BeginTurn, BeginPhase, SwitchTo, L1dInv, IInv
<1>2. ASSUME stage' = "init" PROVE StartingUp'
  <2>1. StartingUp
    BY <1>1, <1>2
  <2>2. todo = HaltTurns \/ todo = <<Turn(HALT, 1)>>
    BY <1>1, <2>1 DEF StartingUp
  <2>3. /\ todo = HaltTurns => Head(todo).who = 0
        /\ todo = <<Turn(HALT, 1)>> => Head(todo).who = 1
    BY DEF HaltTurns, Turn
  <2>4. Head(todo).who \in Programs /\ ~Started(Head(todo).who)
    <3>1. HaltTurns # <<Turn(HALT, 1)>>
      BY DEF HaltTurns, Turn
    <3> QED BY <1>1, <2>2, <2>3, <3>1 DEF Started
  <2>5. machine'.registers = At("start")
    BY <1>1, <2>1, <2>4 DEF StartingUp
  <2>6. Started(0)' = Started(0) /\ Started(1)' = Started(1)
    BY <1>1 DEF Started
  <2> QED BY <1>1, <2>1, <2>5, <2>6 DEF StartingUp
<1>3. ASSUME stage' = "trial" PROVE InTrial'
  <2>1. InTrial /\ trial > summary.trials /\ Script' = Script
    BY <1>1, <1>3 DEF InTrial, AtRest, Script, VictimTurn
  <2>2. /\ todo \in Seq(TrialTurns) /\ ProbeIsLast /\ BetweenTurns
        /\ worked \in Seq(Works)
        /\ \A i \in Programs : contexts[i].registers = At("loop")
    BY <1>1, <2>1 DEF InTrial
  <2>3. Head(todo) \in TrialTurns
    BY <1>1, <2>2, HeadTailProperties
  <2>4. Head(todo).who \in Programs
    BY <2>3, WorkOfTurn DEF Turns
  <2>5. machine'.registers = At("loop") /\ running' # NoOne
    BY <1>1, <2>2, <2>4
  <2>6. TurnIsToBeDone'
    BY <1>1, <2>1, <2>2, <2>5 DEF TurnIsToBeDone, BetweenTurns, Probe
  <2>7. ProbeIsLast'
    BY <1>1, <2>2 DEF ProbeIsLast
  <2> QED BY <1>1, <2>1, <2>2, <2>5, <2>6, <2>7 DEF InTrial, InTurn
<1> QED BY <1>2, <1>3

\* A list that has nothing behind its head has one element.
LEMMA LenOfOneTurn ==
  ASSUME NEW S, NEW turns \in Seq(S), turns # <<>>, Tail(turns) = <<>>
  PROVE  Len(turns) = 1
<1> DEFINE n == Len(turns)
           k == Len(Tail(turns))
<1>1. k = n - 1 /\ n \in Nat
  BY HeadTailProperties, LenProperties
<1>2. Len(<<>>) = 0
  BY EmptySeq
<1>3. k = 0
  BY <1>2, Zenon
<1> HIDE DEF n, k
<1>4. n = 1
  BY <1>1, <1>3
<1> QED BY <1>4 DEF n

\* The driver ends a turn, whose program is back in its loop.
LEMMA EndTurnWorksOff ==
  ASSUME L1dInv, programs = "shipped", EndTurn, worked' = worked,
         stage = "init" => StartingUp, stage = "trial" => InTrial
  PROVE  (stage = "init" => StartingUp)' /\ (stage = "trial" => InTrial)'
<1>1. /\ TypeOK /\ running # NoOne /\ state.done /\ running' = NoOne
      /\ todo # <<>> /\ state.phase = Head(todo).phase /\ running = Head(todo).who
      /\ todo' = Tail(todo)
      /\ UNCHANGED <<config, stage, trial, secret, state, machine, summary>>
  BY DEF EndTurn, LeaveTurn, L1dInv, IInv, RunsAsItself
<1>2. \A i \in Programs : contexts'[i].registers =
        IF i = running THEN machine.registers ELSE contexts[i].registers
  <2>1. /\ running \in Programs /\ contexts \in [Programs -> Contexts]
        /\ contexts' = [contexts EXCEPT ![running] =
                          [contexts[running] EXCEPT !.registers = machine.registers]]
    BY <1>1 DEF EndTurn, LeaveTurn, TypeOK
  <2> QED BY <2>1 DEF Contexts
<1>3. ASSUME stage' = "init" PROVE StartingUp'
  <2>1. StartingUp /\ machine.registers = At("loop")
    BY <1>1, <1>3 DEF StartingUp
  <2>2. CASE todo = HaltTurns
    <3>1. running = 0 /\ todo' = <<Turn(HALT, 1)>> /\ todo # <<>>
          /\ todo # <<Turn(HALT, 1)>>
      BY <1>1, <2>2 DEF HaltTurns, Turn
    <3>2. ~Started(1) /\ Started(0)' /\ ~Started(1)'
      BY <3>1 DEF Started
    <3> QED BY <1>1, <1>2, <2>1, <3>1, <3>2 DEF StartingUp
  <2>3. CASE todo = <<Turn(HALT, 1)>>
    <3>1. running = 1 /\ todo' = <<>>
      BY <1>1, <2>3 DEF Turn
    <3>2. Started(0) /\ Started(0)' /\ Started(1)'
      BY <2>3, <3>1 DEF Started
    <3> QED BY <1>1, <1>2, <2>1, <3>1, <3>2 DEF StartingUp
  <2> QED BY <1>1, <2>1, <2>2, <2>3 DEF StartingUp
<1>4. ASSUME stage' = "trial" PROVE InTrial'
  <2>1. InTrial /\ trial > summary.trials /\ Script' = Script
    BY <1>1, <1>4 DEF InTrial, AtRest, Script, VictimTurn
  <2>2. /\ todo \in Seq(TrialTurns) /\ ProbeIsLast /\ TurnIsDone
        /\ worked \in Seq(Works) /\ machine.registers = At("loop")
        /\ \A i \in Programs : i # running => contexts[i].registers = At("loop")
    BY <1>1, <2>1 DEF InTrial, InTurn
  <2>3. /\ Tail(todo) \in Seq(TrialTurns) /\ Len(Tail(todo)) = Len(todo) - 1
        /\ \A n \in 1 .. Len(Tail(todo)) : Tail(todo)[n] = todo[n + 1]
        /\ Len(todo) \in Nat \ {0} /\ Len(Tail(todo)) \in Nat
        /\ Head(todo) = todo[1]
    BY <1>1, <2>2, HeadTailProperties, EmptySeq, LenProperties
  <2>4. ProbeIsLast'
    <3> SUFFICES ASSUME config.attack # "EvictTime", Tail(todo) # <<>>
                 PROVE  Tail(todo)[Len(Tail(todo))] = Turn(PROBE, 0)
      BY <1>1 DEF ProbeIsLast
    <3>1. Len(Tail(todo)) \in 1 .. Len(Tail(todo)) /\ Len(Tail(todo)) + 1 = Len(todo)
      BY <2>3, EmptySeq
    <3>2. todo[Len(todo)] = Turn(PROBE, 0)
      BY <1>1, <2>2 DEF ProbeIsLast
    <3> QED BY <2>3, <3>1, <3>2
  <2>5. BetweenTurns'
    <3>1. (worked \o WorkOf(todo) = WorkOf(Script))'
      BY <1>1, <2>1, <2>2 DEF TurnIsDone
    <3>2. ASSUME config.attack # "EvictTime", Tail(todo) = <<>>
          PROVE  ProbedUpTo(SETS)
      <4>1. Len(todo) = 1
        BY <1>1, <2>2, <3>2, LenOfOneTurn
      <4>2. Head(todo) = Turn(PROBE, 0)
        BY <1>1, <2>2, <2>3, <3>2, <4>1 DEF ProbeIsLast
      <4>3. state.phase = PROBE
        BY <1>1, <4>2 DEF Turn
      <4> QED BY <2>2, <4>3 DEF TurnIsDone, ProbedIfProbe
    <3>3. ProbedUpTo(SETS)' <=> ProbedUpTo(SETS)
      BY <1>1 DEF ProbedUpTo, IsMeasured, PermutedSet, ProbeStart, Probe
    <3> QED BY <1>1, <3>1, <3>2, <3>3 DEF BetweenTurns
  <2> QED BY <1>1, <1>2, <2>1, <2>2, <2>3, <2>4, <2>5 DEF InTrial, AtRest
<1> QED BY <1>3, <1>4

\* The driver begins a trial, both programs being in their loops.
LEMMA BeginTrialWorksOff ==
  ASSUME L1dInv, programs = "shipped", BeginTrial, worked' = <<>>,
         stage = "init" => StartingUp, stage = "trial" => InTrial
  PROVE  stage' = "trial" /\ InTrial'
<1>1. /\ TypeOK /\ running = NoOne /\ todo = <<>> /\ trial = summary.trials
      /\ stage \in {"init", "trial"} /\ stage' = "trial" /\ trial' = trial + 1
      /\ todo' = Script /\ trial \in Nat
      /\ UNCHANGED <<config, running, state, contexts, machine, summary>>
  BY DEF BeginTrial, AtRest, L1dInv, IInv, TypeOK
<1>2. \A i \in Programs : contexts[i].registers = At("loop")
  BY <1>1 DEF StartingUp, Started, InTrial
<1>3. /\ Script' = Script /\ Script \in Seq(TrialTurns) /\ Script # <<>>
      /\ config.attack # "EvictTime" => Script[Len(Script)] = Turn(PROBE, 0)
  BY <1>1, ConfigType, ScriptWorks DEF Script, VictimTurn
<1>4. worked' \in Seq(Works) /\ worked' \o WorkOf(Script) = WorkOf(Script)
  BY <1>3, EmptySeq, WorkOfType, ConcatEmptySeq
<1>5. trial' > summary'.trials
  BY <1>1
<1>6. ProbeIsLast' /\ BetweenTurns'
  BY <1>1, <1>3, <1>4 DEF ProbeIsLast, BetweenTurns
<1> QED BY <1>1, <1>2, <1>3, <1>4, <1>5, <1>6 DEF InTrial

\* A trial's score changes nothing of the turns.
LEMMA EndTrialWorksOff ==
  ASSUME L1dInv, programs = "shipped", EndTrial, worked' = worked, InTrial
  PROVE  stage' = "trial" /\ InTrial'
<1>1. /\ TypeOK /\ running = NoOne /\ todo = <<>> /\ trial = summary.trials + 1
      /\ summary.trials \in Nat /\ stage = "trial" /\ AtRest'
      /\ UNCHANGED <<config, stage, trial, secret, todo, running, state, contexts,
                     machine>>
  BY DEF EndTrial, AtRest, L1dInv, IInv, TypeOK, Summaries
<1>2. /\ todo \in Seq(TrialTurns) /\ ProbeIsLast /\ BetweenTurns
      /\ worked \in Seq(Works)
      /\ \A i \in Programs : contexts[i].registers = At("loop")
  BY <1>1 DEF InTrial
<1>3. Script' = Script /\ (ProbedUpTo(SETS)' <=> ProbedUpTo(SETS))
  BY <1>1 DEF Script, VictimTurn, ProbedUpTo, IsMeasured, PermutedSet, ProbeStart, Probe
<1>4. ProbeIsLast' /\ BetweenTurns'
  BY <1>1, <1>2, <1>3 DEF ProbeIsLast, BetweenTurns
<1> QED BY <1>1, <1>2, <1>4 DEF InTrial

-----------------------------------------------------------------------------

\* A program that is starting up or in a trial is not at its ebreak.
LEMMA NotAtEbreak ==
  ASSUME L1dInv, programs = "shipped", WorksOff, stage \in {"init", "trial"}, Steps
  PROVE  machine.registers \notin EbreakRegs
<1>1. /\ machine.registers \in ShippedRegs /\ running # NoOne /\ ~state.done
      /\ todo # <<>> /\ running = Head(todo).who /\ state.phase = Head(todo).phase
  BY DEF L1dInv, IInv, ShippedStayInside, RunsAsItself, Steps
<1>2. machine.registers # At("exit")
  <2>1. CASE stage = "init"
    <3>1. machine.registers \in {At("start"), At("ready")}
      BY <1>1, <2>1 DEF WorksOff, StartingUp
    <3> QED BY <3>1 DEF At
  <2>2. CASE stage = "trial"
    <3>1. /\ todo \in Seq(TrialTurns)
          /\ machine.registers = At("ready") \/ TurnIsToBeDone
      BY <1>1, <2>2 DEF WorksOff, InTrial, InTurn, AtRest
    <3>2. Work(running, state.phase) \in Works
      BY <1>1, <3>1, HeadTailProperties, WorkOfTurn
    <3>3. \/ machine.registers \in {At("ready"), At("loop"), At(Work(running, state.phase))}
          \/ \E n : machine.registers = Probing(n) \/ machine.registers = Submitting(n)
      BY <3>1 DEF TurnIsToBeDone
    <3>4. Work(running, state.phase) # "exit"
      BY <3>2 DEF Works
    <3>5. \A pc : At(pc).pc = pc
      BY DEF At
    <3>6. \A n : Probing(n).pc = "probe" /\ Submitting(n).pc = "submit"
      BY DEF Probing, Submitting
    <3>7. At("exit").pc = "exit" /\ At("ready").pc = "ready" /\ At("loop").pc = "loop"
      BY <3>5
    <3>8. At(Work(running, state.phase)).pc # "exit"
      BY <3>4, <3>5
    <3>9. machine.registers.pc # "exit"
      BY <3>3, <3>6, <3>7, <3>8
    <3> QED BY <3>7, <3>9
  <2> QED BY <2>1, <2>2
<1> QED BY <1>1, <1>2, L1dAssumption

\* Every step works the turns off as the script has them.
LEMMA WorksOffIsKept ==
  L1dInv /\ WorksOff /\ [L1dNext]_l1dVars => WorksOff'
<1> SUFFICES ASSUME L1dInv, WorksOff, [L1dNext]_l1dVars,
                    programs = "shipped", programs' = programs
             PROVE  (stage = "init" => StartingUp)' /\ (stage = "trial" => InTrial)'
  BY DEF WorksOff, L1dNext, l1dVars
<1>1. (stage = "init" => StartingUp) /\ (stage = "trial" => InTrial)
  BY DEF WorksOff
<1>2. CASE UNCHANGED l1dVars
  <2>1. UNCHANGED <<config, stage, trial, secret, todo, running, state, contexts,
                    machine, summary, worked>>
    BY <1>2 DEF l1dVars, vars
  <2>2. StartingUp' <=> StartingUp
    BY <2>1 DEF StartingUp, Started
  <2>3. /\ Script' = Script /\ \A n : (ProbedUpTo(n)' <=> ProbedUpTo(n))
        /\ (ProbeIsLast' <=> ProbeIsLast) /\ (AtRest' <=> AtRest)
    <3>1. Script' = Script /\ ProbeStart' = ProbeStart /\ Probe' = Probe
      BY <2>1 DEF Script, VictimTurn, ProbeStart, Probe
    <3>2. (ProbeIsLast' <=> ProbeIsLast) /\ (AtRest' <=> AtRest)
      BY <2>1 DEF ProbeIsLast, AtRest
    <3> QED BY <3>1, <3>2, ProbedKept
  <2>4. (BetweenTurns' <=> BetweenTurns) /\ (TurnIsDone' <=> TurnIsDone)
        /\ (TurnIsToBeDone' <=> TurnIsToBeDone)
    BY <2>1, <2>3 DEF BetweenTurns, TurnIsDone, ProbedIfProbe, TurnIsToBeDone, Probe
  <2>5. InTurn' <=> InTurn
    BY <2>1, <2>4 DEF InTurn
  <2>6. InTrial' <=> InTrial
    BY <2>1, <2>3, <2>4, <2>5 DEF InTrial
  <2> QED BY <1>1, <2>1, <2>2, <2>6
<1>3. CASE Drive
  <2>1. CASE BeginTurn
    <3>1. worked' = worked
      BY <1>3, <2>1 DEF Drive, BeginTurn
    <3> QED BY <1>1, <2>1, <3>1, BeginTurnWorksOff
  <2>2. CASE EndTurn
    <3>1. worked' = worked
      BY <1>3, <2>2 DEF Drive, EndTurn
    <3> QED BY <1>1, <2>2, <3>1, EndTurnWorksOff
  <2>3. CASE BeginTrial
    <3>1. trial' # trial
      BY <2>3 DEF BeginTrial, L1dInv, IInv, TypeOK
    <3>2. worked' = <<>>
      BY <1>3, <3>1 DEF Drive
    <3> QED BY <1>1, <2>3, <3>2, BeginTrialWorksOff
  <2>4. CASE EndTrial
    <3>1. worked' = worked /\ stage = "trial"
      BY <1>3, <2>4 DEF Drive, EndTrial
    <3> QED BY <1>1, <2>4, <3>1, EndTrialWorksOff
  <2>5. CASE SkipTurn \/ PanicOnScore \/ HaltContexts \/ Return
    BY <2>5 DEF SkipTurn, PanicOnScore, HaltContexts, Return
  <2> QED BY <1>3, <2>1, <2>2, <2>3, <2>4, <2>5 DEF Drive, DriverStep
<1>4. CASE Steps /\ ShippedStep
  <2>1. stage' = stage
    BY <1>4, OwnStep DEF L1dInv, IInv, ShippedStayInside
  <2> QED BY <1>1, <1>4, <2>1, ShippedStepInTrial, ShippedStepInStartUp
<1>5. CASE Ebreak
  <2>1. stage' = stage /\ Steps /\ machine.registers \in EbreakRegs
    BY <1>5 DEF Ebreak, UnchangedByPrograms
  <2>2. stage \notin {"init", "trial"}
    BY <2>1, NotAtEbreak
  <2> QED BY <2>1, <2>2
<1> QED BY <1>2, <1>3, <1>4, <1>5 DEF L1dNext

\* The programs are at their starts when the driver has loaded them.
LEMMA InitWorksOff == L1dInit => WorksOff
<1> SUFFICES ASSUME L1dInit, programs = "shipped" PROVE WorksOff
  BY DEF WorksOff
<1>1. /\ stage = "init" /\ todo = HaltTurns /\ running = NoOne
      /\ \A i \in Programs : contexts[i].registers = At("start")
  BY DEF L1dInit, Init
<1>2. HaltTurns # <<>> /\ HaltTurns # <<Turn(HALT, 1)>>
  BY DEF HaltTurns, Turn
<1> QED BY <1>1, <1>2 DEF WorksOff, StartingUp, Started

\* The invariant of the trials holds throughout.
LEMMA WorksOffAlways == L1dSpec => [](L1dInv /\ WorksOff)
<1>1. L1dInit => L1dInv /\ WorksOff
  BY L1dInitInv, InitWorksOff
<1>2. L1dInv /\ WorksOff /\ [L1dNext]_l1dVars => (L1dInv /\ WorksOff)'
  BY L1dStep, WorksOffIsKept
<1> QED BY <1>1, <1>2, PTL DEF L1dSpec

\* When a trial is over, its turns have all been worked off, in the order of
\* the script and each once: a program does the work of the phase announced,
\* in the turn it is announced in.
THEOREM ScriptIsFollowed == L1dSpec => []TrialFollowsScript
<1>1. L1dInv /\ WorksOff => TrialFollowsScript
  <2> SUFFICES ASSUME L1dInv, WorksOff, programs = "shipped", TrialIsOver
               PROVE  worked = WorkOf(Script)
    BY DEF TrialFollowsScript, WorkOf
  <2>1. /\ InTrial /\ trial > summary.trials /\ running = NoOne /\ todo = <<>>
    BY DEF WorksOff, TrialIsOver, AtRest
  <2>2. worked \in Seq(Works) /\ worked \o WorkOf(todo) = WorkOf(Script)
    BY <2>1 DEF InTrial, BetweenTurns
  <2>3. WorkOf(todo) = <<>>
    BY <2>1, WorkOfType, EmptySeq
  <2> QED BY <2>2, <2>3, ConcatEmptySeq
<1> QED BY <1>1, WorksOffAlways, PTL

\* The strides of permuted_set miss no set, whatever the secret they start at.
LEMMA ProbeHasAll == L1dInv /\ WorksOff => ProbeIsComplete
<1> SUFFICES ASSUME L1dInv, WorksOff, programs = "shipped", TrialIsOver,
                    config.attack # "EvictTime"
             PROVE  Len(Probe) = SETS /\ \A n \in 1 .. SETS : Probe[n].measured
  BY DEF ProbeIsComplete
<1>1. ProbedUpTo(SETS)
  BY DEF WorksOff, TrialIsOver, AtRest, InTrial, BetweenTurns
<1>2. SETS \in Nat \ {0} /\ Len(Probe) \in Nat /\ ProbeStart \in Nat
  BY ExperimentAssumption, ProbeStartType, LenProperties
     DEF L1dInv, IInv, TypeOK, States, Probe
<1>3. \A s \in Sets : IsMeasured(s)
  BY <1>1, <1>2, ProbeCoversSets DEF ProbedUpTo
<1>4. SETS - 1 \in Sets /\ \A n \in 1 .. SETS : n - 1 \in Sets /\ (n - 1) + 1 = n
  BY <1>2
<1>5. Len(Probe) = SETS
  <2>1. SETS - 1 < Len(Probe) /\ Len(Probe) <= SETS
    BY <1>1, <1>3, <1>4 DEF IsMeasured, ProbedUpTo
  <2> QED BY <1>2, <2>1
<1>6. ASSUME NEW n \in 1 .. SETS PROVE Probe[n].measured
  BY <1>3, <1>4 DEF IsMeasured
<1> QED BY <1>5, <1>6

\* What is scored of a prime-probe trial has a measured time for every set.
THEOREM ProbesAreComplete == L1dSpec => []ProbeIsComplete
BY ProbeHasAll, WorksOffAlways, PTL

-----------------------------------------------------------------------------
(* Sums.  Induction is over sets: the library's theorems of it take an     *)
(* operator, this one the set of what it is shown of.                      *)

\* Induction over the naturals, with a set for what is shown of them.
LEMMA InductionOnNat ==
  ASSUME NEW N, 0 \in N, \A n \in Nat : n \in N => n + 1 \in N
  PROVE  Nat \subseteq N
<1> SUFFICES ASSUME Nat \ N # {} PROVE FALSE
  OBVIOUS
<1>1. PICK n \in Nat \ N : \A m \in Nat \ N : ~(m < n)
  <2>1. PICK n \in Nat \ N : \A m \in Nat \ N : ~(<<m, n>> \in OpToRel(<, Nat))
    BY WFMin, NatLessThanWellFounded
  <2> QED BY <2>1 DEF OpToRel
<1>2. n # 0 /\ n - 1 \in Nat /\ n - 1 < n /\ (n - 1) + 1 = n
  BY <1>1
<1>3. n - 1 \in N
  BY <1>1, <1>2
<1> QED BY <1>1, <1>2, <1>3

\* Induction over the parts of a finite set: what holds of the empty one, and of
\* each one if it holds of it without any of its elements, holds of all.
LEMMA InductionOnParts ==
  ASSUME NEW S, IsFiniteSet(S), NEW G, {} \in G,
         \A s \in SUBSET S : s # {} /\ (\A x \in s : s \ {x} \in G) => s \in G
  PROVE  SUBSET S \subseteq G
<1> DEFINE N == {n \in Nat : \A s \in SUBSET S : Cardinality(s) = n => s \in G}
<1>1. \A s \in SUBSET S : IsFiniteSet(s) /\ Cardinality(s) \in Nat
  BY FS_Subset, FS_CardinalityType
<1>2. 0 \in N
  BY <1>1, FS_EmptySet
<1>3. ASSUME NEW n \in Nat, n \in N PROVE n + 1 \in N
  <2> SUFFICES ASSUME NEW s \in SUBSET S, Cardinality(s) = n + 1 PROVE s \in G
    OBVIOUS
  <2>1. s # {}
    BY <1>1, FS_EmptySet
  <2>2. ASSUME NEW x \in s PROVE s \ {x} \in G
    <3>1. Cardinality(s \ {x}) = Cardinality(s) - 1 /\ s \ {x} \in SUBSET S
      BY <1>1, FS_RemoveElement
    <3>2. Cardinality(s \ {x}) = n
      BY <3>1
    <3> QED BY <1>3, <3>1, <3>2
  <2> QED BY <2>1, <2>2
<1> HIDE DEF N
<1>4. Nat \subseteq N
  BY <1>2, <1>3, InductionOnNat
<1> QED BY <1>1, <1>4 DEF N

\* The same with the element that the sums below take out first.
First(s) == CHOOSE x \in s : TRUE

\* The same, when the element taken out of a part is its first.
LEMMA PartsByFirst ==
  ASSUME NEW S, IsFiniteSet(S), NEW G, {} \in G,
         \A s \in SUBSET S, x \in S : x \in s /\ x = First(s) /\ s \ {x} \in G => s \in G
  PROVE  SUBSET S \subseteq G
<1>1. ASSUME NEW s \in SUBSET S, s # {}, \A x \in s : s \ {x} \in G PROVE s \in G
  <2>1. First(s) \in s
    BY <1>1 DEF First
  <2> QED BY <1>1, <2>1
<1> QED BY <1>1, InductionOnParts

\* g adds up the elements of every part of S.
IsSum(f, S, g) ==
  g = [s \in SUBSET S |-> IF s = {} THEN 0 ELSE f[First(s)] + g[s \ {First(s)}]]

\* There is a function that adds up the elements of every part of a set.
LEMMA SumExists ==
  ASSUME NEW f, NEW S, IsFiniteSet(S)
  PROVE  \E g : IsSum(f, S, g)
<1> DEFINE Small(n) == {s \in SUBSET S : Cardinality(s) <= n}
           Sum(n, g) == g = [s \in Small(n) |->
               IF s = {} THEN 0 ELSE f[First(s)] + g[s \ {First(s)}]]
           N == {n \in Nat : \E g : Sum(n, g)}
<1>1. \A s \in SUBSET S : IsFiniteSet(s) /\ Cardinality(s) \in Nat
  BY FS_Subset, FS_CardinalityType
<1>2. \A s \in SUBSET S : s # {} =>
        /\ First(s) \in s /\ s \ {First(s)} \in SUBSET S
        /\ Cardinality(s \ {First(s)}) = Cardinality(s) - 1
  BY <1>1, FS_RemoveElement DEF First
<1>3. 0 \in N
  <2>1. Small(0) = {{}}
    BY <1>1, FS_EmptySet
  <2>2. Sum(0, [s \in Small(0) |-> 0])
    BY <2>1
  <2> QED BY <2>2
<1>4. ASSUME NEW n \in Nat, n \in N PROVE n + 1 \in N
  <2>1. PICK g : Sum(n, g)
    BY <1>4
  <2> DEFINE h == [s \in Small(n + 1) |->
               IF s = {} THEN 0 ELSE f[First(s)] + g[s \ {First(s)}]]
  <2>2. \A s \in Small(n) : s \in Small(n + 1)
    BY <1>1
  <2>9. \A s \in Small(n) : h[s] = g[s]
    BY <2>1, <2>2
  <2>3. \A s \in Small(n + 1) : s # {} => s \ {First(s)} \in Small(n)
    BY <1>1, <1>2
  <2>4. \A s \in Small(n + 1) : s # {} => g[s \ {First(s)}] = h[s \ {First(s)}]
    BY <2>9, <2>3
  <2>5. Sum(n + 1, h)
    BY <2>4
  <2>6. n + 1 \in Nat
    OBVIOUS
  <2> QED BY <2>5, <2>6
<1> HIDE DEF N
<1>5. Nat \subseteq N
  BY <1>3, <1>4, InductionOnNat
<1>6. PICK g : Sum(Cardinality(S), g)
  BY <1>1, <1>5 DEF N
<1>7. Small(Cardinality(S)) = SUBSET S
  BY <1>1, FS_Subset
<1> QED BY <1>6, <1>7 DEF IsSum

AddsUp(f, S, g) ==
  /\ SumFunction(f) = g[S] /\ g[{}] = 0
  /\ \A s \in SUBSET S, x \in S :
       x \in s /\ x = First(s) => g[s] = f[x] + g[s \ {x}]

\* So the folds' sum is what its recursive equation says.
LEMMA SumEquation ==
  ASSUME NEW S, IsFiniteSet(S), NEW f, DOMAIN f = S
  PROVE  \E g : AddsUp(f, S, g)
<1>1. SumFunction(f) = (CHOOSE g : IsSum(f, S, g))[S]
  BY DEF SumFunction, SumFunctionOnSet, FoldFunctionOnSet, MapThenFoldSet, IsSum, First
<1>2. PICK g : IsSum(f, S, g) /\ SumFunction(f) = g[S]
  BY <1>1, SumExists
<1>3. \A s \in SUBSET S : s # {} => First(s) \in s
  BY DEF First
<1> QED BY <1>2, <1>3 DEF IsSum, AddsUp

\* Adding up numbers gives a number.
LEMMA SumOfNaturals ==
  ASSUME NEW S, IsFiniteSet(S), NEW f \in [S -> Nat]
  PROVE  SumFunction(f) \in Nat
<1>1. PICK g : AddsUp(f, S, g)
  BY SumEquation
<1> DEFINE G == {s \in SUBSET S : g[s] \in Nat}
<1>2. {} \in G
  BY <1>1 DEF AddsUp
<1>3. ASSUME NEW s \in SUBSET S, NEW x \in S, x \in s, x = First(s), s \ {x} \in G
      PROVE  s \in G
  BY <1>1, <1>3 DEF AddsUp
<1> HIDE DEF G
<1>4. SUBSET S \subseteq G
  BY <1>1, <1>2, <1>3, PartsByFirst
<1> QED BY <1>1, <1>4 DEF G, AddsUp

\* Adding up zeros gives zero.
LEMMA SumOfZeros ==
  ASSUME NEW S, IsFiniteSet(S), NEW f, DOMAIN f = S, \A x \in S : f[x] = 0
  PROVE  SumFunction(f) = 0
<1>1. PICK g : AddsUp(f, S, g)
  BY SumEquation
<1> DEFINE G == {s \in SUBSET S : g[s] = 0}
<1>2. {} \in G
  BY <1>1 DEF AddsUp
<1>3. ASSUME NEW s \in SUBSET S, NEW x \in S, x \in s, x = First(s), s \ {x} \in G
      PROVE  s \in G
  BY <1>1, <1>3 DEF AddsUp
<1> HIDE DEF G
<1>4. SUBSET S \subseteq G
  BY <1>1, <1>2, <1>3, PartsByFirst
<1> QED BY <1>1, <1>4 DEF G, AddsUp

\* A sum grows by one when one of its entries does.
OneMore(e, f, S, p) ==
  /\ IsFiniteSet(S) /\ f \in [S -> Nat] /\ p \in S /\ DOMAIN e = S
  /\ e[p] = f[p] + 1 /\ \A x \in S \ {p} : e[x] = f[x]

\* A sum grows by one when one of its entries does.
LEMMA SumIncremented ==
  ASSUME NEW S, NEW f, NEW p, NEW e, OneMore(e, f, S, p)
  PROVE  SumFunction(e) = SumFunction(f) + 1
<1>1. /\ IsFiniteSet(S) /\ f \in [S -> Nat] /\ p \in S /\ DOMAIN e = S
      /\ e[p] = f[p] + 1 /\ \A x \in S \ {p} : e[x] = f[x]
  BY DEF OneMore
<1>2. PICK g : AddsUp(f, S, g)
  BY <1>1, SumEquation
<1>3. PICK h : AddsUp(e, S, h)
  BY <1>1, SumEquation
<1> DEFINE G == {s \in SUBSET S : /\ g[s] \in Nat
                                  /\ h[s] = IF p \in s THEN g[s] + 1 ELSE g[s]}
<1>4. {} \in G
  BY <1>2, <1>3 DEF AddsUp
<1>5. ASSUME NEW s \in SUBSET S, NEW x \in S, x \in s, x = First(s), s \ {x} \in G
      PROVE  s \in G
  <2>1. /\ g[s] = f[x] + g[s \ {x}] /\ h[s] = e[x] + h[s \ {x}]
        /\ f[x] \in Nat /\ g[s \ {x}] \in Nat
        /\ h[s \ {x}] = IF p \in s \ {x} THEN g[s \ {x}] + 1 ELSE g[s \ {x}]
    BY <1>1, <1>2, <1>3, <1>5 DEF AddsUp
  <2>2. CASE x = p
    BY <1>1, <2>1, <2>2
  <2>3. CASE x # p
    BY <1>1, <2>1, <2>3
  <2> QED BY <2>2, <2>3
<1> HIDE DEF G
<1>6. SUBSET S \subseteq G
  BY <1>1, <1>4, <1>5, PartsByFirst
<1>7. S \in G
  BY <1>6
<1> QED BY <1>1, <1>2, <1>3, <1>7 DEF G, AddsUp

-----------------------------------------------------------------------------
(* The predictions of a prime-probe experiment.                            *)

HIDE DEF Sets

Cells(table) == [p \in Sets \X Sets |-> table[p[1]][p[2]]]
Diagonal(table) == [s \in Sets |-> table[s][s]]

\* What is reported of a prime-probe experiment agrees with itself.
Tallied(s) ==
  /\ s.correct = SumFunction(Diagonal(s.multiJoint))
  /\ SumFunction(Cells(s.multiJoint)) <= s.trials
  /\ programs = "shipped" => SumFunction(Cells(s.multiJoint)) = s.trials
  /\ \A x \in Sets : s.multiJoint[x][RESERVED_STACK_SET] = 0
Tally == config.attack = "PrimeProbe" => Tallied(summary)

\* There are finitely many sets, and so cells of the table.
LEMMA SetsAreFinite == IsFiniteSet(Sets) /\ IsFiniteSet(Sets \X Sets)
<1>1. IsFiniteSet(Sets)
  BY FS_Interval, ExperimentAssumption DEF Sets
<1> QED BY <1>1, FS_Product

\* Of the sets there is a time for one is predicted: a longest time, and the
\* last of those, there is.
LEMMA PredictedIsCandidate ==
  ASSUME IInv, Candidates # {}
  PROVE  Predicted \in Nat /\ Predicted + 1 \in Candidates
<1> DEFINE Last(s, n) == \A m \in s : \/ Probe[m].time < Probe[n].time
                                      \/ Probe[m].time = Probe[n].time /\ m <= n
           G == {s \in SUBSET Candidates : s = {} \/ \E n \in s : Last(s, n)}
<1>1. /\ Len(Probe) \in Nat
      /\ \A n \in Candidates : n \in 1 .. Len(Probe) /\ Probe[n].time \in Nat
  <2>1. Probe \in Seq(Entry)
    BY DEF IInv, TypeOK, States, Probe
  <2>2. Len(Probe) \in Nat /\ \A n \in 1 .. Len(Probe) : Probe[n] \in Entry
    BY <2>1, LenProperties, ElementOfSeq
  <2> QED BY <2>2, ExperimentAssumption DEF Entry, Candidates
<1>2. IsFiniteSet(Candidates)
  <2>1. IsFiniteSet(1 .. Len(Probe))
    BY <1>1, FS_Interval
  <2> QED BY <2>1, FS_Subset DEF Candidates
<1>3. ASSUME NEW s \in SUBSET Candidates, s # {}, \A x \in s : s \ {x} \in G
      PROVE  s \in G
  <2>1. PICK x \in s : TRUE
    BY <1>3
  <2>2. s \ {x} = {} \/ \E n \in s \ {x} : Last(s \ {x}, n)
    BY <1>3
  <2>3. CASE s \ {x} = {}
    <3>1. Last(s, x)
      BY <2>3, <1>1
    <3> QED BY <3>1
  <2>4. ASSUME NEW n \in s \ {x}, Last(s \ {x}, n) PROVE s \in G
    <3>1. /\ n \in 1 .. Len(Probe) /\ x \in 1 .. Len(Probe)
          /\ Probe[n].time \in Nat /\ Probe[x].time \in Nat
      BY <1>1
    <3>2. CASE Probe[x].time < Probe[n].time \/ (Probe[x].time = Probe[n].time /\ x <= n)
      <4>1. Last(s, n)
        BY <2>4, <3>2
      <4> QED BY <4>1
    <3>3. CASE ~(Probe[x].time < Probe[n].time \/ (Probe[x].time = Probe[n].time /\ x <= n))
      <4>1. Probe[n].time < Probe[x].time \/ (Probe[n].time = Probe[x].time /\ n <= x)
        BY <3>1, <3>3
      <4>2. ASSUME NEW m \in s
            PROVE  \/ Probe[m].time < Probe[x].time
                   \/ Probe[m].time = Probe[x].time /\ m <= x
        <5>1. m \in 1 .. Len(Probe) /\ Probe[m].time \in Nat
          BY <1>1
        <5>2. CASE m = x
          BY <5>1, <5>2
        <5>3. CASE m # x
          <6>1. \/ Probe[m].time < Probe[n].time
                \/ Probe[m].time = Probe[n].time /\ m <= n
            BY <2>4, <5>3
          <6> QED BY <6>1, <4>1, <5>1, <3>1
        <5> QED BY <5>2, <5>3
      <4>3. Last(s, x)
        BY <4>2
      <4> QED BY <4>3
    <3> QED BY <3>2, <3>3
  <2> QED BY <2>2, <2>3, <2>4
<1>4. SUBSET Candidates \subseteq G
  <2>1. {} \in G
    OBVIOUS
  <2> HIDE DEF G
  <2> QED BY <1>2, <1>3, <2>1, InductionOnParts
<1>5. \E n \in Candidates : IsPredicted(n)
  <2>1. Candidates \in G
    BY <1>4
  <2> QED BY <2>1 DEF IsPredicted
<1>6. \E n \in Candidates : IsPredicted(n) /\ Predicted = n - 1
  BY <1>5 DEF Predicted
<1> QED BY <1>6, <1>1

\* With another prediction in the table its sum is one more, and its diagonal's
\* is if the prediction is right.
OneCellMore(new, table, x, y) ==
  /\ table \in [Sets -> [Sets -> Nat]] /\ x \in Sets /\ y \in Sets
  /\ new = [table EXCEPT ![x][y] = @ + 1]

\* One more prediction in a cell of the table is one more in its sum, and on
\* its diagonal when it was right.
LEMMA CellCounted ==
  ASSUME NEW table, NEW x, NEW y, NEW new, OneCellMore(new, table, x, y)
  PROVE  /\ SumFunction(Cells(new)) = SumFunction(Cells(table)) + 1
         /\ SumFunction(Diagonal(new)) = SumFunction(Diagonal(table)) + One(y = x)
<1> table \in [Sets -> [Sets -> Nat]] /\ x \in Sets /\ y \in Sets
  BY DEF OneCellMore
<1>1. \A s, p \in Sets : new[s][p] = IF s = x /\ p = y THEN table[s][p] + 1 ELSE table[s][p]
  BY DEF OneCellMore
<1>2. Cells(table) \in [Sets \X Sets -> Nat] /\ Diagonal(table) \in [Sets -> Nat]
  BY DEF Cells, Diagonal
<1>3. SumFunction(Cells(new)) = SumFunction(Cells(table)) + 1
  <2>1. ASSUME NEW c \in (Sets \X Sets) \ {<<x, y>>}
        PROVE  Cells(new)[c] = Cells(table)[c]
    <3>1. c = <<c[1], c[2]>> /\ c[1] \in Sets /\ c[2] \in Sets
      OBVIOUS
    <3>2. ~(c[1] = x /\ c[2] = y)
      BY <3>1
    <3> QED BY <1>1, <3>1, <3>2 DEF Cells
  <2>2. /\ DOMAIN Cells(new) = Sets \X Sets /\ <<x, y>> \in Sets \X Sets
        /\ Cells(new)[<<x, y>>] = Cells(table)[<<x, y>>] + 1
    BY <1>1 DEF Cells
  <2>3. OneMore(Cells(new), Cells(table), Sets \X Sets, <<x, y>>)
    BY <1>2, <2>1, <2>2, SetsAreFinite DEF OneMore
  <2> QED BY <2>3, SumIncremented
<1>4. SumFunction(Diagonal(table)) \in Nat
  BY <1>2, SetsAreFinite, SumOfNaturals
<1>5. CASE y = x
  <2>1. /\ DOMAIN Diagonal(new) = Sets
        /\ Diagonal(new)[x] = Diagonal(table)[x] + 1
        /\ \A s \in Sets \ {x} : Diagonal(new)[s] = Diagonal(table)[s]
    BY <1>1, <1>5 DEF Diagonal
  <2>2. OneMore(Diagonal(new), Diagonal(table), Sets, x)
    BY <1>2, <2>1, SetsAreFinite DEF OneMore
  <2> QED BY <1>3, <1>5, <2>2, SumIncremented DEF One
<1>6. CASE y # x
  <2>1. Diagonal(new) = Diagonal(table)
    BY <1>1, <1>6 DEF Diagonal
  <2> QED BY <1>3, <1>4, <1>6, <2>1 DEF One
<1> QED BY <1>5, <1>6

\* The score of a trial: a prediction if there is anything to predict from, as
\* there is when the shipped attacker has probed.
LEMMA EndTrialTallies ==
  ASSUME L1dInv, WorksOff, Tally, EndTrial, programs' = programs
  PROVE  Tally'
<1> SUFFICES ASSUME config.attack = "PrimeProbe" PROVE Tallied(summary)'
  BY DEF EndTrial, Tally
<1>1. /\ summary' = ScorePrimeProbe /\ TypeOK /\ Tallied(summary) /\ IInv
      /\ ~Overruns
  BY DEF EndTrial, Scored, Tally, L1dInv, IInv
<1>2. /\ Counted.trials = summary.trials + 1 /\ Counted.correct = summary.correct
      /\ Counted \in Summaries /\ summary \in Summaries
      /\ Counted.multiJoint = summary.multiJoint
  BY <1>1, CountedType DEF Counted, TypeOK
<1>3. /\ summary.trials \in Nat /\ summary.correct \in Nat
      /\ summary.multiJoint \in [Sets -> [Sets -> Nat]]
  BY <1>2 DEF Summaries
<1> DEFINE table == summary.multiJoint
<1>4. SumFunction(Cells(table)) \in Nat
  <2>1. Cells(table) \in [Sets \X Sets -> Nat]
    BY <1>3 DEF Cells
  <2> QED BY <2>1, SetsAreFinite, SumOfNaturals
<1>5. CASE Candidates = {}
  <2>1. summary' = Counted
    BY <1>1, <1>5 DEF ScorePrimeProbe
  <2>2. programs # "shipped"
    <3> SUFFICES ASSUME programs = "shipped" PROVE FALSE
      OBVIOUS
    <3>1. TrialIsOver
      BY <1>3 DEF EndTrial, TrialIsOver
    <3>2. Len(Probe) = SETS
      BY <3>1, ProbeHasAll DEF ProbeIsComplete
    <3>3. 1 \in Candidates \/ 2 \in Candidates
      BY <3>2, ExperimentAssumption, L1dAssumption DEF Candidates, Sets
    <3> QED BY <1>5, <3>3
  <2>3. SumFunction(Cells(table)) <= summary.trials + 1
    BY <1>1, <1>3, <1>4 DEF Tallied
  <2> QED BY <1>1, <1>2, <2>1, <2>2, <2>3 DEF Tallied
<1>6. CASE Candidates # {}
  <2>1. PICK x, y \in Sets : x = secret.set /\ y = Predicted /\ y # RESERVED_STACK_SET
    <3>1. Predicted \in Nat /\ Predicted + 1 \in Candidates
      BY <1>1, <1>6, PredictedIsCandidate
    <3>2. Predicted # RESERVED_STACK_SET
      BY <3>1 DEF Candidates
    <3>3. Predicted \in Sets
      BY <3>1, <1>1, <1>6, ExperimentAssumption DEF Overruns, Sets
    <3> QED BY <1>1, <3>2, <3>3 DEF TypeOK, Secret
  <2> DEFINE new == [table EXCEPT ![x][y] = @ + 1]
  <2>2. /\ summary'.multiJoint = new
        /\ summary'.correct = summary.correct + One(y = x)
        /\ summary'.trials = summary.trials + 1
    BY <1>1, <1>2, <1>6, <2>1 DEF ScorePrimeProbe, Summaries
  <2>3. /\ SumFunction(Cells(new)) = SumFunction(Cells(table)) + 1
        /\ SumFunction(Diagonal(new)) = SumFunction(Diagonal(table)) + One(y = x)
    <3>1. OneCellMore(new, table, x, y)
      BY <1>3 DEF OneCellMore
    <3> QED BY <3>1, CellCounted
  <2>4. \A s \in Sets : new[s][RESERVED_STACK_SET] = 0
    BY <1>1, <1>3, <2>1, ExperimentAssumption DEF Tallied
  <2> HIDE DEF new
  <2>5. SumFunction(Cells(new)) <= summary.trials + 1
    BY <1>1, <1>3, <1>4, <2>3 DEF Tallied
  <2> QED BY <1>1, <2>2, <2>3, <2>4, <2>5 DEF Tallied
<1> QED BY <1>5, <1>6

\* Nothing but the score of a trial changes the tables.
LEMMA TallyIsKept ==
  L1dInv /\ WorksOff /\ Tally /\ [L1dNext]_l1dVars => Tally'
<1> SUFFICES ASSUME L1dInv, WorksOff, Tally, [L1dNext]_l1dVars PROVE Tally'
  OBVIOUS
<1>1. programs' = programs
  BY DEF L1dNext, l1dVars
<1>2. CASE EndTrial
  BY <1>1, <1>2, EndTrialTallies
<1>3. ASSUME UNCHANGED <<config, summary>> PROVE Tally'
  BY <1>1, <1>3 DEF Tally, Tallied
<1>4. CASE UNCHANGED l1dVars
  BY <1>3, <1>4 DEF l1dVars, vars
<1>5. CASE Drive
  BY <1>2, <1>3, <1>5 DEF Drive, DriverStep, BeginTurn, EndTurn, SkipTurn, BeginTrial,
     PanicOnScore, HaltContexts, Return
<1>6. CASE ShippedStep \/ OtherStep \/ Ebreak
  <2>1. UNCHANGED <<config, summary>>
    BY <1>6 DEF ShippedStep, StartUp, GetPhase, Touch, ProbeOneSet, SubmitOneSet,
       ProbeIsOver, SayDone, OtherStep, Compute, SubmitScalar, SubmitVector, ExpDone,
       Fault, FaultySubmitVector, Unimplemented, Ebreak, UnchangedByStep,
       UnchangedByPrograms
  <2> QED BY <1>3, <2>1
<1> QED BY <1>4, <1>5, <1>6 DEF L1dNext, Ebreak

\* The table starts with zeros.
LEMMA InitTally == L1dInit => Tally
<1> SUFFICES ASSUME L1dInit PROVE Tallied(ZeroSummary)
  BY DEF Tally, L1dInit, Init
<1> DEFINE zeros == [s \in Sets |-> [p \in Sets |-> 0]]
<1>1. /\ DOMAIN Cells(zeros) = Sets \X Sets /\ DOMAIN Diagonal(zeros) = Sets
      /\ \A c \in Sets \X Sets : Cells(zeros)[c] = 0
      /\ \A s \in Sets : Diagonal(zeros)[s] = 0
  BY DEF Cells, Diagonal
<1>2. SumFunction(Cells(zeros)) = 0 /\ SumFunction(Diagonal(zeros)) = 0
  BY <1>1, SetsAreFinite, SumOfZeros
<1>3. \A s \in Sets : zeros[s][RESERVED_STACK_SET] = 0
  BY ExperimentAssumption
<1>4. /\ ZeroSummary.multiJoint = zeros /\ ZeroSummary.correct = 0
      /\ ZeroSummary.trials = 0
  BY DEF ZeroSummary
<1> HIDE DEF zeros
<1> QED BY <1>2, <1>3, <1>4 DEF Tallied

\* The counters and tables of the summary add up, however many trials there are:
\* what update_summary increments in different branches counts the same trials;
\* every prime-probe trial of the shipped attacker is in the joint table once, a
\* correct one on its diagonal, and none in the column of the reserved set.
THEOREM TablesAddUp == L1dSpec => []PredictionsAddUp
<1>1. L1dInv /\ WorksOff /\ Tally /\ [L1dNext]_l1dVars => (L1dInv /\ WorksOff /\ Tally)'
  BY L1dStep, WorksOffIsKept, TallyIsKept
<1>2. L1dInit => L1dInv /\ WorksOff /\ Tally
  BY L1dInitInv, InitWorksOff, InitTally
<1>3. L1dInv /\ Tally => PredictionsAddUp
  BY DEF L1dInv, IInv, Tally, Tallied, PredictionsAddUp, Cells, Diagonal
<1> QED BY <1>1, <1>2, <1>3, PTL DEF L1dSpec
=============================================================================
