----------------------------- MODULE Experiment -----------------------------
(***************************************************************************)
(* The driver of experiment.rs.  Two programs, an attacker (0) and a       *)
(* victim (1), take turns on one machine.  The driver announces a phase,   *)
(* lets one program run until it calls exp_done or halts, and goes on; a   *)
(* trial is a fixed sequence of such turns, after which what the attacker  *)
(* submitted and what the cache trace shows is scored.                     *)
(*                                                                         *)
(* The programs are arbitrary here: a register file is a member of Regs,   *)
(* and a program at an ebreak is one whose registers are in EbreakRegs.    *)
(* Clock readings are members of Times; the sums of times, wording and     *)
(* files are left out.  notify_context_switch changes only BackCache (see  *)
(* BackCacheMemory), so the schedule mode decides nothing that is here.    *)
(***************************************************************************)
EXTENDS Integers, Sequences, FiniteSets

CONSTANTS
  SETS,                \* cache sets, of which
  RESERVED_STACK_SET,  \* this one holds the programs' stacks
  Threshold,           \* 700 in update_summary
  Times,               \* what a program may submit as a measured time
  Regs, EbreakRegs,    \* register files; those at an ebreak
  EntryRegs,           \* a program's registers at its entry point
  Configs,             \* the configurations the command line may ask for
  Accesses,            \* what a cache access records: evicted pid and source
  MaxEvents            \* bound on the length of the trace

VARIABLES
  config, stage, trial, secret, todo, running,   \* the driver
  state, contexts, machine, trace, summary

vars == <<config, stage, trial, secret, todo, running,
          state, contexts, machine, trace, summary>>

Sets == 0 .. SETS - 1
Programs == {0, 1}
NoOne == 2                      \* no program is running
Bits == {0, 1}

HALT == 0
PRIME == 1
PROBE == 2
VICTIM_ACCESS == 3
WARM_VICTIM == 4
EVICT_TARGET == 5
Phases == HALT .. EVICT_TARGET

Config == [attack: {"BinaryPrimeProbe", "PrimeProbe", "EvictTime"},
           control: {"None", "NoVictim", "ForcedEviction"},
           domain: {"Different", "Same"},
           trials: Nat, target: Sets, decoy: Sets]

ASSUME ExperimentAssumption ==
  /\ SETS \in Nat \ {0} /\ RESERVED_STACK_SET \in Sets
  /\ Threshold \in Nat /\ Times \subseteq Nat /\ 0 \in Times
  /\ EbreakRegs \subseteq Regs /\ EntryRegs \subseteq Regs
  /\ Configs \subseteq Config
  /\ Accesses \subseteq [evicted: 0 .. 2, source: {"L1D", "BackCache", "Lower"}]
  /\ MaxEvents \in Nat

(***************************************************************************)
(* A submitted time and a cache event also say in which trial and phase,   *)
(* and by whom, they were made.  No action reads that; the properties do.  *)
(***************************************************************************)
Entry == [time: Times, measured: BOOLEAN, trial: Nat, phase: Phases]
Event == [pid: {1, 2}, evicted: 0 .. 2, source: {"L1D", "BackCache", "Lower"},
          trial: Nat, by: Programs]

Stages == {"init", "trial", "halt", "finished", "panicked"}
Secret == [bit: Bits, set: Sets]
Turns == [phase: Phases, who: Programs]
States == [phase: Phases, secretSet: Sets, secretBit: Bits, targetSet: Sets,
           done: BOOLEAN, submitted: Seq(Entry)]
Contexts == [registers: Regs, exited: BOOLEAN, exitCode: {0, -11}]
Identities == [class: {"Low", "High"}, pid: 0 .. 2, domain: 0 .. 2]
Machines == [registers: Regs, segment: Programs \union {NoOne},
             requester: Identities]
Summaries ==
  [trials: Nat, correct: Nat, tp: Nat, tn: Nat, fp: Nat, fn: Nat,
   binaryJoint: [Bits -> [Bits -> Nat]], multiJoint: [Sets -> [Sets -> Nat]],
   touched: Nat, untouched: Nat, evictions: Nat, accesses: Nat]

Identity(i) ==
  [class  |-> IF i = 1 /\ config.domain = "Different" THEN "High" ELSE "Low",
   pid    |-> i + 1,
   domain |-> IF i = 1 /\ config.domain = "Different" THEN 2 ELSE 1]

Turn(p, i) == [phase |-> p, who |-> i]
HaltTurns == <<Turn(HALT, 0), Turn(HALT, 1)>>

VictimTurn ==
  IF config.control = "NoVictim" THEN <<>> ELSE <<Turn(VICTIM_ACCESS, 1)>>

(* The turns of a trial. *)
Script ==
  IF config.attack = "EvictTime"
  THEN <<Turn(WARM_VICTIM, 1), Turn(EVICT_TARGET, 0)>> \o VictimTurn
  ELSE <<Turn(PRIME, 0)>> \o VictimTurn \o <<Turn(PROBE, 0)>>

PerSet ==
  (IF config.trials > SETS THEN config.trials ELSE SETS) \div SETS
NumTrials ==
  IF config.attack = "EvictTime" THEN SETS * PerSet ELSE config.trials

(* TargetOf_FromOne: the sets are counted from one. *)
TargetOf_FromOne(t) ==
  IF config.attack = "EvictTime" THEN t \div PerSet ELSE config.target

(* The set a trial measures; evict-time goes through all of them. *)
TargetOf(t) ==
  IF config.attack = "EvictTime" THEN (t - 1) \div PerSet ELSE config.target

MeasuredSets == Sets \ {RESERVED_STACK_SET}

(* The secrets the driver may draw for trial t. *)
Secrets(t) ==
  LET forced == config.control = "ForcedEviction" IN
  IF config.attack = "BinaryPrimeProbe"
  THEN [bit: {1}, set: {config.target}]
       \union (IF forced THEN {} ELSE [bit: {0}, set: {config.decoy}])
  ELSE [bit: {0}, set: IF forced THEN {TargetOf(t)} ELSE MeasuredSets]

-----------------------------------------------------------------------------

NewContext(r) == [registers |-> r, exited |-> FALSE, exitCode |-> 0]

ZeroSummary ==
  [trials |-> 0, correct |-> 0, tp |-> 0, tn |-> 0, fp |-> 0, fn |-> 0,
   binaryJoint |-> [b \in Bits |-> [p \in Bits |-> 0]],
   multiJoint |-> [s \in Sets |-> [p \in Sets |-> 0]],
   touched |-> 0, untouched |-> 0, evictions |-> 0, accesses |-> 0]

Init ==
  /\ config \in Configs
  /\ stage = "init" /\ trial = 0 /\ secret = [bit |-> 0, set |-> 0]
  /\ todo = HaltTurns /\ running = NoOne
  /\ state = [phase |-> HALT, secretSet |-> 0, secretBit |-> 0, targetSet |-> 0,
              done |-> FALSE, submitted |-> <<>>]
  /\ contexts \in [Programs -> {NewContext(r) : r \in EntryRegs}]
  /\ machine = [registers |-> contexts[0].registers, segment |-> NoOne,
                requester |-> [class |-> "High", pid |-> 0, domain |-> 0]]
  /\ trace = <<>>
  /\ summary = ZeroSummary

-----------------------------------------------------------------------------
(* Turns *)

(* BeginPhase_KeepSubmissions: the list is not cleared. *)
BeginPhase_KeepSubmissions(p) ==
  state' = [phase |-> p,
            secretSet |-> IF stage = "trial" THEN secret.set ELSE 0,
            secretBit |-> IF stage = "trial" THEN secret.bit ELSE 0,
            targetSet |-> IF stage = "trial" THEN TargetOf(trial) ELSE 0,
            done |-> FALSE, submitted |-> state.submitted]

(* BeginPhase_KeepDone: the flag of the last turn stays set. *)
BeginPhase_KeepDone(p) ==
  state' = [phase |-> p,
            secretSet |-> IF stage = "trial" THEN secret.set ELSE 0,
            secretBit |-> IF stage = "trial" THEN secret.bit ELSE 0,
            targetSet |-> IF stage = "trial" THEN TargetOf(trial) ELSE 0,
            done |-> state.done, submitted |-> <<>>]

BeginPhase(p) ==
  state' = [phase |-> p,
            secretSet |-> IF stage = "trial" THEN secret.set ELSE 0,
            secretBit |-> IF stage = "trial" THEN secret.bit ELSE 0,
            targetSet |-> IF stage = "trial" THEN TargetOf(trial) ELSE 0,
            done |-> FALSE, submitted |-> <<>>]

(* SwitchTo_KeepSegment: the segment stays the other program's. *)
SwitchTo_KeepSegment(i) ==
  machine' = [machine EXCEPT !.registers = contexts[i].registers,
                             !.requester = Identity(i)]

(* What run_context_until_done does before its loop. *)
SwitchTo(i) ==
  machine' = [registers |-> contexts[i].registers, segment |-> i,
              requester |-> Identity(i)]

BeginTurn ==
  /\ running = NoOne /\ todo # <<>>
  /\ ~(stage = "halt" /\ contexts[Head(todo).who].exited)
  /\ BeginPhase(Head(todo).phase)
  /\ SwitchTo(Head(todo).who)
  /\ running' = Head(todo).who
  /\ UNCHANGED <<config, stage, trial, secret, todo, contexts, trace, summary>>

(* SkipTurn_Forever: the program that has exited is waited for. *)
SkipTurn_Forever ==
  /\ running = NoOne /\ todo # <<>>
  /\ stage = "halt" /\ contexts[Head(todo).who].exited
  /\ UNCHANGED vars

(* halt_contexts passes over a program that has exited. *)
SkipTurn ==
  /\ running = NoOne /\ todo # <<>>
  /\ stage = "halt" /\ contexts[Head(todo).who].exited
  /\ todo' = Tail(todo)
  /\ UNCHANGED <<config, stage, trial, secret, running, state, contexts,
                 machine, trace, summary>>

(* The turn is over: the loop is left and the registers are saved. *)
LeaveTurn(context) ==
  /\ contexts' = [contexts EXCEPT ![running] = context]
  /\ running' = NoOne
  /\ todo' = Tail(todo)

(* EndTurn_NoSave: the registers are not saved. *)
EndTurn_NoSave ==
  /\ running # NoOne /\ state.done
  /\ LeaveTurn(contexts[running])
  /\ UNCHANGED <<config, stage, trial, secret, state, machine, trace, summary>>

EndTurn ==
  /\ running # NoOne /\ state.done
  /\ LeaveTurn([contexts[running] EXCEPT !.registers = machine.registers])
  /\ UNCHANGED <<config, stage, trial, secret, state, machine, trace, summary>>

(* The machine stopped with code and left registers r. *)
LeaveHalted(code, r) ==
  /\ machine' = [machine EXCEPT !.registers = r]
  /\ LeaveTurn([registers |-> r, exited |-> TRUE, exitCode |-> code])

-----------------------------------------------------------------------------
(* One step of the machine for the program that is running *)

Steps == running # NoOne /\ ~state.done
(* Runs_PastEbreak: a program goes on past its ebreak. *)
Runs_PastEbreak == Steps

Runs == Steps /\ machine.registers \notin EbreakRegs

GoesOnAt(r) == machine' = [machine EXCEPT !.registers = r]

UnchangedByPrograms == UNCHANGED <<config, stage, trial, secret, summary>>
UnchangedByStep == UnchangedByPrograms /\ UNCHANGED <<todo, running, contexts>>

Recorded(a) == [pid |-> machine.requester.pid, evicted |-> a.evicted,
                source |-> a.source, trial |-> trial, by |-> running]

(* The accesses as, in this order, are appended to the trace. *)
Record(as) ==
  /\ Len(trace) + Len(as) <= MaxEvents
  /\ trace' = trace \o [n \in 1 .. Len(as) |-> Recorded(as[n])]

(* Any instruction or call without an effect outside of the program,       *)
(* besides its cache accesses.                                             *)
Compute(as, r) ==
  /\ Runs /\ Record(as) /\ GoesOnAt(r)
  /\ UNCHANGED state /\ UnchangedByStep

Measured(t, yes) ==
  [time |-> t, measured |-> yes, trial |-> trial, phase |-> state.phase]

(* exp_submit_scalar: the list is filled up with zeros to the index. *)
SubmitScalar(index, t, r) ==
  LET old == state.submitted
      Kept(n) == IF n <= Len(old) THEN old[n] ELSE Measured(0, FALSE)
      size == IF Len(old) <= index THEN index + 1 ELSE Len(old)
  IN /\ Runs /\ GoesOnAt(r)
     /\ state' = [state EXCEPT !.submitted =
                   [n \in 1 .. size |->
                      IF n = index + 1 THEN Measured(t, TRUE) ELSE Kept(n)]]
     /\ UNCHANGED trace /\ UnchangedByStep

(* exp_submit_vector: the list is replaced by what is read from memory. *)
Replaced(ts) ==
  [state EXCEPT !.submitted = [n \in 1 .. Len(ts) |-> Measured(ts[n], TRUE)]]

SubmitVector(as, ts, r) ==
  /\ Runs /\ Record(as) /\ GoesOnAt(r)
  /\ state' = Replaced(ts)
  /\ UnchangedByStep

ExpDone(r) ==
  /\ Runs /\ GoesOnAt(r)
  /\ state' = [state EXCEPT !.done = TRUE]
  /\ UNCHANGED trace /\ UnchangedByStep

(* A fault halts with -11; the pc stays, so the program is not at an       *)
(* ebreak, though a faulting load has zeroed its destination.              *)
Fault(r) ==
  /\ Runs /\ r \notin EbreakRegs
  /\ LeaveHalted(-11, r)
  /\ UNCHANGED <<state, trace>> /\ UnchangedByPrograms

(* exp_submit_vector over memory that is not the program's: the words read *)
(* as zero, the list is replaced all the same, and the step is a fault.    *)
FaultySubmitVector(as, ts) ==
  /\ Runs /\ Record(as)
  /\ state' = Replaced(ts)
  /\ LeaveHalted(-11, machine.registers)
  /\ UnchangedByPrograms

Ebreak ==
  /\ Steps /\ machine.registers \in EbreakRegs
  /\ LeaveHalted(0, machine.registers)
  /\ UNCHANGED <<state, trace>> /\ UnchangedByPrograms

(* An instruction the machine does not implement panics inside step(). *)
Unimplemented ==
  /\ Runs
  /\ stage' = "panicked" /\ running' = NoOne /\ todo' = <<>>
  /\ UNCHANGED <<config, trial, secret, state, contexts, machine, trace, summary>>

-----------------------------------------------------------------------------
(* Trials *)

AtRest == running = NoOne /\ todo = <<>>

(* BeginTrial_NoDrain: the trace is not drained. *)
BeginTrial_NoDrain ==
  /\ AtRest /\ stage \in {"init", "trial"}
  /\ trial = summary.trials /\ trial < NumTrials
  /\ stage' = "trial" /\ trial' = trial + 1
  /\ secret' \in Secrets(trial + 1)
  /\ todo' = Script
  /\ UNCHANGED <<config, running, state, contexts, machine, trace, summary>>

BeginTrial ==
  /\ AtRest /\ stage \in {"init", "trial"}
  /\ trial = summary.trials /\ trial < NumTrials
  /\ stage' = "trial" /\ trial' = trial + 1
  /\ secret' \in Secrets(trial + 1)
  /\ trace' = <<>>
  /\ todo' = Script
  /\ UNCHANGED <<config, running, state, contexts, machine, summary>>

(* The events record_from_events counts. *)
Counts(e) == e.pid = 2 /\ e.evicted = 1 /\ e.source = "Lower"
Interference == Cardinality({n \in 1 .. Len(trace) : Counts(trace[n])})

Probe == state.submitted

(* The set with the longest time, the last of them if there are several. *)
(* Candidates_All: the reserved set may be predicted too. *)
Candidates_All == 1 .. Len(Probe)

Candidates == {n \in 1 .. Len(Probe) : n # RESERVED_STACK_SET + 1}
IsPredicted(n) ==
  /\ n \in Candidates
  /\ \A m \in Candidates : \/ Probe[m].time < Probe[n].time
                           \/ Probe[m].time = Probe[n].time /\ m <= n
Predicted == (CHOOSE n \in Candidates : IsPredicted(n)) - 1

One(b) == IF b THEN 1 ELSE 0

Timed(s, touched) == [s EXCEPT !.touched = @ + One(touched),
                               !.untouched = @ + One(~touched)]

Counted == [summary EXCEPT !.trials = @ + 1, !.accesses = @ + 1,
                           !.evictions = @ + Interference]

ScorePrimeProbe ==
  IF Candidates = {} THEN Counted
  ELSE [Counted EXCEPT !.correct = @ + One(Predicted = secret.set),
                       !.multiJoint[secret.set][Predicted] = @ + 1]

ScoreBinary ==
  LET target == TargetOf(trial)
      time == IF target < Len(Probe) THEN Probe[target + 1].time ELSE 0
      bit == secret.bit
      predicted == One(time >= Threshold)
  IN Timed([Counted EXCEPT !.correct = @ + One(predicted = bit),
                           !.binaryJoint[bit][predicted] = @ + 1,
                           !.tp = @ + One(bit = 1 /\ predicted = 1),
                           !.tn = @ + One(bit = 0 /\ predicted = 0),
                           !.fp = @ + One(bit = 0 /\ predicted = 1),
                           !.fn = @ + One(bit = 1 /\ predicted = 0)],
           bit = 1)

ScoreEvictTime == Timed(Counted, secret.set = TargetOf(trial))

(* A prediction beyond the table of sets indexes out of bounds. *)
Overruns == config.attack = "PrimeProbe" /\ Candidates # {} /\ Predicted >= SETS

Scored ==
  CASE config.attack = "PrimeProbe" -> ScorePrimeProbe
    [] config.attack = "BinaryPrimeProbe" -> ScoreBinary
    [] config.attack = "EvictTime" -> ScoreEvictTime

EndTrial ==
  /\ AtRest /\ stage = "trial" /\ trial = summary.trials + 1
  /\ ~Overruns
  /\ summary' = Scored
  /\ trace' = <<>>
  /\ UNCHANGED <<config, stage, trial, secret, todo, running, state, contexts,
                 machine>>

PanicOnScore ==
  /\ AtRest /\ stage = "trial" /\ trial = summary.trials + 1
  /\ Overruns
  /\ stage' = "panicked" /\ trace' = <<>>
  /\ UNCHANGED <<config, trial, secret, todo, running, state, contexts,
                 machine, summary>>

HaltContexts ==
  /\ AtRest /\ stage \in {"init", "trial"}
  /\ trial = summary.trials /\ trial = NumTrials
  /\ stage' = "halt" /\ todo' = HaltTurns
  /\ UNCHANGED <<config, trial, secret, running, state, contexts, machine,
                 trace, summary>>

Return ==
  /\ AtRest /\ stage = "halt"
  /\ stage' = "finished"
  /\ UNCHANGED <<config, trial, secret, todo, running, state, contexts, machine,
                 trace, summary>>

DriverStep ==
  \/ BeginTurn \/ SkipTurn \/ EndTurn
  \/ BeginTrial \/ EndTrial \/ PanicOnScore
  \/ HaltContexts \/ Return

ProgramStep ==
  \/ \E r \in Regs :
       \/ \E as \in Seq(Accesses) : Compute(as, r)
       \/ \E index \in Nat, t \in Times : SubmitScalar(index, t, r)
       \/ \E as \in Seq(Accesses), ts \in Seq(Times) : SubmitVector(as, ts, r)
       \/ ExpDone(r)
       \/ Fault(r)
  \/ \E as \in Seq(Accesses), ts \in Seq(Times) : FaultySubmitVector(as, ts)
  \/ Ebreak
  \/ Unimplemented

Next == DriverStep \/ ProgramStep

Spec == Init /\ [][Next]_vars

-----------------------------------------------------------------------------
(* Properties *)

TypeOK ==
  /\ config \in Configs
  /\ stage \in Stages
  /\ trial \in Nat
  /\ secret \in Secret
  /\ todo \in Seq(Turns)
  /\ running \in Programs \union {NoOne}
  /\ state \in States
  /\ contexts \in [Programs -> Contexts]
  /\ machine \in Machines
  /\ trace \in Seq(Event)
  /\ summary \in Summaries

(* A program runs only in the turn that is its own, in its own segment and *)
(* under its own identity (run_context_until_done sets all three, and the  *)
(* caches and the trace rely on them until the next turn).                 *)
RunsAsItself ==
  running # NoOne =>
    /\ todo # <<>> /\ running = Head(todo).who /\ state.phase = Head(todo).phase
    /\ machine.segment = running /\ machine.requester = Identity(running)

(* What is scored was submitted in the turn just run: nothing of an        *)
(* earlier phase or trial is left in the list (begin_phase clears it).     *)
SubmissionsAreFresh ==
  running # NoOne \/ AtRest =>
    \A n \in 1 .. Len(Probe) :
      Probe[n].phase = state.phase /\ Probe[n].trial = trial

(* What is counted as interference happened in this trial, and an event    *)
(* bears the pid of the program that caused it.                            *)
TraceIsThisTrials ==
  stage = "trial" => \A n \in 1 .. Len(trace) :
                       trace[n].trial = trial /\ trace[n].pid = trace[n].by + 1

(* The tables agree with each other: every binary trial is in one cell of  *)
(* the confusion matrix, which is also that of the joint table and of the  *)
(* timing classes; a prime-probe trial is correct when on the diagonal.    *)
ScoresAddUp ==
  LET s == summary IN
  /\ s.accesses = s.trials
  /\ config.attack = "BinaryPrimeProbe" =>
       /\ s.tp + s.tn + s.fp + s.fn = s.trials
       /\ s.correct = s.tp + s.tn
       /\ s.touched = s.tp + s.fn /\ s.untouched = s.tn + s.fp
       /\ s.binaryJoint[1][1] = s.tp /\ s.binaryJoint[0][0] = s.tn
       /\ s.binaryJoint[0][1] = s.fp /\ s.binaryJoint[1][0] = s.fn
  /\ config.attack = "EvictTime" =>
       s.touched + s.untouched = s.trials /\ s.correct = 0

RegistersOf(i) == IF running = i THEN machine.registers ELSE contexts[i].registers

(* A program finds its registers as it left them: nothing but its own      *)
(* steps changes them, whatever the driver and the other program do.       *)
ProgramsKeepTheirRegisters ==
  [][\A i \in Programs :
       RegistersOf(i)' # RegistersOf(i) => running = i /\ ~state.done]_vars

(* A program that came to its ebreak is stepped again in its later turns;  *)
(* it neither submits nor leaves a trace nor says it is done.              *)
ExitIsFinal ==
  [][\A i \in Programs :
       contexts[i].exited /\ contexts[i].exitCode = 0 =>
         /\ RegistersOf(i)' = RegistersOf(i)
         /\ contexts[i]' = contexts[i]
         /\ running = i => state' = state /\ trace' = trace]_vars
=============================================================================
