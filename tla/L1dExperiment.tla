--------------------------- MODULE L1dExperiment ----------------------------
(***************************************************************************)
(* The experiment with the programs it is shipped with, l1d-attacker and   *)
(* l1d-victim, or with others: the command line names the two binaries.    *)
(*                                                                         *)
(* A shipped program's registers are where it is (pc) and, in a probe, how *)
(* many sets it has measured (i).  Other programs are any that can be told *)
(* apart by OtherRegs.  `worked' lists what has been worked off in this    *)
(* trial; the properties read it, no action does.                          *)
(***************************************************************************)
EXTENDS Experiment, FiniteSetsExt

CONSTANTS
  ProbeStride,   \* 17 in permuted_set; odd, while SETS is a power of two
  OtherRegs,     \* the registers of other programs
  Indices,       \* the indices, and
  TimeLists      \* the lists of times that other programs submit

VARIABLES programs, worked

l1dVars == <<vars, programs, worked>>

At(pc) == [pc |-> pc, i |-> 0]
Probing(i) == [pc |-> "probe", i |-> i]
Submitting(i) == [pc |-> "submit", i |-> i]

ShippedPcs == {"start", "loop", "ready", "prime", "evict", "warm", "access",
               "return", "exit"}
ShippedRegs ==
  {At(pc) : pc \in ShippedPcs} \union {Probing(i) : i \in 0 .. SETS}
                               \union {Submitting(i) : i \in Sets}

(* There are several sets (64), the stride has no factor in common with    *)
(* their number, and the shipped programs' one ebreak is in start.S,       *)
(* behind main.                                                            *)
ASSUME L1dAssumption ==
  /\ OtherRegs \union ShippedRegs \subseteq Regs
  /\ ProbeStride \in Nat /\ Indices \subseteq Nat
  /\ TimeLists \subseteq Seq(Times)
  /\ SETS > 1 /\ \A n \in 1 .. SETS - 1 : (n * ProbeStride) % SETS # 0
  /\ EbreakRegs \intersect ShippedRegs \subseteq {At("exit")}

(* At most one access is recorded in a step; a full trace records none.    *)
AccessLists == {<<>>} \union {<<a>> : a \in Accesses}

-----------------------------------------------------------------------------
(* The shipped programs *)

AttackerWork(phase) ==
  CASE phase = HALT -> "return"
    [] phase = PRIME -> "prime"
    [] phase = PROBE -> "probe"
    [] phase = EVICT_TARGET -> "evict"
    [] OTHER -> "ready"

(* VictimWork_IgnoresHalt: the phase is asked for again and again. *)
VictimWork_IgnoresHalt(phase) ==
  CASE phase = HALT -> "loop"
    [] phase = WARM_VICTIM -> "warm"
    [] phase = VICTIM_ACCESS -> "access"
    [] OTHER -> "ready"

VictimWork(phase) ==
  CASE phase = HALT -> "return"
    [] phase = WARM_VICTIM -> "warm"
    [] phase = VICTIM_ACCESS -> "access"
    [] OTHER -> "ready"

Work(i, phase) == IF i = 0 THEN AttackerWork(phase) ELSE VictimWork(phase)

(* PermutedSet_Even: the stride has a factor in common with SETS. *)
PermutedSet_Even(start, n) == (start + n * (ProbeStride + 1)) % SETS

(* The order in which a probe goes through the sets. *)
PermutedSet(start, n) == (start + n * ProbeStride) % SETS
ProbeStart == (state.secretSet * 7 + state.targetSet) % SETS

pcNow == machine.registers.pc
iNow == machine.registers.i

(* The stores that set the program's tables up, before its first exp_done. *)
StartUp ==
  /\ pcNow = "start"
  /\ \E as \in AccessLists : Compute(as, At("ready"))
  /\ UNCHANGED worked

GetPhase ==
  /\ pcNow = "loop"
  /\ Compute(<<>>, At(Work(running, state.phase)))
  /\ UNCHANGED worked

(* prime_all_sets, prime_one_set, victim_warm_table and                    *)
(* victim_access_secret_set: loads.                                        *)
Touch ==
  /\ pcNow \in {"prime", "evict", "warm", "access"}
  /\ \E as \in AccessLists : Compute(as, At("ready"))
  /\ worked' = Append(worked, pcNow)

ProbeOneSet ==
  /\ pcNow = "probe" /\ iNow < SETS
  /\ \E as \in AccessLists : Compute(as, Submitting(iNow))
  /\ UNCHANGED worked

SubmitOneSet ==
  /\ pcNow = "submit"
  /\ \E t \in Times :
       SubmitScalar(PermutedSet(ProbeStart, iNow), t, Probing(iNow + 1))
  /\ UNCHANGED worked

ProbeIsOver ==
  /\ pcNow = "probe" /\ iNow = SETS
  /\ Compute(<<>>, At("ready"))
  /\ worked' = Append(worked, "probe")

SayDone ==
  /\ \/ pcNow = "ready" /\ ExpDone(At("loop"))
     \/ pcNow = "return" /\ ExpDone(At("exit"))
  /\ UNCHANGED worked

ShippedStep ==
  \/ StartUp \/ GetPhase \/ Touch
  \/ ProbeOneSet \/ SubmitOneSet \/ ProbeIsOver \/ SayDone

-----------------------------------------------------------------------------
(* Other programs *)

OtherStep ==
  /\ \/ \E r \in OtherRegs :
          \/ \E as \in AccessLists : Compute(as, r)
          \/ \E index \in Indices, t \in Times : SubmitScalar(index, t, r)
          \/ \E as \in AccessLists, ts \in TimeLists : SubmitVector(as, ts, r)
          \/ ExpDone(r)
          \/ Fault(r)
     \/ \E as \in AccessLists, ts \in TimeLists : FaultySubmitVector(as, ts)
     \/ Unimplemented
  /\ UNCHANGED worked

-----------------------------------------------------------------------------

L1dInit ==
  /\ Init
  /\ programs \in {"shipped", "other"}
  /\ programs = "shipped" =>
       \A i \in Programs : contexts[i].registers = At("start")
  /\ programs = "other" =>
       \A i \in Programs : contexts[i].registers \in OtherRegs
  /\ worked = <<>>

Drive ==
  /\ DriverStep
  /\ worked' = IF trial' # trial THEN <<>> ELSE worked

L1dNext ==
  /\ \/ Drive
     \/ programs = "shipped" /\ Steps /\ ShippedStep
     \/ programs = "other" /\ Steps /\ OtherStep
     \/ Ebreak /\ UNCHANGED worked
  /\ UNCHANGED programs

L1dSpec == L1dInit /\ [][L1dNext]_l1dVars

(* The driver and the machine are one loop that goes on as long as it can. *)
FairL1dSpec == L1dSpec /\ WF_l1dVars(L1dNext)

-----------------------------------------------------------------------------
(* Properties *)

TrialIsOver == AtRest /\ stage = "trial" /\ trial > summary.trials

(* A trial of the shipped programs is worked off as the script has it: in  *)
(* every turn the program whose turn it is does the work of that phase,    *)
(* once, and does nothing of another phase.                                *)
TrialFollowsScript ==
  programs = "shipped" /\ TrialIsOver =>
    worked = [n \in 1 .. Len(Script) |-> Work(Script[n].who, Script[n].phase)]

(* The attacker submits a measured time for every set: probing in strides  *)
(* misses none, and a zero in the list is never one that resize filled in. *)
ProbeIsComplete ==
  programs = "shipped" /\ TrialIsOver /\ config.attack # "EvictTime" =>
    /\ Len(Probe) = SETS
    /\ \A n \in 1 .. SETS : Probe[n].measured

(* The counters of the summary agree with each other, and with the joint   *)
(* table of a prime-probe experiment: a trial is in the table once at most,*)
(* once exactly if the shipped attacker measured it, correct if on its     *)
(* diagonal; and the reserved set is never predicted.                      *)
PredictionsAddUp ==
  LET table == summary.multiJoint
      total == SumFunction([p \in Sets \X Sets |-> table[p[1]][p[2]]])
      diagonal == SumFunction([s \in Sets |-> table[s][s]])
  IN /\ ScoresAddUp
     /\ config.attack = "PrimeProbe" =>
          /\ summary.correct = diagonal
          /\ total <= summary.trials
          /\ programs = "shipped" => total = summary.trials
          /\ \A s \in Sets : table[s][RESERVED_STACK_SET] = 0

(* If every turn ends, so does the experiment (or it panics).              *)
ExperimentEnds ==
  ([]<>(running = NoOne) => <>(stage \in {"finished", "panicked"}))

(* The shipped programs end every turn, and leave only through exp_done:   *)
(* the driver lets go of them before they reach their ebreak, so that the  *)
(* experiment finishes and no program has exited then.                     *)
ShippedExperimentFinishes ==
  programs = "shipped" =>
    <>(stage = "finished" /\ \A i \in Programs : ~contexts[i].exited)
=============================================================================
