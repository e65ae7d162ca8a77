--------------------------- MODULE MCL1dExperiment --------------------------
(* An instance of L1dExperiment: four sets, of which set 1 is reserved.    *)
EXTENDS L1dExperiment

MCOtherRegs == {At("a"), At("exit")}
MCEbreakRegs == {At("exit")}
MCEntryRegs == {At("start"), At("a")}
MCRegs == ShippedRegs \union MCOtherRegs

MCAccesses == {[evicted |-> 1, source |-> "Lower"]}
MCTimeLists == {<<1, 0, 1>>}

MCConfigs ==
  [attack: {"BinaryPrimeProbe", "PrimeProbe", "EvictTime"},
   control: {"None", "NoVictim", "ForcedEviction"},
   domain: {"Different", "Same"},
   trials: {1, 2}, target: {2}, decoy: {3}]

(* The shipped programs run two trials of every kind (evict-time one for   *)
(* each set); other programs one, in which what they submit is scored.     *)
MCInit ==
  /\ L1dInit
  /\ programs = "shipped" =>
       config.trials = 2 /\ (config.domain = "Same" => config.control = "None")
  /\ programs = "other" =>
       /\ config.trials = 1 /\ config.attack # "EvictTime"
       /\ config.control = "None" /\ config.domain = "Different"

MCSpec == MCInit /\ [][L1dNext]_l1dVars /\ WF_l1dVars(L1dNext)
=============================================================================
