CONSTANTS
  SETS = 4
  RESERVED_STACK_SET = 1
  Threshold = 1
  Times = {0, 1}
  ProbeStride = 3
  MaxEvents = 1
  Indices = {2, 4}
  Regs <- MCRegs
  EbreakRegs <- MCEbreakRegs
  EntryRegs <- MCEntryRegs
  OtherRegs <- MCOtherRegs
  Configs <- MCConfigs
  Accesses <- MCAccesses
  TimeLists <- MCTimeLists
SPECIFICATION MCSpec
CHECK_DEADLOCK FALSE
INVARIANTS
  TypeOK
  RunsAsItself
  SubmissionsAreFresh
  TraceIsThisTrials
  TrialFollowsScript
  ProbeIsComplete
  PredictionsAddUp
PROPERTIES
  ProgramsKeepTheirRegisters
  ExitIsFinal
  ExperimentEnds
  ShippedExperimentFinishes
