CONSTANTS
    MemSize = 4
    Value = {0, 1}
    Quantum = 3
    Cycles = {1, 2}

SPECIFICATION FairSpec

INVARIANTS
    TypeOK
    MachineIsCurrents

PROPERTIES
    ImplementsTwoPrograms
    CallsShareTheMachine
    HaltingProgramsReturn

CHECK_DEADLOCK FALSE
