CONSTANTS
    Procs = {p1, p2}
    Jobs = {1, 2}
    Ops = {o1, o2}
    MaxTasks = 4
    NoProc = NoProc
    NoJob = NoJob
SPECIFICATION Spec
SYMMETRY Symmetry
INVARIANTS
    TypeOK
    OperationOwnedOnce
    OperationNeverVacant
    LineageReciprocal
    OneTransaction
    RetryRecoverable
    HeldLineageStable
PROPERTIES
    NoResurrection
    
