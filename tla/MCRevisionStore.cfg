CONSTANTS
    Procs = {p1, p2}
    Records = {r1, r2}
    MaxRevisions = 2
    ValidSuccessor <- MCValidSuccessor
    NoProc = NoProc
    NoFile = NoFile
SYMMETRY Symmetry
SPECIFICATION Spec
INVARIANTS TypeOK CrashConsistent AckedDurable
PROPERTY ImplementsLog
