CONSTANTS
    r1 = r1
    r2 = r2
    a = a
    Job = {j1, j2}
    SeqNo = {1, 2}
    Run = {r1, r2}
    NoRun = NoRun
    NoDir = NoDir
    Name = {a}
    OutputsOf <- MCOutputsOf
    Faults = {"power", "kill", "io", "bootio"}
SPECIFICATION Spec
SYMMETRY Jobs
INVARIANTS
    WholeResult
    ConsumedHasResult
PROPERTIES
    WriteOnce
