CONSTANTS
    r1 = r1
    r2 = r2
    a = a
    Job = {j1, j2}
    SeqNo = {1, 2}
    Run = {r1, r2}
    NoRun = NoRun
    NoDir = NoDir
    Name = {a}
    OutputsOf <- MCOutputsOf
    Faults = {"kill"}
SPECIFICATION Spec
PROPERTY NeverRerun
