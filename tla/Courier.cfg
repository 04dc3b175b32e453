CONSTANTS
    j1 = j1
    j2 = j2
    Stick = {s1, s2}
    Proc = {p, q}
    j3 = j3
    Job = {j1, j2, j3}
    Unfit = {j3}
    Privileged = {j2}
    Wanted <- MCWanted
    Nothing = Nothing
    SeqNo = {1, 2}
SPECIFICATION Spec
SYMMETRY Symmetry
INVARIANTS
    TypeOK
    FreshSeqs
    SignatureLast
    ConfirmedIsPlaced
    
PROPERTY
    LastSeqNeverFalls
