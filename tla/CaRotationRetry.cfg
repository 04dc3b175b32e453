CONSTANTS
    Ca = {a, b, c}
    NoCa = NoCa
    Id = {m}
    NoId = NoId
    Host = {h}
    Skipped = {}
    SeqNo = {1, 2}
SPECIFICATION Spec
SYMMETRY Cas
INVARIANTS
    TransitionTrusts
