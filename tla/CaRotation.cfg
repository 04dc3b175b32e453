CONSTANTS
    Ca = {a, b, c}
    NoCa = NoCa
    Id = {m, n}
    NoId = NoId
    Host = {h, k}
    Skipped = {k}
    SeqNo = {1, 2, 3}
SPECIFICATION Spec
SYMMETRY Cas
INVARIANTS
    NeverKeyless
    ReceiptMeansReplaced
    PairMatches
    FleetCaKept
    BundleTrustsFleet
    BlocklistCovers
