CONSTANTS
    k1 = k1
    k2 = k2
    k3 = k3
    k4 = k4
    Key = {k1, k2, k3, k4}
    NoKey = NoKey
    File <- Singles
SPECIFICATION Spec
SYMMETRY Keys
INVARIANTS
    Disjoint
    OperatorRemains
    ReceiptHolds
PROPERTIES
    TwoKeyRule
