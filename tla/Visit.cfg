CONSTANTS
    k1 = k1
    back = back
    hid = hid
    combo = combo
    Device = {k1, back, hid, combo}
    NameOf <- MCNameOf
    CodesOf <- MCCodesOf
    Attached <- MCAttached
    NoDevice = NoDevice
    K1Name = "gpio-keys"
    K1Code = 257
    MaskCode = 158
    MaxPress = 2
    Kid = {"k1"}
    Order <- MCOrder
    Flat = {"a", "b"}
    Deep = {}
    OutFiles = 2
    Tars <- MCTars
    TarFiles = 2
    TarBytes = 3
    Depth = 3
SPECIFICATION Spec
INVARIANTS
    LiveGesture
    KitIsConfirmed
    PayloadExact
    OkMeansComplete
    OwnBytesOnly
PROPERTIES
    GateEnds
    TimeoutEnds
