CONSTANTS
    k1 = k1
    k2 = k2
    Name = {1, 2}
    Ip = {1, 2}
    PubKey = {k1, k2}
    NoKey = NoKey
    NoHost = NoHost
    SeqNo = {1, 2, 3}
    Multiplier = 2
SPECIFICATION Spec
PROPERTY
    IpStable
