SPECIFICATION Spec
CONSTANTS
    k1 = k1  k2 = k2  a1 = a1  a2 = a2
    Shells = {s1, s2}
    Keys = {k1, k2}
    Accounts = {a1, a2}
    Owner <- MCOwner
    Inodes = {i1, i2}
    Pids = {p1, p2}
    MaxSaves = 2
    NoFile = NoFile  NoEmail = NoEmail  NotConnected = NotConnected  NoConfig = NoConfig
    Empty = Empty  Torn = Torn
SYMMETRY Symmetric
CONSTRAINT Apart
PROPERTY SaveIsAtomic
