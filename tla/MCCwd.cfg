SPECIFICATION Spec
CONSTANTS
    a = a
    b = b
    c = c
    shared = shared
    own = own
    NoFile = NoFile
    Empty = Empty
    Broken = Broken
    Garbled = Garbled
    Temporary = Temporary
    NoPw = NoPw
    Unset = Unset
    MaxTries = 3
    SessionFiles = {shared, own}
    SessionFileOf <- MCSessionFileOf
    Home = home
    Shells = {a, b, c}
    EnvVarShells = {}
    Schemes = {"native"}
    TlsValues = {}
    Collections = {home, x}
    ShortPasswords = {p1}
    LongPasswords = {}
    Commands = {"icd", "ipwd", "iexit"}
SYMMETRY MCSymmetry
VIEW MCCwdView
PROPERTIES WorkingCollectionSpec IcdStores
