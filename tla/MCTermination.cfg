SPECIFICATION FairSpec
CONSTANTS
    a = a
    b = b
    c = c
    shared = shared
    own = own
    NoFile = NoFile
    Empty = Empty
    Broken = Broken
    Garbled = Garbled
    Temporary = Temporary
    NoPw = NoPw
    Unset = Unset
    MaxTries = 3
    SessionFiles = {shared}
    SessionFileOf <- MCSessionFileOf
    Home = home
    Shells = {a}
    EnvVarShells = {}
    Schemes = {"pam"}
    TlsValues = {}
    Collections = {home, x}
    ShortPasswords = {p1}
    LongPasswords = {}
    Commands = {"ipasswd", "iinit", "icd", "iexit"}
PROPERTIES Terminates
