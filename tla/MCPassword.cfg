SPECIFICATION Spec
CONSTANTS
    a = a
    b = b
    c = c
    shared = shared
    own = own
    NoFile = NoFile
    Empty = Empty
    Broken = Broken
    Garbled = Garbled
    Temporary = Temporary
    NoPw = NoPw
    Unset = Unset
    MaxTries = 1
    SessionFiles = {shared}
    SessionFileOf <- MCSessionFileOf
    Home = home
    Shells = {a, b}
    EnvVarShells = {a, b}
    Schemes = {}
    TlsValues = {}
    Collections = {home}
    ShortPasswords = {p1}
    LongPasswords = {q1}
    Commands = {"ipasswd", "iexit", "iadmin", "iinit"}
SYMMETRY MCSymmetry
VIEW MCPasswordView
INVARIANTS TypeOK CredentialsAgree
PROPERTIES GarbledHasCause
