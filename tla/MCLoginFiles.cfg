SPECIFICATION Spec
CONSTANTS
    a = a
    b = b
    c = c
    shared = shared
    own = own
    NoFile = NoFile
    Empty = Empty
    Broken = Broken
    Garbled = Garbled
    Temporary = Temporary
    NoPw = NoPw
    Unset = Unset
    MaxTries = 1
    SessionFiles = {shared}
    SessionFileOf <- MCSessionFileOf
    Home = home
    Shells = {a, b}
    EnvVarShells = {b}
    Schemes = {"pam"}
    TlsValues = {}
    Collections = {home}
    ShortPasswords = {p1}
    LongPasswords = {}
    Commands = {"ipasswd", "iexit", "iinit"}
VIEW MCFilesView
CONSTRAINT MCIinitsBeforeLogin
INVARIANTS RequiredComplete
PROPERTIES SettingsKept RestoredOnlyByLogin
