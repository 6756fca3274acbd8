CONSTANTS
    w1 = w1
    w2 = w2
    None = None
    Stations = {w1, w2}
    Enabled = {w1, w2}
    Supers = {w1}
    NImages = 1
    ImgType <- File
    NbdNbds = 2
    Tid <- TwoTids
    Workers = {p1}
    Prompt = TRUE
    Crashes = TRUE
SPECIFICATION Spec
INVARIANTS
    OwnDisk
    RestartRestores
    NoUnauthorizedChanges
    DeviceFound
    NormalOffBase
PROPERTIES
    SuperKept
    SnapshotIsNew
    AnswerHasDisks
