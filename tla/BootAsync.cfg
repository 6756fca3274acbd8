CONSTANTS
    w1 = w1
    w2 = w2
    None = None
    Stations = {w1, w2}
    Enabled = {w1}
    Supers = {w1}
    NImages = 2
    ImgType <- ZvolAndIso
    NbdNbds = 1
    Tid <- TwoTids
    Workers = {p1}
    Prompt = FALSE
    Crashes = FALSE
SPECIFICATION FairSpec
INVARIANTS
    RestartRestores
    NoUnauthorizedChanges
PROPERTIES
    HandlersEnd
