CONSTANTS
    w1 = w1
    w2 = w2
    None = None
    Stations = {w1, w2}
    Enabled = {w1, w2}
    Supers = {}
    NImages = 1
    ImgType <- File
    NbdNbds = 2
    Tid <- TwoTids
    Workers = {p1, p2}
    Prompt = TRUE
    Crashes = FALSE
SPECIFICATION Spec
INVARIANTS
    RestartRestores
