CONSTANTS
    w1 = w1
    w2 = w2
    None = None
    Stations = {w1}
    Enabled = {w1}
    Supers = {w1}
    NImages = 1
    ImgType <- File
    NbdNbds = 2
    Tid <- OneTid
    Workers = {p1, p2}
    Prompt = TRUE
    Crashes = FALSE
SPECIFICATION Spec
INVARIANTS
    NoUnauthorizedChanges
