\* Two writers of one path that differ in data and mode.
CONSTANTS
    Writers = {w1, w2}
    Paths = {f1}
    Contents = {a, b}
    Modes = {private, executable}
    TempMode = private
    Torn = Torn
    None = None
    MaxFaults = 2
SPECIFICATION FileSpec
SYMMETRY WriterSymmetry
INVARIANTS FileTypeOK NeverTorn LitterNeedsDeath
PROPERTY ImplementsReplacement
