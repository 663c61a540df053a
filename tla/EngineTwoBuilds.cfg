\* Two processes of one build and one of another on POSIX, two faults.
CONSTANTS
    p1 = p1
    p2 = p2
    p3 = p3
    d1 = d1
    d2 = d2
    Writers = {p1, p2, p3}
    Modes = {executable}
    TempMode = private
    Executable = executable
    Torn = Torn
    Foreign = Foreign
    None = None
    Paths = {d1, d2}
    Contents = {d1, d2, Foreign}
    Engine <- TwoBuilds
    ReplaceBusy = FALSE
    MaxFaults = 2
SPECIFICATION EngineSpec
SYMMETRY BuildSymmetry
INVARIANTS ReturnedEngineGood
PROPERTIES GoodStaysGood
