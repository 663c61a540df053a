\* Three processes of one build on Windows, one fault.
CONSTANTS
    p1 = p1
    p2 = p2
    p3 = p3
    d1 = d1
    d2 = d2
    Writers = {p1, p2, p3}
    Modes = {executable}
    TempMode = private
    Executable = executable
    Torn = Torn
    Foreign = Foreign
    None = None
    Paths = {d1}
    Contents = {d1, Foreign}
    Engine <- SameBuild
    ReplaceBusy = TRUE
    MaxFaults = 1
SPECIFICATION EngineFairSpec
INVARIANTS EngineTypeOK FailureNeedsFault
PROPERTIES EngineRecovers ImplementsStore
