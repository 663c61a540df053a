\* One pull after the other of two releases that stay as they are, three targets.
CONSTANTS
    Runs = {r1}
    Commands = {"pull"}
    Last = 3
    Platforms = {1, 3}
    Tags = {v1, v2}
    Revisions = {c0, c1, c2}
    Versioned = {c0, c1}
    Foreign = foreign
    Damaged = Damaged
    None = None
    Disturbances = {"fail", "damage"}
    MaxFaults = 2
SPECIFICATION RepairSpec
INVARIANTS LockIsOneBuild AcceptedEngineIsPinned
PROPERTIES EventuallyPinned
