\* A user who logs in, launches and regenerates, and repeats regenerate until the
\* binding is usable, through two faults, power losses among them.
CONSTANTS
    Procs = {p1}
    Commands = {"agent", "login", "regenerate"}
    Hosts = {h1}
    DefaultHost = h1
    Supported = {h1}
    Orgs = {o1}
    Keys = {k0, k1, k2, k3}
    LegacyKeys = {k0}
    None = None
    Damaged = Damaged
    MaxFaults = 2
SPECIFICATION RepairSpec
INVARIANTS RevokedBindingHasCause LiveKeysBounded
PROPERTY EventuallyUsable
