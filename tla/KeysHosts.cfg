\* Two commands of every kind on two hosts, one of them with a legacy binding, while
\* the user switches the selected host under them.  Nothing fails: that is the part
\* of KeysConcurrent.
CONSTANTS
    Procs = {p1, p2}
    Commands = {"agent", "login", "regenerate"}
    Hosts = {h1, h2}
    DefaultHost = h1
    Supported = {h1, h2}
    Orgs = {o1}
    Keys = {k0, k1, k2}
    LegacyKeys = {k0}
    None = None
    Damaged = Damaged
    MaxFaults = 0
SPECIFICATION Spec
SYMMETRY KeySymmetry
INVARIANTS HostIsolation
PROPERTY ImplementsLifecycle
