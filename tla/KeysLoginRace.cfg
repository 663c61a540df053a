\* Two logins at once: both find nothing bound.
CONSTANTS
    Procs = {p1, p2}
    Commands = {"login"}
    Hosts = {h1}
    DefaultHost = h1
    Supported = {h1}
    Orgs = {o1}
    Keys = {k0, k1, k2}
    LegacyKeys = {k0}
    None = None
    Damaged = Damaged
    MaxFaults = 0
SPECIFICATION Spec
PROPERTY CreatesOnlyWhenNoneConfigured
