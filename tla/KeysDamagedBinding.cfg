\* One command at a time, and the binding file is damaged once.
CONSTANTS
    Procs = {p1}
    Commands = {"login", "regenerate"}
    Hosts = {h1}
    DefaultHost = h1
    Supported = {h1}
    Orgs = {o1}
    Keys = {k0, k1, k2}
    LegacyKeys = {k0}
    None = None
    Damaged = Damaged
    MaxFaults = 1
SPECIFICATION Spec
PROPERTY RegenerateRevokesBoundKey
