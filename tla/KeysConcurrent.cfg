\* Two concurrent commands of every kind on one host with a legacy binding, while
\* the user logs in with another account and one thing goes wrong.
CONSTANTS
    Procs = {p1, p2}
    Commands = {"agent", "login", "regenerate"}
    Hosts = {h1}
    DefaultHost = h1
    Supported = {h1}
    Orgs = {o1, o2}
    Keys = {k0, k1, k2}
    LegacyKeys = {k0}
    None = None
    Damaged = Damaged
    MaxFaults = 1
SPECIFICATION Spec
SYMMETRY KeySymmetry
INVARIANTS TypeOK RevokedBindingHasOwner
PROPERTIES ReplacedKeyWasRevoked ImplementsLifecycle
