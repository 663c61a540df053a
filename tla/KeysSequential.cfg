\* One command of any kind at a time, one account, on a host with and one without a
\* legacy binding and on an unsupported one.  The user switches hosts, but not under
\* the prompt of `agent`.
CONSTANTS
    Procs = {p1}
    Commands = {"agent", "login", "regenerate"}
    Hosts = {h1, h2, h3}
    DefaultHost = h1
    Supported = {h1, h2}
    Orgs = {o1}
    Keys = {k0, k1, k2, k3}
    LegacyKeys = {k0}
    None = None
    Damaged = Damaged
    MaxFaults = 1
SPECIFICATION SteadySpec
SYMMETRY KeySymmetry
INVARIANTS ActiveKeysBounded
PROPERTY CreatesOnlyWhenNoneConfigured
