\* Commands with every flag and TOKENER_HOST, nested in each other, on POSIX and
\* on Windows, with two changes of the user.
CONSTANTS
    Hostnames <- MCHostnames
    Flags <- MCFlags
    HostEnvs <- MCHostEnvs
    Selections <- MCSelections
    Harnesses = {"claude", "codex"}
    Overrides <- MCOverrides
    Environments <- MCEnvironments
    None = None
    Unusable = Unusable
    MaxChanges = 2
SPECIFICATION Spec
INVARIANTS LaunchTypeOK LaunchGoesHome ChildSeesOwnVariables
PROPERTIES LoginSuffices RefusedOverrideDoesNotServe
