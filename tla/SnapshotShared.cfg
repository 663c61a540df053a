\* Two concurrent runs of every command, and two things of any kind that go wrong.
CONSTANTS
    Runs = {r1, r2}
    Commands = {"pull", "write", "verify"}
    Last = 2
    Platforms = {}
    Tags = {v1}
    Revisions = {c0, c1}
    Versioned = {c0, c1}
    Foreign = foreign
    Damaged = Damaged
    None = None
    Disturbances = {"fail", "retag", "republish", "edit", "damage"}
    MaxFaults = 2
SPECIFICATION SnapshotSpec
SYMMETRY RunSymmetry
INVARIANTS SnapshotTypeOK OkMeansConsistent AllOkMeansConsistent
