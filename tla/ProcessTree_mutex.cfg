\* Two harts: is Process.inner still a mutual-exclusion lock?
CONSTANTS
    Cores = {h1, h2}
    MaxPid = 2
    ExitCodes = {0}
    Options = {0}
    MaxSyscalls = 3
    ExecOutcomes = {"ok"}
    CloneFlagArgs = {17}
    NoTask = NoTask
    NoParent = NoParent
SPECIFICATION Spec
SYMMETRY HartSymmetry
INVARIANT MutualExclusion
