SPECIFICATION Spec
CONSTANTS
    Names = {"a"}
    Dirs = {"d"}
    Bytes = {1}
    RDONLY = 0
    WRONLY = 1
    RDWR = 2
    OpenModes = {0}
    WriteLens = {1}
    ReadLens = {2}
    Dup3Targets = {4}
    MaxFds = 5
    MaxInodes = 5
    MaxData = 1
    MaxDepth = 1
    MountText <- MCMountText
    CwdSizes = {3}
    \* No getdents64 call: a bad fd panics it in one step, and this run is
    \* about the pipe read of the spec's pipe scenario.
    DirentLens = {}
    DirentSize = 2
    Tasks = {t1}
INVARIANT NoKernelPanic
VIEW StateView
