SPECIFICATION Spec
CONSTANTS
    Names = {"text.txt", "null"}
    Dirs = {"d"}
    Bytes = {1}
    RDONLY = 0
    WRONLY = 1
    RDWR = 2
    OpenModes = {0}
    WriteLens = {1}
    ReadLens = {1, 2}
    Dup3Targets = {1, 4}
    MaxFds = 5
    MaxInodes = 5
    MaxData = 2
    MaxDepth = 1
    MountText <- MCMountText
    CwdSizes = {3}
    DirentLens = {1, 3, 4}
    DirentSize = 2
    Tasks = {t1}
INVARIANT TypeOK
PROPERTY OpenReturnsDescriptorOfPath Dup3Contract
VIEW StateView
