SPECIFICATION Spec
CONSTANTS
    Names = {"a"}
    Dirs = {"d"}
    Bytes = {1}
    RDONLY = 0
    WRONLY = 1
    RDWR = 2
    OpenModes = {0}
    WriteLens = {1}
    ReadLens = {1}
    Dup3Targets = {4}
    MaxFds = 5
    MaxInodes = 5
    MaxData = 1
    MaxDepth = 1
    MountText <- MCMountText
    CwdSizes = {3}
    DirentLens = {1, 3, 4}
    DirentSize = 2
    Tasks = {t1}
PROPERTY UnlinkResolvesLikeOpen
VIEW StateView
