\* Two tasks sharing the fd table (a process and its clone) open the same
\* new file at once: both miss in the dentry cache before either inserts.
SPECIFICATION Spec
CONSTANTS
    Names = {"a"}
    Dirs = {"d"}
    Bytes = {1}
    RDONLY = 0
    WRONLY = 1
    RDWR = 2
    OpenModes = {0}
    WriteLens = {1}
    ReadLens = {1}
    Dup3Targets = {1}
    MaxFds = 6
    MaxInodes = 6
    MaxData = 1
    MaxDepth = 1
    MountText <- MCMountText
    CwdSizes = {3}
    DirentLens = {}
    DirentSize = 2
    Tasks = {t1, t2}
PROPERTY DentryStable
VIEW StateView
