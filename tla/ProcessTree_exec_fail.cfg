\* One hart: a program execs a path that is not in the dentry cache.
CONSTANTS
    Cores = {h1}
    MaxPid = 1
    ExitCodes = {0}
    Options = {0}
    MaxSyscalls = 1
    ExecOutcomes = {"missing"}
    CloneFlagArgs = {17}
    NoTask = NoTask
    NoParent = NoParent
SPECIFICATION Spec
INVARIANT NoSelfDeadlock
