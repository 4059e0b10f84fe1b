\* One hart: the cooperative clone / exit / waitpid protocol.
CONSTANTS
    Cores = {h1}
    MaxPid = 3
    ExitCodes <- MCExitCodes
    Options = {0, 1}
    MaxSyscalls = 3
    ExecOutcomes = {"ok"}
    CloneFlagArgs = {17, 33554449}
    NoTask = NoTask
    NoParent = NoParent
SPECIFICATION FairSpec
INVARIANT TypeOK
INVARIANT ChildMapsConsistent
INVARIANT NoLockHeldOffHart
PROPERTY WaitpidContract
PROPERTY WaitEventuallyReturns
