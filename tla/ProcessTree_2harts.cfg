\* Two harts drive TASK_QUEUE: syscall steps of different tasks interleave,
\* and exec may fail.  A failed exec spins for ever on its own lock, so
\* TLC's deadlock check is replaced by the NoDeadlock invariant, which
\* excuses only that case.  The tree also implements ProcessLifecycle.
CONSTANTS
    Cores = {h1, h2}
    MaxPid = 3
    ExitCodes <- MCExitCodes
    Options = {0, 1}
    MaxSyscalls = 2
    ExecOutcomes = {"ok", "missing"}
    CloneFlagArgs = {17, 33554449}
    NoTask = NoTask
    NoParent = NoParent
SPECIFICATION Spec
CHECK_DEADLOCK FALSE
SYMMETRY HartSymmetry
INVARIANT ChildMapsConsistent
INVARIANT NoLockHeldOffHart
INVARIANT NoDeadlock
PROPERTY WaitpidContract
PROPERTY LifecycleRefinement
