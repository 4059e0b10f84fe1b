----------------------------- MODULE ProcessTree -----------------------------
(***************************************************************************)
(* The process tree of the kernel and the clone / exit / waitpid protocol  *)
(* built on it (src/os/kernel/src/syscall/process.rs), run by the          *)
(* cooperative task scheduler: every process has one kernel task          *)
(* (Thread) that is either on a hart, queued on TASK_QUEUE, or finished.   *)
(*                                                                         *)
(* Each process carries a spin lock (Process.inner, a spin::Mutex).  A     *)
(* syscall is cut into one action per stretch of code between two lock     *)
(* operations, so that on several harts the stretches interleave exactly  *)
(* where the code lets them.  A task that spins on a held lock simply has  *)
(* no enabled action.  A hart never leaves its task except when the task   *)
(* yields (waitpid) or finishes (exit): there is no preemption.            *)
(***************************************************************************)
EXTENDS Integers, Sequences, FiniteSets, FiniteSetsExt, Bitwise

CONSTANTS
    Cores,        \* the harts that drive TASK_QUEUE
    MaxPid,       \* PID_ALLOCATOR hands out 1..MaxPid, then clone is not issued
    ExitCodes,    \* the exit codes user programs pass to exit
    Options,      \* the waitpid options values tried (0 = blocking)
    MaxSyscalls,  \* clone/exec/waitpid calls a program makes before it must exit
    ExecOutcomes, \* what exec finds: "ok", "missing" path, or "bad_elf"
    CloneFlagArgs, \* the flags values user programs pass to clone
    NoTask,       \* an idle hart
    NoParent      \* the parent of the init process

InitPid == 0
Pids == 0..MaxPid

ASSUME /\ MaxPid \in Nat \ {0}
       /\ ExitCodes \subseteq Int /\ ExitCodes # {}
       /\ 0 \in Options /\ Options \subseteq Nat
       /\ MaxSyscalls \in Nat
       /\ ExecOutcomes \subseteq {"ok", "missing", "bad_elf"}
       /\ CloneFlagArgs \subseteq Nat /\ CloneFlagArgs # {}

VARIABLES
    nextPid,   \* PID_ALLOCATOR: the next pid alloc_pid returns
    state,     \* PCB.state (EMPTY for a pid not yet allocated)
    parent,    \* PCB.parent
    exitCode,  \* PCB.exit_code
    alive,     \* PCB.children.alive: the pids of the children still running
    zombie,    \* PCB.children.zombie: the children exited and not yet reaped
    locked,    \* the flag of the spin lock Process.inner
    holders,   \* the tasks executing code that relies on holding that lock
    pc,        \* where each task is in its syscall
    newPid,    \* the local new_pid of a clone in progress
    wait,      \* the locals of a waitpid in progress
    waitRet,   \* what the last waitpid returned, and the status it wrote
    readyQ,    \* TASK_QUEUE
    running,   \* the task each hart is driving
    syscalls,  \* syscalls issued so far by each program
    halted     \* "no", or how the machine stopped: sbi shutdown or a panic

vars == <<nextPid, state, parent, exitCode, alive, zombie, locked, holders,
          pc, newPid, wait, waitRet, readyQ, running, syscalls, halted>>

PCs == {"idle", "user", "clone", "exit_mark", "exit_lock_parent",
        "exit_zombie", "exit_done", "wait_check", "wait_unlock", "wait_poll",
        "wait_relock", "wait_status", "wait_reap", "wait_pid", "exec",
        "exec_exit", "done"}

NoWait == [target |-> 0, options |-> 0, pick |-> InitPid, status |-> 0]
NoRet  == [ret |-> 0, status |-> 0, reaped |-> NoTask]

TypeOK ==
    /\ nextPid \in 1..(MaxPid + 1)
    /\ state \in [Pids -> {"READY", "ZOMBIE", "EMPTY"}]
    /\ parent \in [Pids -> Pids \cup {NoParent}]
    /\ exitCode \in [Pids -> Int]
    /\ alive \in [Pids -> SUBSET Pids]
    /\ zombie \in [Pids -> SUBSET Pids]
    /\ locked \in [Pids -> BOOLEAN]
    /\ holders \in [Pids -> SUBSET Pids]
    /\ pc \in [Pids -> PCs]
    /\ newPid \in [Pids -> Pids]
    /\ wait \in [Pids -> [target : {-1} \cup Pids, options : Options,
                          pick : Pids, status : Int]]
    /\ waitRet \in [Pids -> [ret : Int, status : Int,
                             reaped : Pids \cup {NoTask}]]
    /\ readyQ \in Seq(Pids)
    /\ running \in [Cores -> Pids \cup {NoTask}]
    /\ syscalls \in [Pids -> 0..MaxSyscalls]
    /\ halted \in {"no", "shutdown", "panic"}

(* The init process exists, READY and queued; every other pid is EMPTY.   *)
Init ==
    /\ nextPid = 1
    /\ state = [p \in Pids |-> IF p = InitPid THEN "READY" ELSE "EMPTY"]
    /\ parent = [p \in Pids |-> NoParent]
    /\ exitCode = [p \in Pids |-> 0]
    /\ alive = [p \in Pids |-> {}]
    /\ zombie = [p \in Pids |-> {}]
    /\ locked = [p \in Pids |-> FALSE]
    /\ holders = [p \in Pids |-> {}]
    /\ pc = [p \in Pids |-> IF p = InitPid THEN "user" ELSE "idle"]
    /\ newPid = [p \in Pids |-> InitPid]
    /\ wait = [p \in Pids |-> NoWait]
    /\ waitRet = [p \in Pids |-> NoRet]
    /\ readyQ = <<InitPid>>
    /\ running = [c \in Cores |-> NoTask]
    /\ syscalls = [p \in Pids |-> 0]
    /\ halted = "no"

-----------------------------------------------------------------------------
(* Spin-lock operations.  A guard drop stores "unlocked" whoever holds.   *)
Acquire(p, t) ==
    /\ ~locked[p]
    /\ locked' = [locked EXCEPT ![p] = TRUE]
    /\ holders' = [holders EXCEPT ![p] = @ \cup {t}]

Release(p, t) ==
    /\ locked' = [locked EXCEPT ![p] = FALSE]
    /\ holders' = [holders EXCEPT ![p] = @ \ {t}]

OnHart(t) == \E c \in Cores : running[c] = t

Goto(t, where) == pc' = [pc EXCEPT ![t] = where]

(* The hart running t goes back to the run loop.                          *)
LeaveHart(t) ==
    running' = [c \in Cores |-> IF running[c] = t THEN NoTask ELSE running[c]]

Issue(t) ==
    /\ syscalls[t] < MaxSyscalls
    /\ syscalls' = [syscalls EXCEPT ![t] = @ + 1]

-----------------------------------------------------------------------------
(* The run loop: an idle hart pops the next runnable task of TASK_QUEUE.  *)
Dispatch(c) ==
    /\ running[c] = NoTask
    /\ readyQ # <<>>
    /\ running' = [running EXCEPT ![c] = Head(readyQ)]
    /\ readyQ' = Tail(readyQ)
    /\ UNCHANGED <<newPid, nextPid, state, parent, exitCode, alive, zombie, locked,
                   holders, pc, wait, waitRet, syscalls, halted>>

-----------------------------------------------------------------------------
(* The CloneFlags bits, CLONE_NEWTIME (1 << 7) to CLONE_CHILD_SETTID      *)
(* (1 << 24): every bit from 7 to 24.                                     *)
KnownCloneFlags == 33554304

(* CloneFlags::from_bits(flags & !0x3f) is None when a bit above the low *)
(* six (the exit signal) is not a CloneFlags bit: bit 6, or 25 and up.    *)
UnknownCloneBits(f) ==
    LET masked == f - (f % 64) IN masked - (masked & KnownCloneFlags) # 0

(* sys_clone: lock the caller's Process.inner and allocate the pid; then  *)
(* from_bits(..).unwrap() panics the kernel on an unknown flag bit.       *)
CloneLock(t) ==
    /\ pc[t] = "user"
    /\ nextPid <= MaxPid
    /\ Issue(t)
    /\ Acquire(t, t)
    /\ newPid' = [newPid EXCEPT ![t] = nextPid]
    /\ nextPid' = nextPid + 1
    /\ Goto(t, "clone")
    /\ \E f \in CloneFlagArgs :
          halted' = IF UnknownCloneBits(f) THEN "panic" ELSE halted
    /\ UNCHANGED <<state, parent, exitCode, alive, zombie, wait, waitRet,
                   readyQ, running>>

(* sys_clone: build the child PCB, insert it into children.alive, spawn   *)
(* its task onto TASK_QUEUE, return the pid and drop the guard.           *)
CloneBody(t) ==
    LET n == newPid[t] IN
    /\ pc[t] = "clone"
    /\ state' = [state EXCEPT ![n] = "READY"]
    /\ parent' = [parent EXCEPT ![n] = t]
    /\ alive' = [alive EXCEPT ![t] = @ \cup {n}]
    /\ readyQ' = Append(readyQ, n)
    /\ pc' = [pc EXCEPT ![t] = "user", ![n] = "user"]
    /\ newPid' = [newPid EXCEPT ![t] = InitPid]
    /\ Release(t, t)
    /\ UNCHANGED <<nextPid, exitCode, zombie, wait, waitRet, running,
                   syscalls, halted>>

-----------------------------------------------------------------------------
(* sys_exit: lock the caller's own Process.inner, called from user mode   *)
(* or from a failed exec.                                                 *)
ExitLock(t) ==
    /\ pc[t] \in {"user", "exec_exit"}
    /\ Acquire(t, t)
    /\ Goto(t, "exit_mark")
    /\ UNCHANGED <<newPid, nextPid, state, parent, exitCode, alive, zombie, wait,
                   waitRet, readyQ, running, syscalls, halted>>

(* Children::turn_into_zombie: move the pid from the parent's alive map   *)
(* to its zombie map; then the parent guard is dropped.                   *)
TurnIntoZombie(par, t) ==
    /\ alive' = [alive EXCEPT ![par] = @ \ {t}]
    /\ zombie' = [zombie EXCEPT ![par] = @ \cup {t}]

(* Mutant: the pid is filed in the parent's zombie map by the mark step, *)
(* before the parent's lock is taken.                                    *)
ExitMarkEarlyZombie(t) ==
    /\ pc[t] = "exit_mark"
    /\ \E code \in ExitCodes :
         /\ state' = [state EXCEPT ![t] = "ZOMBIE"]
         /\ exitCode' = [exitCode EXCEPT ![t] = code]
    /\ IF parent[t] = NoParent
         THEN /\ halted' = "shutdown"
              /\ UNCHANGED <<pc, alive, zombie>>
         ELSE /\ TurnIntoZombie(parent[t], t)
              /\ Goto(t, "exit_lock_parent")
              /\ UNCHANGED halted
    /\ UNCHANGED <<newPid, nextPid, parent, locked, holders, wait,
                   waitRet, readyQ, running, syscalls>>

(* Mutant: exit marks the PCB KILLED instead of ZOMBIE.                   *)
ExitMarkKilled(t) ==
    /\ pc[t] = "exit_mark"
    /\ \E code \in ExitCodes :
         /\ state' = [state EXCEPT ![t] = "KILLED"]
         /\ exitCode' = [exitCode EXCEPT ![t] = code]
    /\ IF parent[t] = NoParent
         THEN /\ halted' = "shutdown"
              /\ UNCHANGED pc
         ELSE /\ Goto(t, "exit_lock_parent")
              /\ UNCHANGED halted
    /\ UNCHANGED <<newPid, nextPid, parent, alive, zombie, locked, holders, wait,
                   waitRet, readyQ, running, syscalls>>

(* sys_exit: become ZOMBIE with the exit code; without a parent (init)    *)
(* the machine is shut down.                                              *)
ExitMark(t) ==
    /\ pc[t] = "exit_mark"
    /\ \E code \in ExitCodes :
         /\ state' = [state EXCEPT ![t] = "ZOMBIE"]
         /\ exitCode' = [exitCode EXCEPT ![t] = code]
    /\ IF parent[t] = NoParent
         THEN /\ halted' = "shutdown"
              /\ UNCHANGED pc
         ELSE /\ Goto(t, "exit_lock_parent")
              /\ UNCHANGED halted
    /\ UNCHANGED <<newPid, nextPid, parent, alive, zombie, locked, holders, wait,
                   waitRet, readyQ, running, syscalls>>

(* sys_exit: lock the parent's Process.inner.                             *)
ExitLockParent(t) ==
    /\ pc[t] = "exit_lock_parent"
    /\ Acquire(parent[t], t)
    /\ Goto(t, "exit_zombie")
    /\ UNCHANGED <<newPid, nextPid, state, parent, exitCode, alive, zombie, wait,
                   waitRet, readyQ, running, syscalls, halted>>

(* Mutant: the parent's maps are left alone; only its guard is dropped.   *)
ExitZombieSkipsMove(t) ==
    /\ pc[t] = "exit_zombie"
    /\ Release(parent[t], t)
    /\ Goto(t, "exit_done")
    /\ UNCHANGED <<newPid, nextPid, state, parent, exitCode, wait, waitRet, readyQ,
                   running, syscalls, halted, alive, zombie>>

(* Mutant: the pid leaves the parent's alive map but is never filed in   *)
(* its zombie map, so the parent can never reap it.                       *)
ExitZombieDropsChild(t) ==
    /\ pc[t] = "exit_zombie"
    /\ alive' = [alive EXCEPT ![parent[t]] = @ \ {t}]
    /\ Release(parent[t], t)
    /\ Goto(t, "exit_done")
    /\ UNCHANGED <<newPid, nextPid, state, parent, exitCode, wait, waitRet, readyQ,
                   running, syscalls, halted, zombie>>

(* sys_exit with a parent: turn_into_zombie under the parent's lock, then *)
(* drop the parent's guard.                                               *)
ExitZombie(t) ==
    /\ pc[t] = "exit_zombie"
    /\ TurnIntoZombie(parent[t], t)
    /\ Release(parent[t], t)
    /\ Goto(t, "exit_done")
    /\ UNCHANGED <<newPid, nextPid, state, parent, exitCode, wait, waitRet, readyQ,
                   running, syscalls, halted>>

(* Mutant: the task finishes without dropping its own guard.              *)
ExitDoneKeepLock(t) ==
    /\ pc[t] = "exit_done"
    /\ Goto(t, "done")
    /\ LeaveHart(t)
    /\ UNCHANGED <<newPid, nextPid, state, parent, exitCode, alive, zombie,
                   locked, holders, wait, waitRet, readyQ, syscalls, halted>>

(* sys_exit: mark the thread exited and drop the own guard; user_loop     *)
(* then ends the task, which is never polled again.                       *)
ExitDone(t) ==
    /\ pc[t] = "exit_done"
    /\ Release(t, t)
    /\ Goto(t, "done")
    /\ LeaveHart(t)
    /\ UNCHANGED <<newPid, nextPid, state, parent, exitCode, alive, zombie, wait,
                   waitRet, readyQ, syscalls, halted>>

-----------------------------------------------------------------------------
(* sys_waitpid(pid, status, options): lock the caller's Process.inner.    *)
WaitLock(t) ==
    /\ pc[t] = "user"
    /\ Issue(t)
    /\ Acquire(t, t)
    /\ \E target \in {-1} \cup (Pids \ {InitPid}), opt \in Options :
         wait' = [wait EXCEPT ![t] = [NoWait EXCEPT !.target = target,
                                                    !.options = opt]]
    /\ Goto(t, "wait_check")
    /\ UNCHANGED <<newPid, nextPid, state, parent, exitCode, alive, zombie, waitRet,
                   readyQ, running, halted>>

(* The syscall returns r having written status s (if any) and reaped z.   *)
Return(t, r, s, z) ==
    /\ waitRet' = [waitRet EXCEPT ![t] = [ret |-> r, status |-> s, reaped |-> z]]
    /\ wait' = [wait EXCEPT ![t] = NoWait]
    /\ Goto(t, "user")

(* Mutant: "no children" is decided from the alive map alone.            *)
WaitCheckAliveOnly(t) ==
    /\ pc[t] = "wait_check"
    /\ IF Cardinality(alive[t]) = 0
         THEN /\ Return(t, IF wait[t].options > 0 THEN 0 ELSE -1, 0, NoTask)
              /\ Release(t, t)
         ELSE /\ Goto(t, IF wait[t].target = -1 THEN "wait_unlock" ELSE "wait_pid")
              /\ UNCHANGED <<locked, holders, wait, waitRet>>
    /\ UNCHANGED <<newPid, nextPid, state, parent, exitCode, alive, zombie,
                   readyQ, running, syscalls, halted>>

(* No children at all: return 0 if options > 0, else -1.                  *)
WaitCheck(t) ==
    /\ pc[t] = "wait_check"
    /\ IF Cardinality(alive[t]) + Cardinality(zombie[t]) = 0
         THEN /\ Return(t, IF wait[t].options > 0 THEN 0 ELSE -1, 0, NoTask)
              /\ Release(t, t)
         ELSE /\ Goto(t, IF wait[t].target = -1 THEN "wait_unlock" ELSE "wait_pid")
              /\ UNCHANGED <<locked, holders, wait, waitRet>>
    /\ UNCHANGED <<newPid, nextPid, state, parent, exitCode, alive, zombie,
                   readyQ, running, syscalls, halted>>

(* Mutant: the polling loop is entered without force_unlock.              *)
WaitForceUnlockMissing(t) ==
    /\ pc[t] = "wait_unlock"
    /\ Goto(t, "wait_poll")
    /\ UNCHANGED <<newPid, nextPid, state, parent, exitCode, alive, zombie,
                   locked, holders, wait, waitRet, readyQ, running, syscalls,
                   halted>>

(* pid == -1: force_unlock before the polling loop; the first guard       *)
(* stays alive until the function returns.                                *)
WaitForceUnlock(t) ==
    /\ pc[t] = "wait_unlock"
    /\ Release(t, t)
    /\ Goto(t, "wait_poll")
    /\ UNCHANGED <<newPid, nextPid, state, parent, exitCode, alive, zombie, wait,
                   waitRet, readyQ, running, syscalls, halted>>

(* Mutant: the non-blocking return ignores options.                      *)
WaitPollNoHangAlways(t) ==
    /\ pc[t] = "wait_poll"
    /\ zombie[t] = {}
    /\ Return(t, 0, 0, NoTask)
    /\ locked' = [locked EXCEPT ![t] = FALSE]
    /\ UNCHANGED <<newPid, nextPid, state, parent, exitCode, alive, zombie,
                   holders, readyQ, running, syscalls, halted>>

(* The polling loop finds no zombie and options > 0: return 0.  The live  *)
(* first guard is dropped on return and stores "unlocked".                *)
WaitPollNoHang(t) ==
    /\ pc[t] = "wait_poll"
    /\ zombie[t] = {}
    /\ wait[t].options > 0
    /\ Return(t, 0, 0, NoTask)
    /\ locked' = [locked EXCEPT ![t] = FALSE]
    /\ UNCHANGED <<newPid, nextPid, state, parent, exitCode, alive, zombie,
                   holders, readyQ, running, syscalls, halted>>

(* Mutant: the loop yields without re-checking the zombie map.            *)
WaitYieldUnchecked(t) ==
    /\ pc[t] = "wait_poll"
    /\ wait[t].options = 0
    /\ readyQ' = Append(readyQ, t)
    /\ LeaveHart(t)
    /\ UNCHANGED <<newPid, nextPid, state, parent, exitCode, alive, zombie,
                   locked, holders, pc, wait, waitRet, syscalls, halted>>

(* The polling loop finds no zombie: async_yield.  YieldFuture wakes its  *)
(* own waker (the task goes back on TASK_QUEUE) and returns Pending.      *)
WaitYield(t) ==
    /\ pc[t] = "wait_poll"
    /\ zombie[t] = {}
    /\ wait[t].options = 0
    /\ readyQ' = Append(readyQ, t)
    /\ LeaveHart(t)
    /\ UNCHANGED <<newPid, nextPid, state, parent, exitCode, alive, zombie, locked,
                   holders, pc, wait, waitRet, syscalls, halted>>

(* The polling loop finds a zombie and leaves the loop.                   *)
WaitPollFound(t) ==
    /\ pc[t] = "wait_poll"
    /\ zombie[t] # {}
    /\ Goto(t, "wait_relock")
    /\ UNCHANGED <<newPid, nextPid, state, parent, exitCode, alive, zombie, locked,
                   holders, wait, waitRet, readyQ, running, syscalls, halted>>

WaitRelock(t) ==
    /\ pc[t] = "wait_relock"
    /\ Acquire(t, t)
    /\ Goto(t, "wait_status")
    /\ UNCHANGED <<newPid, nextPid, state, parent, exitCode, alive, zombie, wait,
                   waitRet, readyQ, running, syscalls, halted>>

(* Take the first zombie by key, lock it to read exit_code, write         *)
(* (exit_code << 8) to *status; the second guard is dropped at the end    *)
(* of the block.                                                          *)
WaitStatus(t) ==
    LET z == Min(zombie[t]) IN
    /\ pc[t] = "wait_status"
    /\ ~locked[z]
    /\ wait' = [wait EXCEPT ![t].pick = z, ![t].status = exitCode[z] * 256]
    /\ Release(t, t)
    /\ Goto(t, "wait_reap")
    /\ UNCHANGED <<newPid, nextPid, state, parent, exitCode, alive, zombie, waitRet,
                   readyQ, running, syscalls, halted>>

(* remove_entry(pid) with no guard held, return pid; the first guard is   *)
(* dropped on return and stores "unlocked" again.                         *)
WaitReap(t) ==
    LET z == wait[t].pick IN
    /\ pc[t] = "wait_reap"
    /\ zombie' = [zombie EXCEPT ![t] = @ \ {z}]
    /\ Return(t, z, wait[t].status, z)
    /\ locked' = [locked EXCEPT ![t] = FALSE]
    /\ UNCHANGED <<newPid, nextPid, state, parent, exitCode, alive, holders,
                   readyQ, running, syscalls, halted>>

(* A specific pid: reap it if it is a zombie child (locking it to read    *)
(* exit_code) and fall through to "return 0"; otherwise return -1.        *)
WaitPid(t) ==
    LET z == wait[t].target IN
    /\ pc[t] = "wait_pid"
    /\ IF z \in zombie[t]
         THEN /\ ~locked[z]
              /\ zombie' = [zombie EXCEPT ![t] = @ \ {z}]
              /\ Return(t, 0, exitCode[z] * 256, z)
         ELSE /\ Return(t, -1, 0, NoTask)
              /\ UNCHANGED zombie
    /\ Release(t, t)
    /\ UNCHANGED <<newPid, nextPid, state, parent, exitCode, alive, readyQ,
                   running, syscalls, halted>>

-----------------------------------------------------------------------------
(* sys_exec: lock the caller's Process.inner; the guard lives until the   *)
(* function returns.                                                      *)
ExecLock(t) ==
    /\ pc[t] = "user"
    /\ Issue(t)
    /\ Acquire(t, t)
    /\ Goto(t, "exec")
    /\ UNCHANGED <<newPid, nextPid, state, parent, exitCode, alive, zombie,
                   wait, waitRet, readyQ, running, halted>>

(* The path is in GLOBAL_DENTRY_CACHE and parses as ELF: exec_from_elf    *)
(* replaces the image (outside this model) and the guard is dropped.      *)
ExecLoad(t) ==
    /\ pc[t] = "exec"
    /\ "ok" \in ExecOutcomes
    /\ Release(t, t)
    /\ Goto(t, "user")
    /\ UNCHANGED <<newPid, nextPid, state, parent, exitCode, alive, zombie,
                   wait, waitRet, readyQ, running, syscalls, halted>>

(* Not found or not ELF: sys_exit(-1) is called with the guard held.      *)
ExecFail(t) ==
    /\ pc[t] = "exec"
    /\ ExecOutcomes \ {"ok"} # {}
    /\ Goto(t, "exec_exit")
    /\ UNCHANGED <<newPid, nextPid, state, parent, exitCode, alive, zombie,
                   locked, holders, wait, waitRet, readyQ, running, syscalls,
                   halted>>

-----------------------------------------------------------------------------
(* sys_getppid: lock the caller's Process.inner, read parent and drop the *)
(* guard at the end of the statement; nobody else can observe the lock in *)
(* between on this hart, so it is one step that spins while the lock is  *)
(* held.  The init process has no parent: unwrap() panics the kernel.     *)
Getppid(t) ==
    /\ pc[t] = "user"
    /\ Issue(t)
    /\ ~locked[t]
    /\ halted' = IF parent[t] = NoParent THEN "panic" ELSE halted
    /\ UNCHANGED <<newPid, nextPid, state, parent, exitCode, alive, zombie,
                   locked, holders, pc, wait, waitRet, readyQ, running>>

-----------------------------------------------------------------------------
TaskStep(t) ==
    \/ CloneLock(t) \/ CloneBody(t)
    \/ ExitLock(t) \/ ExitMark(t) \/ ExitLockParent(t) \/ ExitZombie(t)
    \/ ExitDone(t)
    \/ WaitLock(t) \/ WaitCheck(t) \/ WaitForceUnlock(t) \/ WaitPollNoHang(t)
    \/ WaitYield(t) \/ WaitPollFound(t) \/ WaitRelock(t) \/ WaitStatus(t)
    \/ WaitReap(t) \/ WaitPid(t)
    \/ ExecLock(t) \/ ExecLoad(t) \/ ExecFail(t)
    \/ Getppid(t)

(* After shutdown or a panic nothing moves.                               *)
Halted == halted # "no" /\ UNCHANGED vars

Next ==
    \/ /\ halted = "no"
       /\ \/ \E c \in Cores : Dispatch(c)
          \/ \E t \in Pids : OnHart(t) /\ TaskStep(t)
    \/ Halted

(* A hart keeps driving its task and the run loop keeps popping the queue *)
(* while it is not empty: weak fairness for each.                         *)
Fairness ==
    /\ \A c \in Cores : WF_vars(halted = "no" /\ Dispatch(c))
    /\ \A t \in Pids : WF_vars(halted = "no" /\ OnHart(t) /\ TaskStep(t))

Spec == Init /\ [][Next]_vars
FairSpec == Spec /\ Fairness

-----------------------------------------------------------------------------
(***************************************************************************)
(* Properties.                                                             *)
(***************************************************************************)

(* Spec 3/8: a child pid is in at most one of its parent's alive and      *)
(* zombie maps and in no other process's maps; it sits in the zombie map *)
(* only once it is ZOMBIE, a READY child is always in the alive map, and *)
(* a child whose exit is past the parent's lock is no longer in it        *)
(* (clone inserts it, exit moves it, waitpid removes it).                 *)
ChildMapsConsistent ==
    \A q \in Pids \ {InitPid} :
        LET p == parent[q] IN
        IF state[q] = "EMPTY"
          THEN \A o \in Pids : q \notin alive[o] \cup zombie[o]
          ELSE /\ ~(q \in alive[p] /\ q \in zombie[p])
               /\ \A o \in Pids \ {p} : q \notin alive[o] \cup zombie[o]
               /\ q \in zombie[p] => state[q] = "ZOMBIE"
               /\ state[q] = "READY" => q \in alive[p]
               /\ pc[q] \in {"exit_done", "done"} => q \notin alive[p]

(* Spec 5: no lock is held by a task that is not on a hart, whether it    *)
(* yielded inside waitpid (the force_unlock before async_yield) or        *)
(* finished in exit (both guards dropped).                                *)
NoLockHeldOffHart ==
    \A t \in Pids : ~OnHart(t) => \A p \in Pids : t \notin holders[p]

(* Process.inner is a mutual-exclusion lock: at most one task at a time  *)
(* runs code that relies on holding it.  sys_waitpid(-1) force-unlocks   *)
(* the lock and later drops the original guard, unlocking it a second    *)
(* time whoever holds it then.                                           *)
MutualExclusion == \A p \in Pids : Cardinality(holders[p]) <= 1

(* The lock each task's next step spins on, and the locks it holds.       *)
Wants(t) ==
    CASE pc[t] \in {"user", "exec_exit"} -> {t}
      [] pc[t] = "exit_lock_parent"     -> {parent[t]}
      [] pc[t] = "wait_relock"          -> {t}
      [] pc[t] = "wait_status"          -> {Min(zombie[t])}
      [] OTHER                          -> {}
Held(t) == {p \in Pids : t \in holders[p]}

(* No task spins on a spin lock it holds itself: spin::Mutex is not       *)
(* reentrant, so such a task hangs its hart for ever.                     *)
NoSelfDeadlock == \A t \in Pids : pc[t] # "done" => Wants(t) \cap Held(t) = {}

WaitPCs == {"wait_check", "wait_poll", "wait_reap", "wait_pid"}
WaitReturned(t) == pc[t] \in WaitPCs /\ pc'[t] = "user"

(* Spec 4.1: waitpid(-1) returns -1 only when the caller has no children  *)
(* at all and options is 0, returns 0 only when options > 0 and no child  *)
(* is a zombie; whatever waitpid reaps was a zombie child of the caller,  *)
(* leaves the zombie map, and the status written is its exit_code << 8.   *)
WaitpidContract ==
    [][\A t \in Pids : WaitReturned(t) =>
         LET r == waitRet'[t]
             any == wait[t].target = -1 IN
         /\ any /\ r.ret = -1 =>
               alive[t] \cup zombie[t] = {} /\ wait[t].options = 0
         /\ any /\ r.ret = 0 => wait[t].options > 0 /\ zombie[t] = {}
         /\ r.reaped # NoTask =>
               /\ r.reaped \in zombie[t] \ zombie'[t]
               /\ r.status = exitCode[r.reaped] * 256
       ]_vars

(* Spec 4.1: waitpid returns the pid it reaped, for a specific pid as for *)
(* -1.                                                                    *)
WaitpidReturnsReapedPid ==
    [][\A t \in Pids : WaitReturned(t) /\ waitRet'[t].reaped # NoTask =>
                         waitRet'[t].ret = waitRet'[t].reaped]_vars

(* Spec 4.1/5: a task blocked in waitpid(-1) polling for a zombie child   *)
(* returns to user mode, as its children exit, unless the machine shuts   *)
(* down first.                                                            *)
WaitEventuallyReturns ==
    \A t \in Pids : pc[t] = "wait_poll" ~> (pc[t] = "user" \/ halted # "no")

(* Hazard process.rs:272: waitpid holds the parent's lock while it takes  *)
(* a zombie child's lock, and exit holds the child's lock while it takes  *)
(* the parent's.  No cycle of tasks spinning on each other's locks ever   *)
(* forms: until shutdown some step is enabled, unless a failed exec spins *)
(* on the lock it holds itself (the exec-failure finding).               *)
NoDeadlock ==
    \/ halted # "no"
    \/ \E t \in Pids : pc[t] = "exec_exit"
    \/ ENABLED Next

(* The process tree refines the abstract lifecycle of ProcessLifecycle:   *)
(* a pid is in its parent's zombie map, its alive map, or, once created,  *)
(* in neither because it was reaped.                                      *)
LifeOf(q) ==
    CASE state[q] = "EMPTY"        -> "none"
      [] q = InitPid               -> "alive"
      [] q \in zombie[parent[q]]   -> "zombie"
      [] q \in alive[parent[q]]    -> "alive"
      [] OTHER                     -> "reaped"

Life == INSTANCE ProcessLifecycle
          WITH life <- [q \in Pids |-> LifeOf(q)],
               parentOf <- [q \in Pids |-> IF state[q] = "EMPTY"
                                            THEN NoParent ELSE parent[q]],
               down <- (halted = "shutdown")

LifecycleRefinement == Life!Spec

=============================================================================
