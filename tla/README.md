# TLA+ models of the naive-os process and file core

This directory holds TLA+ specifications of the process and resource core of
naive-os, the model-checking configurations that check them, and
`PROJECT.json`, which maps every definition to the source lines it models. It
also lists the runs, mutants, findings and hazards. The models cover:

- the process tree and its syscalls, `src/os/kernel/src/syscall/process.rs`;
- the cooperative task scheduler;
- the per-process spin locks;
- the file-descriptor layer, `src/os/kernel/src/task/mod.rs` and
  `src/os/kernel/src/syscall/fs.rs`;
- the FAT32 directory entries, their 32-byte on-disk encoding and the
  UTF-8/UTF-16 name conversions,
  `src/os/kernel/dependencies/fat32/src/directory_item.rs`.

## The system

| Part | Code | State | Operations |
|---|---|---|---|
| Process tree | `process.rs` `Thread::sys_clone/exit/waitpid/exec/getppid`, `task/mod.rs` `PCB` | pid, state, parent, exit code, the parent's `alive` and `zombie` maps | clone, exit, waitpid (any child / one pid), exec, getppid |
| Scheduler | `TASK_QUEUE`, `async_task::spawn`, `YieldFuture` (process.rs 27-40, 163-165) | the ready queue, the task each hart runs | spawn+schedule, pop and poll, yield (wake_by_ref, Pending once) |
| PCB locks | `self.proc.inner.lock()`, `force_unlock` | one `spin::Mutex` per process | lock (spins), guard drop, force_unlock |
| Descriptor table | `FdManager`, `FileDescriptor`, `OpenFile` | `fd_array` of (OpenFile, readable, writable) | new, insert, close |
| File syscalls | `sys_openat/close/dup/dup3/pipe2/write/read/unlinkat/chdir/mount/getcwd/fstat/mkdirat/getdents64` | descriptor table, cwd, inode data | one action each; openat's miss branch two (lookup, then insert) |
| Dentry cache | `GlobalDentryCache` | path → inode | get, insert, unlink |
| Pipes | `sys_pipe2`, pipe branches of read/write | a byte buffer shared by two pipe inodes | append, read by index |
| FAT32 directory items | `ShortDirectoryItem`, `LongDirectoryItem`, `DirectoryItem` | one 32-byte entry on disk | new_sfn, new_sfn_bytes, new_lfn, set_file_length, delete (bytes/from_buf round trip) |

### How the parts interact

- **clone** takes the parent's PCB lock. It allocates a pid and shares the
  parent's `fd_manager` Arc. It inserts the child into the parent's `alive`
  map, then spawns the child's `user_loop` task onto `TASK_QUEUE`.
- **exit** locks its own PCB, then the parent's. It moves itself from
  `alive` to `zombie` and marks its task finished. When init exits (it has no
  parent), the machine shuts down.
- **waitpid(-1)** locks its own PCB, checks that it has children, and then
  `force_unlock`s. It polls the zombie map with no lock and yields through
  `YieldFuture`. Once a zombie is present it relocks, reads the child's exit
  code under the child's lock, and removes the entry with no lock. The guard
  from the start of the call unlocks once more when it returns.
- **Harts.** Several harts pop `TASK_QUEUE`, so syscall steps of different
  processes interleave. Between two yields, one task's steps on one hart are
  atomic with respect to that hart only.
- **File syscalls** reach the current process's table through `myproc()`.
  They share the global dentry cache, and a pipe's buffer is shared by its two
  inodes.

Some helpers the code calls are not under `src/` in this snapshot. These are:

- `Children::turn_into_zombie` and `GlobalDentryCache::unlink`;
- `FdManager::alloc_fd` and `OpenFile::new_pipe_read`;
- the INode variants, `translated_byte_buffer`, and the run loop.

They are modelled from the spec and marked `spec_modelled` in the map. The
files also come from different revisions: `task/mod.rs`'s `PCB` has no
`children` map, although `process.rs` uses one. Each handler is modelled as
its own file writes it.

## Modules

**`ProcessTree.tla`** holds the processes, tasks, harts and PCB locks.

- **State:**
  - `nextPid` (PID_ALLOCATOR);
  - `state`, `parent`, `exitCode`, `alive`, `zombie` per pid;
  - `locked[p]`, the spin lock, and the ghost `holders[p]`: who owns it;
  - `pc[t]`, the point inside the current syscall;
  - `newPid`, `wait`, `waitRet`, the locals of the syscall;
  - `readyQ` (TASK_QUEUE), `running[c]` per hart;
  - `syscalls`, a bound;
  - `halted` (shutdown).
- **Actions.** There is one action for each stretch of code between two lock
  operations or yields, named after the code:
  - `CloneLock`, then `CloneBody`. `CloneLock` panics when the flags carry a
    bit that is not a `CloneFlags` bit (`UnknownCloneBits`: bit 6, or 25 and
    up, once the exit-signal bits are masked), after the pid is allocated;
  - `ExitLock`, `ExitMark`, `ExitLockParent`, `ExitZombie`, `ExitDone`;
  - `WaitLock`, `WaitCheck`, `WaitForceUnlock`, then
    `WaitPollNoHang | WaitYield | WaitPollFound`, then `WaitRelock`,
    `WaitStatus`, `WaitReap`, or `WaitPid` for a specific pid;
  - `ExecLock`, then `ExecLoad | ExecFail`. `ExecFail` goes on to the exit
    path still holding the lock, as the code does;
  - `Getppid`, one step that needs the caller's own lock free. Its
    `unwrap()` of the parent panics for init.
- **Stopping.** `halted` is "no", "shutdown" (init's exit) or "panic"
  (getppid of init, an unknown clone flag). Nothing moves after either. Only a shutdown is the
  abstract lifecycle's `down`.
- **Locks.** A spin-wait is a disabled `Acquire`. `force_unlock` and each
  guard drop are separate `Release`s. The double unlock therefore appears as
  it happens in the code.
- **Scheduling.** `Dispatch(c)` pops `TASK_QUEUE`.

**`ProcessLifecycle.tla`** is the abstract promise of the process tree:

- a pid is spawned alive by an alive parent;
- it exits to a zombie (init excepted);
- it is reaped once, by its parent;
- init's exit shuts everything down.

`ProcessTree` maps to it by `LifeOf`: a pid is none while EMPTY, else
zombie or alive by which of its parent's maps holds it, else reaped. It is
checked against it as the property `LifecycleRefinement`.

**`FdTable.tla`** holds one descriptor table, the dentry cache, the inodes
and their data buffers, and a cwd for each of the `Tasks` that share the
table. clone gives the child the parent's `fd_manager` Arc (process.rs 122),
so a process and its clones use one table, each with its own cwd ("/" from
`PCB::new`). Every syscall is made by some task `t`, on any hart, because
nothing serialises two harts' syscalls.

- **Actions:**
  - `OpenCached` is `sys_openat`'s cache-hit branch, taken in one step.
    The miss branch takes two steps, `OpenMiss` then `OpenCreate`, because
    `global_dentry_cache.get` (fs.rs 89) and `.insert` (fs.rs 145) each take
    the cache lock and nothing is held between them. `opening[t]` keeps the
    path and flags of an openat between its two steps. That task makes no
    other call meanwhile; the other tasks may. The bounds on inodes and
    descriptors are checked at the miss, for all pending openats together,
    so a pending insert always completes;
  - `Close`, `Dup`, `Dup3`, `Pipe2`, `Mount`, `Write`, `Read`, `Unlinkat`,
    `Chdir` are one action each. `Mount` binds `/text.txt` to a new inode
    holding `MountText`, a one-byte stand-in for `testbin/text.txt`;
  - `Getcwd`, `Fstat`, `Mkdirat` and `Getdents64` keep only their results
    and panics, since they write only user memory. `Mkdirat` changes
    nothing, because the inodes it builds are never linked. `Getdents64`
    panics on an fd out of range (no bounds check). Inside an `unsafe`
    block it computes a shadowing `len - size_of::<Dirent>()`, which
    underflows for a short buffer: a debug build panics and a release build
    wraps, so both outcomes are modelled. That block writes "." and NUL 2
    bytes past the caller's buffer, for every `len`. This write goes to user
    memory, which the model does not hold. The shadow ends with the block,
    so the fit test uses the caller's `len`;
  - `FdInsert`, `FdClose`, `DentryHit` (`GlobalDentryCache::get`),
    `DentryInsert`, `DentryUnlink` and `StdInodes` (`OpenFile::new_stdin`
    and its siblings) model the methods they call.
- **OpenFile.** An OpenFile is represented by its inode. Its offset is always
  0, because no syscall advances it, so only the inode pointer distinguishes
  OpenFiles.
- **Paths.** A path is its sequence of components. This keeps the string
  concatenation of `sys_chdir` (`"/" + "/d" + "/"` gives `"//d/"`, i.e.
  `<<"", "d">>`).
- **Pipe read.** This follows `buffers[i][0]`:
  - `Read` translates the user buffer into 1 or 2 page slices, chosen
    nondeterministically, and records the read in `reading[t]`;
  - `PipeReadByte` is one pass of the byte loop (fs.rs 324-341). It locks
    the inode and takes byte i, or 0 after the yield when it is missing.
    Storing the byte past the last slice sets `panicked`. Each pass is a
    step of its own, so other tasks' writes interleave with the passes;
  - `PipeReadDone` returns len.
- **Ghost `last`.** It records the last call's arguments and result for the
  action properties. No action reads it, so `MCFdTable` uses a VIEW without
  it.
- **Ghost `taken`.** It counts, per buffer, the bytes pipe reads have handed
  out, capped at `MaxData`. Only `PipeReadIsFifo` reads it. The pipe-read run
  keeps it in its view (`FifoView`); the other runs leave it out.

**`Fat32Entry.tla`** holds one 32-byte directory entry on disk (`disk`, bytes
as integers 0..255) and a ghost `last` of what was written there.

- **Encoding operators** translate the code. They cover `ShortDirectoryItem`
  new/from_buf/bytes/full_name_bytes, `LongDirectoryItem`
  new/write_unicode/from_buf/to_utf8/bytes, and `DirectoryItem`
  from_buf/bytes/new_sfn/new_lfn/set_file_length/sfn_equal/lfn_equal.
  A name is its sequence of code points.
- **Reference definitions.** `Utf8Of`, `Utf16Of` and `Utf8Valid` (RFC 3629)
  are written independently of the code, and the properties compare against
  them. The code's `str::from_utf8` is `Utf8Valid`, and Rust's UTF-16
  encoding is `Utf16Of`.
- **Actions.** Each action is one caller-visible operation that writes the
  entry: `CreateShort`, `CreateDot` (the `.`/`..` entries through
  new_sfn_bytes), `CreateLong`, `UpdateLength` and `Delete`. Each writes
  `bytes()` to the disk.
- **Numbers.** SANY does not read `\h` literals, so offsets and masks are
  written in decimal, with the hex equivalents in the module header. TLC's
  integers are 32-bit signed, so file lengths stop at 2^31-1. The `as u32`
  truncation of set_file_length is therefore left to `LeBytes` and is not
  reached.

**`MCProcessTree.tla` / `MCFdTable.tla` / `MCFat32Entry.tla`** give the
model values:

- `MCExitCodes == {0, -1}`, because a cfg cannot hold negatives;
- symmetry over the harts;
- the views;
- the FAT32 names as code-point sequences, and the clusters and lengths.

## Runs

### Passing runs

Each passing run has a mutant of the code, listed in `PROJECT.json`, that
breaks each of its properties.

| Run | Checks | What it shows |
|---|---|---|
| `pt_1hart` | `TypeOK`, `ChildMapsConsistent`, `NoLockHeldOffHart`, `WaitpidContract`, `WaitEventuallyReturns` | On one hart, clone/exit/waitpid keep the child maps of every parent consistent with each child's state and parent. No task holds a lock while off its hart. waitpid's -1 / 0 / pid results and `exit_code << 8` status match the spec. A waiting parent always returns, unless the machine stops first. |
| `pt_2harts` | `ChildMapsConsistent`, `NoLockHeldOffHart`, `NoDeadlock`, `WaitpidContract`, `LifecycleRefinement` | The same safety holds with two harts interleaving steps and exec able to fail. The lock-level protocol implements `ProcessLifecycle`. Some step is always enabled except after shutdown or a failed exec: exit takes the parent's lock and then the zombie move, and waitpid's lock order never closes a cycle. |
| `fd_main` | `TypeOK`, `OpenReturnsDescriptorOfPath`, `Dup3Contract` | With one task, every descriptor points to an existing inode. openat returns the slot holding the path's inode (dedup overwrite or append). dup3 pads with closed slots and overwrites `new_fd`. |
| `fat_main` | `TypeOK`, `EntryRoundTrip` | Every entry the code writes reads back through `DirectoryItem::from_buf` as what was written. A short entry keeps its name (up to case), type, cluster halves and length. A deleted short entry is typed Deleted and matches no name. A long entry keeps its attribute and check sum. The bounds include "." and "..", an 8.3 name with a lowercase extension, and a cluster above 65535. |

### Violation runs

Each violation run records something the code does against the spec. The
findings are in `PROJECT.json`.

| Run | Property | What TLC shows |
|---|---|---|
| `pt_mutex` | `MutualExclusion` | waitpid(-1)'s `force_unlock` plus its guard drop (process.rs 259/279) releases the parent lock while an exiting child holds it (line 93). The parent then locks it too. |
| `pt_exec_fail` | `NoSelfDeadlock` | A failed exec calls `sys_exit` holding its own PCB lock (lines 170, 214 → 86). |
| `fd_dup` | `DupReturnsDuplicate` | dup returns a closed slot's index but pushes the copy at the end (fs.rs 489). |
| `fd_pipe_read` | `PipeReadIsFifo` | Pipe reads are not a FIFO. The shortest trace is a read of an empty pipe, which returns a 0 byte after one yield (fs.rs 338). The same property also rejects a second read that returns the first bytes again (fs.rs 330). |
| `fd_panic` | `NoKernelPanic` | A 2-byte pipe read within one page panics at `buffers[1][0]` (fs.rs 342). This is the spec's own pipe scenario. |
| `fd_unlink` | `UnlinkResolvesLikeOpen` | After chdir, a relative unlink removes `/name`, not the file openat made under the cwd (fs.rs 719). |
| `fd_open_race` | `DentryStable` | Two tasks open the new file `a` at once. Both miss in the dentry cache, both create an inode, and the second insert (fs.rs 145) rebinds `/a` away from the inode the first task's descriptor holds. The spec (section 5) requires the cache to tolerate concurrent access from more than one core. |
| `fat_lfn` | `LongNameRoundTrip` | A long name containing U+00FF ("naïveÿ") reads back as "naïve". `to_utf8` stops at a UTF-16 unit whose low byte is 0xFF, taking it for padding (directory_item.rs 251). |

### Shown by the model but given no run

Five further disagreements show in one or two steps and are not given a
run:

- **waitpid(pid) reaps and returns 0** (process.rs 293). The spec says it
  returns the pid. `WaitpidReturnsReapedPid` in `ProcessTree` states it. An
  earlier run found it violated at once, and that run was retired to make
  room for `fd_open_race`, which needs the model checker.
- **`close` of an open fd does nothing** (task/mod.rs 144). The spec says it
  resets the slot to closed.
- **openat's XOR test makes every descriptor readable and writable**
  (fs.rs 103). O_RDONLY and O_WRONLY are included.
- **After `dup3(f, 1)`, writes to fd 1 still go to the console** (fs.rs 191),
  because `sys_write` tests `fd == FD_STDOUT` before it looks at the table.
- **getdents64 with a bad fd panics the kernel** (fs.rs 386), instead of
  returning an error.

All five are modelled as the code does them, and all five are listed as
hazards.

## Bounds and why they suffice

**ProcessTree**

- `MaxPid` is 3: init, a child and a grandchild, or two children. This gives
  exits racing a waiting parent, a zombie with a live sibling, and a zombie
  child of an exited parent.
- `MaxSyscalls` is 2–3 per task. This is enough for clone-then-wait,
  wait-twice and clone-exit sequences.
- Two harts are enough for a lock to be held on one hart while another
  spins.
- `Options {0,1}` covers blocking and WNOHANG.
- Exit codes `{0,-1}` cover a normal exit and exec's `exit(-1)`.
- Clone flags are 17 (SIGCHLD, the fork of the test programs) and, in the
  passing runs, 17 plus CLONE_NEWCGROUP (1 << 25), which `from_bits`
  rejects.

The violation runs use the smallest bounds that reach their trace.

**FdTable**

- `MaxFds` is 5. Three std descriptors leave room for a pipe pair, or for a
  dup3 to fd 4 that pads fd 3.
- `MaxInodes` is 5, and `MaxData` is 2 bytes.
- Names are `{"text.txt","null"}`. The "null" reopen branch is reached, and
  openat meets `/text.txt` both before and after a mount. A mount after
  openat, or a second mount, rebinds the path (a hazard with no property,
  since the spec says nothing of mount; `DentryStable`, checked by
  `fd_open_race`, exempts mount).
- The cwd depth is 1, so `chdir` happens.
- Read lengths are `{1,2}`, so both pipe-read outcomes happen.
- Open modes collapse to one value, because the XOR makes every mode read and
  write.
- `DirentSize` is 2, a stand-in for `size_of::<Dirent>()`, which is not in
  this tree. getdents64 lengths `{1, 3, 4}` give the three cases: an
  underflow, a buffer too short for "." (returns 0), and one entry. `fd_panic` passes no getdents64 length, so its trace stays the
  pipe read. getcwd's size 3 fits "/" but not "/d/".

`fd_dup` uses 6 slots, so dup can run after dup3 has padded.

The other FdTable runs use one task. `fd_open_race` uses two
tasks, which is the least a race needs, and one name, `a`. A second name is
not needed, and `text.txt` would let the first trace be sys_mount rebinding
the path between a miss and its insert, which is the same race.

**Fat32Entry**

- Short names: "a", "Ab.c", "abcdefgh.TXT" and "x.MD", plus "." and "..".
  These cover the 8.3 limits, case folding and the dot entries.
- Long names: "ab", "hé中" (1-, 2- and 3-byte UTF-8), a full 13-unit name,
  and "naïveÿ" (a unit with low byte 0xFF).
- Clusters: 2, and 180097588, whose high half is non-zero.
- Lengths: 0, 1 and 2^31-1, the largest TLC integer.
- Ordinals 0x41 (the last part) and 1, and one check sum. A name crossing
  13 units is not written, since `new_lfn` writes a single part.

## Fairness

`pt_1hart` checks liveness under:

- weak fairness of each hart's `Dispatch`, because the run loop keeps popping
  `TASK_QUEUE`;
- weak fairness of each on-hart task's next step, because a polled future
  runs until it yields or finishes.

No strong fairness is assumed. A spin-lock waiter that is repeatedly
disabled gets no fairness: `spin::Mutex` is not fair.

`pt_2harts` cannot use TLC's deadlock check, because a failed exec hangs the
hart for good (`pt_exec_fail`). It checks `NoDeadlock` instead: the next-state
relation is enabled in every state except after shutdown or that known
hang. `pt_1hart` checks deadlock itself. After a kernel panic, FdTable stutters (`Halted`).

## Not modelled

- **Address spaces, trap frames, kernel stacks, ELF loading and what
  the known clone flags select.** Their effects are abstracted to "exec succeeds or fails" and
  "stacks keyed by pid". See the hazards on clone's `from_bits().unwrap()`
  and the stack arithmetic.
- **What getdents64, fstat and getcwd write to user memory.** Only their
  results are modelled.
- **Unlocked updates of the shared fd table.** `sys_openat` and the other
  syscalls reach `fd_manager.fd_array` with no lock, so two harts can push
  into one Vec at once. That is a data race inside `Vec::push`, and its
  outcomes are not those of any interleaving of whole pushes. FdTable makes
  each syscall's table update one step.
- **`sys_yield` itself.** It is not in this tree. A pass of the pipe read
  that finds no byte is modelled as the spec describes it, a suspension
  point, so other tasks may step before the next pass.
- **The rest of the FAT32 crate** (clusters, FAT chains, directory walks).
  Only the entry encoding is modelled.
- **Multi-part long names.** `new_lfn` writes one part, and the code that
  would chain parts is not in this snapshot.
- **INode implementations.** They are not in `src/`.

## Plan for the next sittings

1. **The "null" name reopen** as a violation run.
2. **File offsets** (fs.rs 366): a cursor ghost per OpenFile to state that
   reads advance it.
3. **Reparenting of orphans**, and a kernel-panic property for ProcessTree
   if a run becomes free.
