------------------------------- MODULE FdTable -------------------------------
(***************************************************************************)
(* The file-descriptor layer of one process (FdManager, FileDescriptor,    *)
(* OpenFile in src/os/kernel/src/task/mod.rs), the file syscalls of        *)
(* src/os/kernel/src/syscall/fs.rs that change it, the global dentry cache *)
(* and the pipe buffers.  Every syscall is synchronous and runs as one     *)
(* step.                                                                   *)
(*                                                                         *)
(* fd numbers are the code's 0-based indices: descriptor fd is             *)
(* fdArray[fd+1].  An OpenFile is represented by the inode it points to:   *)
(* its offset is 0 when it is made and no syscall changes it, so only the  *)
(* inode pointer (compared with Arc::ptr_eq by openat) tells OpenFiles     *)
(* apart.  A path string is the sequence of its components: "/a" is <<a>>, *)
(* "/d/a" is <<d, a>>, the cwd "/d/" is <<d>> and "//d/" is <<"", d>>.     *)
(***************************************************************************)
EXTENDS Integers, Sequences, SequencesExt, Bitwise, TLC

CONSTANTS
    Names,       \* file names user programs pass to openat / unlinkat
    Dirs,        \* directory names passed to chdir
    Bytes,       \* the byte values written (none of them is 0)
    OpenModes,   \* the flags values passed to openat
    RDONLY, WRONLY, RDWR,  \* OpenFlags access-mode bits
    WriteLens,   \* lengths of the buffers passed to write
    ReadLens,    \* lengths passed to read
    Dup3Targets, \* new_fd values passed to dup3
    MaxFds,      \* bound on the length of fd_array
    MaxInodes,   \* bound on the inodes created
    MaxData,     \* bound on the bytes held by one file or pipe
    MaxDepth,    \* bound on the components of the cwd
    MountText,   \* the bytes of testbin/text.txt that sys_mount loads
    CwdSizes,    \* buffer sizes passed to getcwd
    DirentLens,  \* buffer lengths passed to getdents64
    DirentSize,  \* size_of::<Dirent>()
    Tasks        \* the tasks sharing this fd table (clone shares fd_manager)

NullIno == 0        \* the fresh RegFileINode "null" of OpenFile::new()
NulByte == 0        \* the byte a pipe read stores when the pipe is empty
MountName == "text.txt"  \* the file name sys_mount binds at "/text.txt"

ASSUME /\ 0 \notin Bytes
       /\ {RDONLY, WRONLY, RDWR} \cup OpenModes \subseteq Nat
       /\ MaxFds >= 3 /\ MaxInodes >= 3
       /\ Dup3Targets \subseteq 0..(MaxFds - 1)
       /\ MountText \in Seq(Bytes) /\ Len(MountText) <= MaxData

VARIABLES
    fdArray,   \* FdManager.fd_array: [ino, readable, writable] per slot
    inodes,    \* every inode made: its kind, file name and data buffer
    bufs,      \* the byte vectors: file data and pipe buffers
    dentry,    \* global_dentry_cache: path -> inode
    cwd,       \* PCB.cwd of each task
    opening,   \* an openat between its dentry-cache miss and its insert
    reading,   \* a pipe read inside its byte loop
    last,      \* the last syscall, its arguments, result and bytes read
    panicked,  \* the kernel has panicked
    taken      \* ghost: bytes pipe reads have returned from each buffer

vars == <<fdArray, inodes, bufs, dentry, cwd, opening, reading, last,
          panicked, taken>>

Ops == {"none", "lookup", "pipe_byte", "openat", "close", "dup", "dup3", "pipe2", "write", "read",
        "unlinkat", "chdir", "mount", "getcwd", "fstat", "mkdirat",
        "getdents64"}
Kinds == {"term", "reg", "pipe"}
PathArgs == [abs : BOOLEAN, name : Names]
NoPath == [abs |-> FALSE, name |-> "none"]
Desc(i, r, w) == [ino |-> i, readable |-> r, writable |-> w]
Closed == Desc(NullIno, FALSE, FALSE)
Path == Seq(Names \cup Dirs \cup {"", MountName})
NoOpen == [path |-> <<>>, p |-> NoPath, flags |-> -1]
NoRead == [fd |-> -1, n |-> 0, pages |-> 0, buf |-> 0, out |-> <<>>]

TypeOK ==
    /\ fdArray \in Seq([ino : 0..MaxInodes, readable : BOOLEAN,
                        writable : BOOLEAN])
    /\ inodes \in Seq([kind : Kinds, name : Names \cup {"tty", MountName},
                       buf : 1..MaxInodes])
    /\ bufs \in Seq(Seq(Bytes))
    /\ \A k \in DOMAIN fdArray : fdArray[k].ino \in 0..Len(inodes)
    /\ DOMAIN dentry \subseteq Path
    /\ \A path \in DOMAIN dentry : dentry[path] \in 1..Len(inodes)
    /\ cwd \in [Tasks -> Seq(Dirs \cup {""})]
    /\ opening \in [Tasks -> {NoOpen} \cup
                              [path : Path, p : PathArgs, flags : OpenModes]]
    /\ reading \in [Tasks -> {NoRead} \cup
                  [fd : Nat, n : ReadLens, pages : 1..2, buf : 1..MaxInodes,
                   out : Seq(Bytes \cup {NulByte})]]
    /\ last \in [task : Tasks, op : Ops, fd : Int, arg : Int, path : PathArgs \cup {NoPath},
                 ret : Int, out : Seq(Bytes \cup {NulByte})]
    /\ panicked \in BOOLEAN
    /\ taken \in [1..MaxInodes -> 0..MaxData]

(* OpenFile::new_stdin, new_stdout and new_stderr: a TerminalINode each,  *)
(* with its own (empty) buffer.                                            *)
StdInodes == [i \in 1..3 |-> [kind |-> "term", name |-> "tty", buf |-> i]]

(* FdManager::new: stdin (readable), stdout and stderr (writable), each on *)
(* its own TerminalINode; PCB::new sets the cwd to "/". The first last   *)
(* names some task: no property reads it before a syscall.                *)
Init ==
    /\ fdArray = <<Desc(1, TRUE, FALSE), Desc(2, FALSE, TRUE),
                   Desc(3, FALSE, TRUE)>>
    /\ inodes = StdInodes
    /\ bufs = <<<<>>, <<>>, <<>>>>
    /\ dentry = <<>>
    /\ cwd = [t \in Tasks |-> <<>>]
    /\ opening = [t \in Tasks |-> NoOpen]
    /\ reading = [t \in Tasks |-> NoRead]
    /\ last = [task |-> CHOOSE t \in Tasks : TRUE, op |-> "none", fd |-> 0,
               arg |-> 0, path |-> NoPath, ret |-> 0, out |-> <<>>]
    /\ panicked = FALSE
    /\ taken = [b \in 1..MaxInodes |-> 0]

-----------------------------------------------------------------------------
Slot(fd) == fdArray[fd + 1]
IsOpen(d) == d.readable \/ d.writable
Data(i) == IF i = NullIno THEN <<>> ELSE bufs[inodes[i].buf]
IsPipe(i) == i # NullIno /\ inodes[i].kind = "pipe"

(* openat's access bits: ((flags ^ A) | (flags ^ RDWR)) != 0.             *)
Readable(flags) == ((flags ^^ RDONLY) | (flags ^^ RDWR)) # 0
Writable(flags) == ((flags ^^ WRONLY) | (flags ^^ RDWR)) # 0

(* sys_openat's path: "/" + rel for an absolute path, cwd + rel else.     *)
OpenPath(t, p) == IF p.abs THEN <<p.name>> ELSE cwd[t] \o <<p.name>>
(* sys_unlinkat's path: start_dir_path is replaced by "/" for every path  *)
(* but "./text.txt", so it is "/" + rel.                                  *)
UnlinkPath(p) == <<p.name>>

(* FdManager::insert: push a descriptor; its fd is the old length.       *)
FdInsert(d) == Append(fdArray, d)

(* FdManager::close: return at once on a readable or writable slot, else  *)
(* give it a fresh "null" OpenFile.                                       *)
FdClose(fd) ==
    IF IsOpen(Slot(fd)) THEN fdArray ELSE [fdArray EXCEPT ![fd + 1].ino = NullIno]

(* GlobalDentryCache::get: is the path mapped (then dentry[path] is the   *)
(* inode it returns)?                                                      *)
DentryHit(path) == path \in DOMAIN dentry

(* GlobalDentryCache::insert: the path now maps to the inode.            *)
DentryInsert(path, i) == (path :> i) @@ dentry

(* GlobalDentryCache::unlink: the mapping of the path is removed.        *)
DentryUnlink(path) == Restrict(dentry, DOMAIN dentry \ {path})

(* The call's arguments, as far as the properties need them, and result. *)
Call(t, op, fd, arg, p, r, out) ==
    last' = [task |-> t, op |-> op, fd |-> fd, arg |-> arg, path |-> p,
             ret |-> r, out |-> out]
Done(t, op, fd, r) == Call(t, op, fd, 0, NoPath, r, <<>>)

-----------------------------------------------------------------------------
(* Mutant: the 1-based position of the scan is returned as the fd.      *)
OpenCachedWrongSlot(t, p, flags) ==
    LET path == OpenPath(t, p)
        i == dentry[path]
        d == Desc(i, Readable(flags), Writable(flags))
        j == SelectInSeq(fdArray, LAMBDA e : e.ino = i)
    IN /\ DentryHit(path)
       /\ IF inodes[i].name = "null"
            THEN /\ Call(t, "openat", 0, flags, p, -1, <<>>)
                 /\ UNCHANGED fdArray
            ELSE IF j # 0
              THEN /\ fdArray' = [fdArray EXCEPT ![j] = d]
                   /\ Call(t, "openat", 0, flags, p, j, <<>>)
              ELSE /\ Len(fdArray) < MaxFds
                   /\ fdArray' = FdInsert(d)
                   /\ Call(t, "openat", 0, flags, p, Len(fdArray), <<>>)
       /\ UNCHANGED <<inodes, bufs, dentry, cwd>>

(* sys_openat of a path in the dentry cache: -1 for an inode named        *)
(* "null"; else overwrite the first slot whose OpenFile points to the     *)
(* same inode, or append a new descriptor.                                *)
OpenCached(t, p, flags) ==
    LET path == OpenPath(t, p)
        i == dentry[path]
        d == Desc(i, Readable(flags), Writable(flags))
        j == SelectInSeq(fdArray, LAMBDA e : e.ino = i)
    IN /\ DentryHit(path)
       /\ IF inodes[i].name = "null"
            THEN /\ Call(t, "openat", 0, flags, p, -1, <<>>)
                 /\ UNCHANGED fdArray
            ELSE IF j # 0
              THEN /\ fdArray' = [fdArray EXCEPT ![j] = d]
                   /\ Call(t, "openat", 0, flags, p, j - 1, <<>>)
              ELSE /\ Len(fdArray) < MaxFds
                   /\ fdArray' = FdInsert(d)
                   /\ Call(t, "openat", 0, flags, p, Len(fdArray), <<>>)
       /\ UNCHANGED <<inodes, bufs, dentry, cwd>>

(* Openats between their cache miss and their insert; bounds are checked *)
(* at the miss for all of them, so every pending insert can complete.     *)
Pending == {u \in Tasks : opening[u] # NoOpen}

(* sys_openat, first step: global_dentry_cache.get(&abs_path) takes the   *)
(* cache lock, finds no inode and releases it.                            *)
OpenMiss(t, p, flags) ==
    /\ ~DentryHit(OpenPath(t, p))
    /\ Len(inodes) + Cardinality(Pending) < MaxInodes
    /\ Len(fdArray) + Cardinality(Pending) < MaxFds
    /\ opening' = [opening EXCEPT ![t] =
                      [path |-> OpenPath(t, p), p |-> p, flags |-> flags]]
    /\ Call(t, "lookup", 0, flags, p, 0, <<>>)
    /\ UNCHANGED <<fdArray, inodes, bufs, dentry, cwd>>

(* sys_openat, second step, with no lock held since the miss: a new       *)
(* RegFileINode named rel_path is inserted into the dentry cache whatever *)
(* the path maps to by now (and a copy of its OpenFile into the global    *)
(* open-file table), and fd = len() is appended.                          *)
OpenCreate(t) ==
    LET o == opening[t]
        i == Len(inodes) + 1
    IN /\ o # NoOpen
       /\ inodes' = Append(inodes, [kind |-> "reg", name |-> o.p.name,
                                    buf |-> Len(bufs) + 1])
       /\ bufs' = Append(bufs, <<>>)
       /\ dentry' = DentryInsert(o.path, i)
       /\ fdArray' = FdInsert(Desc(i, Readable(o.flags), Writable(o.flags)))
       /\ opening' = [opening EXCEPT ![t] = NoOpen]
       /\ Call(t, "openat", 0, o.flags, o.p, Len(fdArray), <<>>)
       /\ UNCHANGED cwd

(* sys_close: -1 out of range, else FdManager::close.                     *)
Close(t, fd) ==
    /\ IF fd >= Len(fdArray)
         THEN /\ Done(t, "close", fd, -1)
              /\ UNCHANGED fdArray
         ELSE /\ fdArray' = FdClose(fd)
              /\ Done(t, "close", fd, 0)
    /\ UNCHANGED <<inodes, bufs, dentry, cwd>>

(* sys_dup: -1 if out of range or closed; new_fd is the first closed slot *)
(* or the length, and the copy is pushed at the end of fd_array.          *)
Dup(t, fd) ==
    LET free == SelectInSeq(fdArray, LAMBDA e : ~IsOpen(e))
    IN /\ IF fd >= Len(fdArray) \/ ~IsOpen(Slot(fd))
            THEN /\ Done(t, "dup", fd, -1)
                 /\ UNCHANGED fdArray
            ELSE /\ Len(fdArray) < MaxFds
                 /\ fdArray' = FdInsert(Slot(fd))
                 /\ Done(t, "dup", fd, IF free # 0 THEN free - 1 ELSE Len(fdArray))
       /\ UNCHANGED <<inodes, bufs, dentry, cwd>>

(* Mutant: the padding loop stops one slot short of new_fd.              *)
Dup3ShortPad(t, fd, newFd) ==
    /\ IF fd >= Len(fdArray) \/ ~IsOpen(Slot(fd))
         THEN /\ Call(t, "dup3", fd, newFd, NoPath, -1, <<>>)
              /\ UNCHANGED fdArray
         ELSE LET padded == IF newFd >= Len(fdArray)
                              THEN fdArray \o [k \in 1..(newFd - Len(fdArray))
                                                 |-> Closed]
                              ELSE fdArray
              IN /\ fdArray' = [padded EXCEPT ![newFd + 1] = Slot(fd)]
                 /\ Call(t, "dup3", fd, newFd, NoPath, newFd, <<>>)
    /\ UNCHANGED <<inodes, bufs, dentry, cwd>>

(* sys_dup3: -1 if out of range or closed; pad with closed placeholders   *)
(* for len..new_fd+1, then overwrite slot new_fd.                         *)
Dup3(t, fd, newFd) ==
    /\ IF fd >= Len(fdArray) \/ ~IsOpen(Slot(fd))
         THEN /\ Call(t, "dup3", fd, newFd, NoPath, -1, <<>>)
              /\ UNCHANGED fdArray
         ELSE LET padded == IF newFd >= Len(fdArray)
                              THEN fdArray \o [k \in 1..(newFd + 1 - Len(fdArray))
                                                 |-> Closed]
                              ELSE fdArray
              IN /\ fdArray' = [padded EXCEPT ![newFd + 1] = Slot(fd)]
                 /\ Call(t, "dup3", fd, newFd, NoPath, newFd, <<>>)
    /\ UNCHANGED <<inodes, bufs, dentry, cwd>>

(* Mutant: the read-end inode index skips one.                          *)
Pipe2SkipSlot(t) ==
    LET b == Len(bufs) + 1
        r == Len(inodes) + 2
    IN /\ Len(inodes) + 2 <= MaxInodes /\ Len(fdArray) + 2 <= MaxFds
       /\ inodes' = inodes \o <<[kind |-> "pipe", name |-> "tty", buf |-> b],
                                [kind |-> "pipe", name |-> "tty", buf |-> b]>>
       /\ bufs' = Append(bufs, <<>>)
       /\ fdArray' = fdArray \o <<Desc(r, TRUE, FALSE), Desc(r + 1, FALSE, TRUE)>>
       /\ Done(t, "pipe2", 0, 0)
       /\ UNCHANGED <<dentry, cwd>>

(* sys_pipe2: two new descriptor slots, read end then write end, whose    *)
(* OpenFiles point to two PipeINodes sharing one new buffer, which is    *)
(* also registered in global_buffer_list.                                 *)
Pipe2(t) ==
    LET b == Len(bufs) + 1
        r == Len(inodes) + 1
    IN /\ Len(inodes) + 2 <= MaxInodes /\ Len(fdArray) + 2 <= MaxFds
       /\ inodes' = inodes \o <<[kind |-> "pipe", name |-> "tty", buf |-> b],
                                [kind |-> "pipe", name |-> "tty", buf |-> b]>>
       /\ bufs' = Append(bufs, <<>>)
       /\ fdArray' = fdArray \o <<Desc(r, TRUE, FALSE), Desc(r + 1, FALSE, TRUE)>>
       /\ Done(t, "pipe2", 0, 0)
       /\ UNCHANGED <<dentry, cwd>>

(* sys_mount: a new RegFileINode "text.txt" holding the bytes of          *)
(* testbin/text.txt is bound at "/text.txt", replacing whatever inode the *)
(* dentry cache held there.                                               *)
Mount(t) ==
    LET i == Len(inodes) + 1
    IN /\ i <= MaxInodes
       /\ inodes' = Append(inodes, [kind |-> "reg", name |-> MountName,
                                    buf |-> Len(bufs) + 1])
       /\ bufs' = Append(bufs, MountText)
       /\ dentry' = DentryInsert(<<MountName>>, i)
       /\ Done(t, "mount", 0, 0)
       /\ UNCHANGED <<fdArray, cwd>>

-----------------------------------------------------------------------------
(* sys_write: fd 1 (FD_STDOUT) always goes to the console; otherwise -1   *)
(* when out of range or not writable, else the bytes are pushed onto the  *)
(* inode's data (write_to_pipe onto the shared buffer for a pipe).        *)
Write(t, fd, s) ==
    /\ IF fd = 1
         THEN /\ Call(t, "write", fd, Len(s), NoPath, Len(s), <<>>)
              /\ UNCHANGED bufs
         ELSE IF fd >= Len(fdArray) \/ ~Slot(fd).writable
           THEN /\ Call(t, "write", fd, Len(s), NoPath, -1, <<>>)
                /\ UNCHANGED bufs
           ELSE LET b == inodes[Slot(fd).ino].buf IN
                /\ Len(bufs[b]) + Len(s) <= MaxData
                /\ bufs' = [bufs EXCEPT ![b] = @ \o s]
                /\ Call(t, "write", fd, Len(s), NoPath, Len(s), <<>>)
    /\ UNCHANGED <<fdArray, inodes, dentry, cwd, panicked>>

(* sys_read: 0 for fd 0 (FD_STDIN stores one console character) or an fd *)
(* out of range; a file read copies min(len, size) bytes from offset 0 (the   *)
(* offset is never advanced). A pipe read translates the user buffer into *)
(* 1 or 2 page slices and enters its byte loop (PipeReadByte).            *)
Read(t, fd, n) ==
    /\ IF fd = 0 \/ fd >= Len(fdArray)
         THEN /\ Call(t, "read", fd, n, NoPath, 0, <<>>)
              /\ UNCHANGED reading
         ELSE LET data == Data(Slot(fd).ino) IN
              IF IsPipe(Slot(fd).ino)
                THEN \E pages \in 1..(IF n < 2 THEN n ELSE 2) :
                       /\ reading' = [reading EXCEPT ![t] =
                             [fd |-> fd, n |-> n, pages |-> pages,
                              buf |-> inodes[Slot(fd).ino].buf, out |-> <<>>]]
                       /\ Call(t, "pipe_byte", fd, n, NoPath, 0, <<>>)
                ELSE LET k == IF n < Len(data) THEN n ELSE Len(data) IN
                     /\ Call(t, "read", fd, n, NoPath, k, SubSeq(data, 1, k))
                     /\ UNCHANGED reading
    /\ UNCHANGED <<fdArray, inodes, bufs, dentry, cwd>>

(* One pass of the pipe read's loop: lock the inode, take byte i of its   *)
(* data, or yield and take 0 if there is none, and store it at           *)
(* buffers[i][0], which panics when i is past the last page slice.       *)
(* Every pass locks the inode anew, so other tasks run between passes.   *)
PipeReadByte(t) ==
    LET r == reading[t]
        i == Len(r.out)
        data == bufs[r.buf]
    IN /\ r # NoRead /\ i < r.n
       /\ panicked' = (i >= r.pages)
       /\ reading' = [reading EXCEPT ![t].out =
                         Append(@, IF i + 1 <= Len(data) THEN data[i + 1]
                                   ELSE NulByte)]
       /\ Call(t, "pipe_byte", r.fd, r.n, NoPath, 0, <<>>)
       /\ UNCHANGED <<fdArray, inodes, bufs, dentry, cwd>>

(* The loop is done: the pipe read returns len. The ghost taken counts    *)
(* the bytes reads hand out, capped at MaxData (a read past it already    *)
(* returned bytes nobody wrote).                                          *)
PipeReadDone(t) ==
    LET r == reading[t] IN
    /\ r # NoRead /\ Len(r.out) = r.n
    /\ taken' = [taken EXCEPT ![r.buf] =
                    IF @ + r.n < MaxData THEN @ + r.n ELSE MaxData]
    /\ reading' = [reading EXCEPT ![t] = NoRead]
    /\ Call(t, "read", r.fd, r.n, NoPath, r.n, r.out)
    /\ UNCHANGED <<fdArray, inodes, bufs, dentry, cwd>>

(* sys_unlinkat: -1 if the fd is out of range, else the mapping of the    *)
(* path is removed from the dentry cache; open handles keep the inode.    *)
Unlinkat(t, fd, p) ==
    /\ IF fd >= Len(fdArray)
         THEN /\ Call(t, "unlinkat", fd, 0, p, -1, <<>>)
              /\ UNCHANGED dentry
         ELSE /\ dentry' = DentryUnlink(UnlinkPath(p))
              /\ Call(t, "unlinkat", fd, 0, p, 0, <<>>)
    /\ UNCHANGED <<fdArray, inodes, bufs, cwd>>

(* sys_chdir: cwd = cwd + path + "/", for a path "d" or "/d".            *)
Chdir(t, abs, d) ==
    /\ Len(cwd[t]) < MaxDepth
    /\ cwd' = [cwd EXCEPT ![t] = @ \o (IF abs THEN <<"", d>> ELSE <<d>>)]
    /\ Done(t, "chdir", 0, 0)
    /\ UNCHANGED <<fdArray, inodes, bufs, dentry>>

(* The length of PCB.cwd as a string: "/" then each component and "/".   *)
CwdLen(t) == FoldLeft(LAMBDA acc, c : acc + Len(c) + 1, 1, cwd[t])

(* sys_getcwd: -1 if the buffer cannot hold the cwd and its NUL, else the *)
(* length copied, NUL included.                                           *)
Getcwd(t, size) ==
    /\ Call(t, "getcwd", 0, size, NoPath,
            IF size < CwdLen(t) + 1 THEN -1 ELSE CwdLen(t) + 1, <<>>)
    /\ UNCHANGED <<fdArray, inodes, bufs, dentry, cwd>>

(* sys_fstat: -1 out of range or not readable, else a default Stat is     *)
(* written to the user buffer and 0 returned.                             *)
Fstat(t, fd) ==
    /\ Done(t, "fstat", fd, IF fd >= Len(fdArray) \/ ~Slot(fd).readable THEN -1
                         ELSE 0)
    /\ UNCHANGED <<fdArray, inodes, bufs, dentry, cwd>>

(* sys_mkdirat: 0 out of range; else it walks the path with find() and    *)
(* builds an inode for each missing component, which it never adds to a   *)
(* directory or the dentry cache, and returns 0.                          *)
Mkdirat(t, fd) ==
    /\ Done(t, "mkdirat", fd, 0)
    /\ UNCHANGED <<fdArray, inodes, bufs, dentry, cwd>>

(* sys_getdents64: fd_array[fd] is indexed with no bounds check, so an fd *)
(* out of range panics. Inside the unsafe block a shadowing len =         *)
(* len - size_of::<Dirent>() underflows for a short buffer: a debug build *)
(* panics, a release build wraps, and either may happen. That block       *)
(* writes "." and NUL at buf + len, past the caller's buffer, which is    *)
(* user memory and not modelled. The shadow ends with the block, so the   *)
(* fit test uses the caller's len. None of the inodes is a directory, so  *)
(* list() fails and the only entry is "."; it is returned when Dirent plus *)
(* its 2 name bytes fit in len, else 0.                                   *)
Getdents64(t, fd, n) ==
    LET entry == DirentSize + 2
    IN /\ IF fd >= Len(fdArray)
            THEN /\ panicked' = TRUE
                 /\ Done(t, "getdents64", fd, 0)
            ELSE /\ \/ n >= DirentSize /\ UNCHANGED panicked
                    \/ n < DirentSize /\ panicked' \in BOOLEAN
                 /\ Call(t, "getdents64", fd, n, NoPath,
                         IF entry <= n THEN entry ELSE 0, <<>>)
       /\ UNCHANGED <<fdArray, inodes, bufs, dentry, cwd>>

-----------------------------------------------------------------------------
Fds == 0..(MaxFds - 1)

(* One syscall.  Only read may change taken; read and getdents64 panic.  *)
(* Every other syscall of an idle task: one atomic step each.            *)
IdleCall(t) ==
    \/ \E p \in PathArgs, f \in OpenModes :
          OpenCached(t, p, f) /\ UNCHANGED <<panicked, taken>>
    \/ \E fd \in Fds : (Close(t, fd) \/ Dup(t, fd)) /\ UNCHANGED <<panicked, taken>>
    \/ \E fd \in Fds, n \in Dup3Targets : Dup3(t, fd, n) /\ UNCHANGED <<panicked, taken>>
    \/ Pipe2(t) /\ UNCHANGED <<panicked, taken>>
    \/ Mount(t) /\ UNCHANGED <<panicked, taken>>
    \/ \E fd \in Fds, len \in WriteLens : \E s \in [1..len -> Bytes] :
          Write(t, fd, s) /\ UNCHANGED taken
    \/ \E fd \in Fds, p \in PathArgs : Unlinkat(t, fd, p) /\ UNCHANGED <<panicked, taken>>
    \/ \E abs \in BOOLEAN, d \in Dirs : Chdir(t, abs, d) /\ UNCHANGED <<panicked, taken>>
    \/ \E size \in CwdSizes : Getcwd(t, size) /\ UNCHANGED <<panicked, taken>>
    \/ \E fd \in Fds : (Fstat(t, fd) \/ Mkdirat(t, fd)) /\ UNCHANGED <<panicked, taken>>
    \/ \E fd \in Fds, n \in DirentLens : Getdents64(t, fd, n) /\ UNCHANGED taken

(* A step of task t: an openat in progress inserts, a pipe read in       *)
(* progress takes a byte or returns; an idle task makes a call.           *)
Syscall(t) ==
    \/ OpenCreate(t) /\ UNCHANGED <<reading, panicked, taken>>
    \/ PipeReadByte(t) /\ UNCHANGED <<opening, taken>>
    \/ PipeReadDone(t) /\ UNCHANGED <<opening, panicked>>
    \/ /\ opening[t] = NoOpen /\ reading[t] = NoRead
       /\ \/ \E p \in PathArgs, f \in OpenModes :
                OpenMiss(t, p, f) /\ UNCHANGED <<reading, panicked, taken>>
          \/ \E fd \in Fds, n \in ReadLens :
                Read(t, fd, n) /\ UNCHANGED <<opening, panicked, taken>>
          \/ IdleCall(t) /\ UNCHANGED <<opening, reading>>

(* After a panic the kernel does nothing more.                            *)
Halted == panicked /\ UNCHANGED vars

Next == (~panicked /\ \E t \in Tasks : Syscall(t)) \/ Halted

Spec == Init /\ [][Next]_vars

-----------------------------------------------------------------------------
(* Properties.  "after" refers to the state a syscall leaves behind.       *)
Returned(op) == last'.op = op /\ last'.ret >= 0 /\ ~panicked
Slot2(fd) == fdArray'[fd + 1]
HasSlot2(fd) == fd + 1 \in DOMAIN fdArray'

(* The dentry cache holds at most one inode per path, and a cached path   *)
(* keeps resolving to the same inode until it is unlinked: openat's cache *)
(* lookup must come before it creates a file.  sys_mount is left out: it  *)
(* binds "/text.txt" to a freshly loaded inode on every call.             *)
DentryStable ==
    [][last'.op # "mount" =>
         \A path \in DOMAIN dentry \cap DOMAIN dentry' :
            dentry'[path] = dentry[path]]_vars

(* A successful openat returns the fd whose slot, after the call, refers  *)
(* to the inode the dentry cache holds for the path it resolved: the      *)
(* de-duplicating scan and the append both return the slot they filled.  *)
OpenReturnsDescriptorOfPath ==
    [][Returned("openat") =>
         /\ HasSlot2(last'.ret)
         /\ Slot2(last'.ret).ino = dentry'[OpenPath(last'.task, last'.path)]]_vars

(* A successful dup3(fd, new_fd) leaves a copy of fd at new_fd, every     *)
(* other slot it had as it was, and every slot it added closed.           *)
Dup3Contract ==
    [][Returned("dup3") =>
         LET n == last'.arg IN
         /\ Len(fdArray') = IF n < Len(fdArray) THEN Len(fdArray) ELSE n + 1
         /\ Slot2(n) = Slot(last'.fd)
         /\ \A k \in DOMAIN fdArray' \ {n + 1} :
               fdArray'[k] = IF k <= Len(fdArray) THEN fdArray[k] ELSE Closed]_vars

(* dup(fd) returns a descriptor that shares fd's OpenFile (spec, dup).    *)
DupReturnsDuplicate ==
    [][Returned("dup") =>
         HasSlot2(last'.ret) /\ Slot2(last'.ret) = Slot(last'.fd)]_vars

(* A pipe is a FIFO: a pipe read that returns hands out the next bytes    *)
(* written to the pipe that no earlier read returned, whichever end fd it *)
(* came through (spec, pipe read: it waits until the byte is present, and *)
(* a read consumes).  sys_read indexes the buffer from 0 on every call and *)
(* stores a 0 for a missing byte, so both a second read and a read of an  *)
(* empty pipe are at stake.                                               *)
PipeReadIsFifo ==
    [][\A t \in Tasks :
         LET b == reading[t].buf IN
         reading[t] # NoRead /\ reading'[t] = NoRead
           => /\ taken[b] + last'.ret <= Len(bufs[b])
              /\ last'.out = SubSeq(bufs[b], taken[b] + 1, taken[b] + last'.ret)]_vars

(* No syscall panics the kernel (spec, error handling).                   *)
NoKernelPanic == ~panicked

(* unlinkat of a path removes the cache entry openat resolves that path  *)
(* to (both resolve relative paths against the cwd).                     *)
UnlinkResolvesLikeOpen ==
    [][Returned("unlinkat") => OpenPath(last'.task, last'.path) \notin DOMAIN dentry']_vars

=============================================================================
