------------------------------ MODULE CloudStorage -----------------------------
(* py_utils.cloud_storage: processes of one machine that fetch the same file.   *)
(* _FileLock is modelled down to inodes and flocks, because its lock file is    *)
(* removed at each release; within it GetIfChanged compares the .sha1 file, the *)
(* binary and the time of the last fetch.  Contents are known by their hashes.  *)
EXTENDS Naturals, FiniteSets

CONSTANTS
    Procs,          \* processes
    Inodes,         \* inodes the lock file may be given
    Hashes,         \* contents of the binary
    None,           \* no process, no inode, no file
    MaxEvents       \* bound on edits, failed downloads and deaths

ASSUME CloudStorageAssumption ==
    /\ None \notin Procs \cup Inodes \cup Hashes
    /\ IsFiniteSet(Procs) /\ MaxEvents \in Nat

VARIABLES
    global,         \* who holds the flock on _CLOUD_STORAGE_GLOBAL_LOCK
    path,           \* the inode at pseudo_lock_path
    flock,          \* who holds the flock on each inode
    fd,             \* the inode pseudo_lock_fd refers to, per process
    pc,
    expected,       \* expected_hash, per process
    sha,            \* what the .sha1 file says
    file,           \* the binary at file_path
    stamp,          \* the time in .fetchts: none, or before or after .sha1's own
    events,         \* events so far
    owed            \* the call that wrote the stamp did not fetch what .sha1 says (history)

locks == <<global, path, flock, fd>>
data  == <<expected, sha, file, stamp, owed>>
vars  == <<locks, pc, data, events>>

Body == {"read", "check", "compare", "download", "verify"}

TypeOK ==
    /\ global \in Procs \cup {None} /\ path \in Inodes \cup {None}
    /\ flock \in [Inodes -> Procs \cup {None}]
    /\ fd \in [Procs -> Inodes \cup {None}]
    /\ pc \in [Procs -> {"idle", "acquire", "open", "lock", "release", "unlock", "remove",
                         "raised"} \cup Body]
    /\ expected \in [Procs -> Hashes \cup {None}]
    /\ sha \in Hashes \cup {None} /\ file \in Hashes \cup {None}
    /\ stamp \in {"none", "before", "after"}
    /\ events \in 0..MaxEvents /\ owed \in BOOLEAN

Init ==
    /\ global = None /\ path = None
    /\ flock = [i \in Inodes |-> None] /\ fd = [p \in Procs |-> None]
    /\ pc = [p \in Procs |-> "idle"] /\ expected = [p \in Procs |-> None]
    /\ sha \in Hashes \cup {None} /\ file \in Hashes \cup {None} /\ stamp = "none"
    /\ events = 0 /\ owed = FALSE

Event == events < MaxEvents /\ events' = events + 1

Go(p, there) == pc' = [pc EXCEPT ![p] = there]

--------------------------------------------------------------------------------
(* _FileLock.  Attempts that find the global lock taken change nothing.         *)

Call(p) ==
    /\ pc[p] = "idle"
    /\ Go(p, "acquire")
    /\ UNCHANGED <<locks, data, events>>

TakeGlobal(p) ==
    /\ pc[p] \in {"acquire", "release"}
    /\ global = None
    /\ global' = p
    /\ Go(p, IF pc[p] = "acquire" THEN "open" ELSE "unlock")
    /\ UNCHANGED <<path, flock, fd, data, events>>

(* An inode that neither the path nor a file that is open refers to. *)
Unused(i) == i # path /\ i \notin {fd[q] : q \in Procs}

OpenPseudo(p) ==
    /\ pc[p] = "open"
    /\ IF path = None THEN \E i \in Inodes : Unused(i) /\ path' = i ELSE UNCHANGED path
    /\ fd' = [fd EXCEPT ![p] = path']
    /\ Go(p, "lock")
    /\ UNCHANGED <<global, flock, data, events>>

LockPseudo(p) ==
    /\ pc[p] = "lock"
    /\ global' = None
    /\ \/ /\ flock[fd[p]] = None
          /\ flock' = [flock EXCEPT ![fd[p]] = p]
          /\ Go(p, "read")
          /\ UNCHANGED fd
       \/ /\ flock[fd[p]] # None                    \* LockException: try again
          /\ fd' = [fd EXCEPT ![p] = None]
          /\ Go(p, "acquire")
          /\ UNCHANGED flock
    /\ UNCHANGED <<path, data, events>>

(* WaitFor raises after ten seconds of attempts.  What is still locked then is  *)
(* freed by Close.                                                              *)
TimeOut(p) ==
    /\ pc[p] \in {"acquire", "release"}
    /\ \E q \in Procs \ {p} : pc[q] \notin {"idle", "raised"}
    /\ Event
    /\ Go(p, "raised")
    /\ UNCHANGED <<locks, data>>

Close(p) ==
    /\ pc[p] = "raised"
    /\ flock' = [i \in Inodes |-> IF flock[i] = p THEN None ELSE flock[i]]
    /\ fd' = [fd EXCEPT ![p] = None]
    /\ Go(p, "idle")
    /\ UNCHANGED <<global, path, data, events>>

(* Mutant: the global lock is given back before the lock file is removed. *)
UnlockEarly(p) ==
    /\ pc[p] = "unlock"
    /\ flock' = [flock EXCEPT ![fd[p]] = None]
    /\ fd' = [fd EXCEPT ![p] = None]
    /\ Go(p, "remove")
    /\ global' = None
    /\ UNCHANGED <<path, data, events>>

Unlock(p) ==
    /\ pc[p] = "unlock"
    /\ flock' = [flock EXCEPT ![fd[p]] = None]
    /\ fd' = [fd EXCEPT ![p] = None]
    /\ Go(p, "remove")
    /\ UNCHANGED <<global, path, data, events>>

GlobalWithout(p) == IF global = p THEN None ELSE global

Remove(p) ==
    /\ pc[p] = "remove"
    /\ path' = None /\ global' = GlobalWithout(p)
    /\ Go(p, "idle")
    /\ UNCHANGED <<flock, fd, data, events>>

(* The process dies, and its files are closed; the next one starts. *)
Die(p) ==
    /\ pc[p] # "idle"
    /\ Event
    /\ global' = GlobalWithout(p)
    /\ flock' = [i \in Inodes |-> IF flock[i] = p THEN None ELSE flock[i]]
    /\ fd' = [fd EXCEPT ![p] = None]
    /\ Go(p, "idle")
    /\ UNCHANGED <<path, data>>

--------------------------------------------------------------------------------
(* GetIfChanged, within the lock.                                               *)

ReadHash(p) ==
    /\ pc[p] = "read"
    /\ expected' = [expected EXCEPT ![p] = sha]
    /\ Go(p, IF sha = None THEN "release" ELSE "check")
    /\ UNCHANGED <<locks, sha, file, stamp, owed, events>>

UpToDate == stamp = "after" /\ file # None

CheckStamp(p) ==
    /\ pc[p] = "check"
    /\ \/ /\ UpToDate
          /\ Go(p, "release")
          /\ UNCHANGED <<stamp, owed>>
       \/ /\ ~UpToDate
          /\ stamp' = "after" /\ owed' = TRUE
          /\ Go(p, "compare")
    /\ UNCHANGED <<locks, expected, sha, file, events>>

(* The call is done: the stamp stands for .sha1 if that has not changed. *)
Settled(p) == owed' = (expected[p] # sha)

CompareHash(p) ==
    /\ pc[p] = "compare"
    /\ \/ file = expected[p] /\ Settled(p) /\ Go(p, "release")
       \/ file # expected[p] /\ UNCHANGED owed /\ Go(p, "download")
    /\ UNCHANGED <<locks, expected, sha, file, stamp, events>>

(* _GetLocked downloads to a file of its own and moves that.  The bucket may    *)
(* hold something else under the name.                                          *)
GetLocked(p) ==
    /\ pc[p] = "download"
    /\ \E h \in Hashes :
        /\ IF h = expected[p] THEN UNCHANGED events ELSE Event
        /\ file' = h
    /\ Go(p, "verify")
    /\ UNCHANGED <<locks, expected, sha, stamp, owed>>

DownloadFails(p) ==
    /\ pc[p] = "download"
    /\ Event
    /\ Go(p, "release")
    /\ UNCHANGED <<locks, data>>

(* Mutant: the stamp stays. *)
StampStays == stamp

(* os.remove of .fetchts when the hash is not the expected one *)
StampOfMismatch == "none"

VerifyHash(p) ==
    /\ pc[p] = "verify"
    /\ \/ file = expected[p] /\ Settled(p) /\ UNCHANGED stamp
       \/ file # expected[p] /\ stamp' = StampOfMismatch /\ owed' = FALSE
    /\ Go(p, "release")
    /\ UNCHANGED <<locks, expected, sha, file, events>>

(* Another commit is checked out: .sha1 is written, or removed. *)
Checkout ==
    /\ Event
    /\ sha' \in (Hashes \cup {None}) \ {sha}
    /\ stamp' = IF stamp = "none" THEN "none" ELSE "before"
    /\ UNCHANGED <<locks, pc, expected, file, owed>>

--------------------------------------------------------------------------------
GetIfChanged(p) == \/ ReadHash(p) \/ CheckStamp(p) \/ CompareHash(p)
                   \/ GetLocked(p) \/ DownloadFails(p) \/ VerifyHash(p)

FileLock(p) == \/ Call(p) \/ TakeGlobal(p) \/ OpenPseudo(p) \/ LockPseudo(p) \/ TimeOut(p)
               \/ Close(p) \/ Unlock(p) \/ Remove(p) \/ Die(p)

Next == (\E p \in Procs : FileLock(p) \/ GetIfChanged(p)) \/ Checkout

Spec == Init /\ [][Next]_vars

--------------------------------------------------------------------------------
(* One process at a time uses the files of a path, though the lock file they    *)
(* lock is removed and created again and any of them may die or give up.        *)
Inside == {p \in Procs : pc[p] \in Body \cup {"release"}}
Lock == INSTANCE PathLock WITH inside <- Inside
ImplementsPathLock == Lock!Spec

(* Between calls, a stamp later than .sha1 speaks of the binary that .sha1      *)
(* names, unless the call that wrote it failed, died, or read .sha1 before it   *)
(* was changed.                                                                 *)
StampIsTrue == Inside = {} /\ UpToDate /\ ~owed => file = sha

(* The lock that is held is the one at the path, so a release removes no lock   *)
(* file but its own.                                                            *)
HeldIsAtPath == \A p \in Procs : pc[p] \in Body \cup {"release", "unlock"} => path = fd[p]

================================================================================
