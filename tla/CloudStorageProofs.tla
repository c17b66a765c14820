--------------------------- MODULE CloudStorageProofs ---------------------------
(* The lock of cloud_storage excludes processes from each other, and a stamp    *)
(* speaks of the binary .sha1 names, for any numbers of processes, inodes and   *)
(* contents.                                                                    *)
EXTENDS CloudStorage, TLAPS

HasGlobal == {"open", "lock", "unlock", "remove"}
Holding   == Body \cup {"release", "unlock"}

(* The global lock is held by the process that is about to enter or has left.   *)
GlobalHolder == \A p \in Procs : pc[p] \in HasGlobal <=> global = p

(* The lock file that was just opened is the one at the path.                   *)
Opened == \A p \in Procs : pc[p] = "lock" => path # None /\ fd[p] = path

(* A process within the lock holds the flock on the inode at the path.          *)
Held == \A p \in Procs :
    pc[p] \in Holding => path # None /\ fd[p] = path /\ flock[path] = p

(* Nobody is within the lock while its file is about to be removed.             *)
Removing == \A p, q \in Procs : pc[p] = "remove" => pc[q] \notin Holding

LockInv == GlobalHolder /\ Opened /\ Held /\ Removing

(* Of the call that wrote the stamp it is known that it has not fetched yet;    *)
(* and a stamp of a call that has is true, also while other calls go on.        *)
Fetching == \A p \in Procs : pc[p] \in {"compare", "download", "verify"} => owed
StampInv == Fetching /\ (UpToDate /\ ~owed => file = sha)

IInv == TypeOK /\ LockInv /\ StampInv

--------------------------------------------------------------------------------
USE CloudStorageAssumption DEF Body, HasGlobal, Holding

(* One process at a time is within the lock.                                    *)
LEMMA Exclusion ==
    ASSUME LockInv, NEW p \in Procs, NEW q \in Procs, pc[p] \in Holding, pc[q] \in Holding
    PROVE  p = q
BY DEF LockInv, Held

LEMMA InitInv == Init => IInv
<1> SUFFICES ASSUME Init PROVE IInv
  OBVIOUS
<1>1. TypeOK
  <2>1. owed \in BOOLEAN
    BY DEF Init
  <2> QED
    BY <2>1 DEF Init, TypeOK
<1>2. LockInv /\ StampInv
  BY DEF Init, LockInv, GlobalHolder, Opened, Held, Removing, StampInv, Fetching, UpToDate
<1> QED
  BY <1>1, <1>2 DEF IInv

(* Each action keeps the types.                                                 *)
LEMMA StepType == TypeOK /\ [Next]_vars => TypeOK'
<1> SUFFICES ASSUME TypeOK, [Next]_vars PROVE TypeOK'
  OBVIOUS
<1> USE DEF TypeOK, Go, Event, locks, data
<1>1. ASSUME NEW p \in Procs, Call(p) PROVE TypeOK'
  BY <1>1 DEF Call
<1>2. ASSUME NEW p \in Procs, TakeGlobal(p) PROVE TypeOK'
  BY <1>2 DEF TakeGlobal
<1>3. ASSUME NEW p \in Procs, OpenPseudo(p) PROVE TypeOK'
  BY <1>3 DEF OpenPseudo
<1>4. ASSUME NEW p \in Procs, LockPseudo(p) PROVE TypeOK'
  BY <1>4 DEF LockPseudo
<1>5. ASSUME NEW p \in Procs, TimeOut(p) PROVE TypeOK'
  BY <1>5 DEF TimeOut
<1>6. ASSUME NEW p \in Procs, Close(p) PROVE TypeOK'
  BY <1>6 DEF Close
<1>7. ASSUME NEW p \in Procs, Unlock(p) PROVE TypeOK'
  BY <1>7 DEF Unlock
<1>8. ASSUME NEW p \in Procs, Remove(p) PROVE TypeOK'
  BY <1>8 DEF Remove, GlobalWithout
<1>9. ASSUME NEW p \in Procs, Die(p) PROVE TypeOK'
  BY <1>9 DEF Die, GlobalWithout
<1>10. ASSUME NEW p \in Procs, GetIfChanged(p) PROVE TypeOK'
  <2>1. CASE ReadHash(p)
    BY <2>1 DEF ReadHash
  <2>2. CASE CheckStamp(p)
    BY <2>2 DEF CheckStamp
  <2>3. CASE CompareHash(p)
    <3>1. owed' \in BOOLEAN
      BY <2>3 DEF CompareHash, Settled
    <3> QED
      BY <2>3, <3>1 DEF CompareHash
  <2>4. CASE GetLocked(p)
    BY <2>4 DEF GetLocked
  <2>5. CASE DownloadFails(p)
    BY <2>5 DEF DownloadFails
  <2>6. CASE VerifyHash(p)
    <3>1. owed' \in BOOLEAN
      BY <2>6 DEF VerifyHash, Settled
    <3> QED
      BY <2>6, <3>1 DEF VerifyHash, StampOfMismatch
  <2> QED
    BY <1>10, <2>1, <2>2, <2>3, <2>4, <2>5, <2>6 DEF GetIfChanged
<1>11. CASE Checkout
  BY <1>11 DEF Checkout
<1>12. CASE UNCHANGED vars
  BY <1>12 DEF vars
<1> QED
  BY <1>1, <1>2, <1>3, <1>4, <1>5, <1>6, <1>7, <1>8, <1>9, <1>10, <1>11, <1>12 DEF Next, FileLock

(* A step within the lock that leaves the lock alone.                           *)
LEMMA InsideStep ==
    ASSUME TypeOK, LockInv, NEW p \in Procs, pc[p] \in Body, UNCHANGED locks,
           NEW there \in Body \cup {"release"}, pc' = [pc EXCEPT ![p] = there]
    PROVE  LockInv'
BY DEF TypeOK, LockInv, GlobalHolder, Opened, Held, Removing, locks

(* GetIfChanged leaves the lock alone.                                          *)
LEMMA GetIfChangedLock ==
    ASSUME TypeOK, LockInv, NEW p \in Procs, GetIfChanged(p)
    PROVE  LockInv'
<1>1. /\ pc[p] \in Body /\ UNCHANGED locks
      /\ \E there \in Body \cup {"release"} : pc' = [pc EXCEPT ![p] = there]
  <2>1. CASE ReadHash(p)
    BY <2>1 DEF ReadHash, Go
  <2>2. CASE CheckStamp(p)
    BY <2>2 DEF CheckStamp, Go
  <2>3. CASE CompareHash(p)
    BY <2>3 DEF CompareHash, Go
  <2>4. CASE GetLocked(p)
    BY <2>4 DEF GetLocked, Go
  <2>5. CASE DownloadFails(p)
    BY <2>5 DEF DownloadFails, Go
  <2>6. CASE VerifyHash(p)
    BY <2>6 DEF VerifyHash, Go
  <2> QED
    BY <2>1, <2>2, <2>3, <2>4, <2>5, <2>6 DEF GetIfChanged
<1> QED
  BY <1>1, InsideStep

(* Each action keeps what the lock rests on.                                    *)
LEMMA StepLock == TypeOK /\ LockInv /\ [Next]_vars => LockInv'
<1> SUFFICES ASSUME TypeOK, LockInv, [Next]_vars PROVE LockInv'
  OBVIOUS
<1> USE DEF Go
<1>t. /\ global \in Procs \cup {None} /\ path \in Inodes \cup {None}
      /\ flock \in [Inodes -> Procs \cup {None}]
      /\ fd \in [Procs -> Inodes \cup {None}]
      /\ DOMAIN pc = Procs /\ pc = [p \in Procs |-> pc[p]]
  BY DEF TypeOK
<1>l. GlobalHolder /\ Opened /\ Held /\ Removing
  BY DEF LockInv
<1>1. ASSUME NEW p \in Procs, Call(p) PROVE LockInv'
  BY <1>1, <1>t, <1>l DEF Call, LockInv, GlobalHolder, Opened, Held, Removing, locks
<1>2. ASSUME NEW p \in Procs, TakeGlobal(p) PROVE LockInv'
  <2>1. global = None /\ global' = p /\ UNCHANGED <<path, flock, fd>>
    BY <1>2 DEF TakeGlobal
  <2>2. CASE pc[p] = "acquire" /\ pc' = [pc EXCEPT ![p] = "open"]
    BY <2>1, <2>2, <1>t, <1>l DEF LockInv, GlobalHolder, Opened, Held, Removing
  <2>3. CASE pc[p] = "release" /\ pc' = [pc EXCEPT ![p] = "unlock"]
    BY <2>1, <2>3, <1>t, <1>l DEF LockInv, GlobalHolder, Opened, Held, Removing
  <2> QED
    BY <1>2, <2>2, <2>3 DEF TakeGlobal
<1>3. ASSUME NEW p \in Procs, OpenPseudo(p) PROVE LockInv'
  <2>1. /\ pc[p] = "open" /\ pc' = [pc EXCEPT ![p] = "lock"]
        /\ path' # None /\ (path # None => path' = path)
        /\ fd' = [fd EXCEPT ![p] = path'] /\ UNCHANGED <<global, flock>>
    BY <1>3, <1>t DEF OpenPseudo
  <2>2. GlobalHolder'
    BY <2>1, <1>t, <1>l DEF GlobalHolder
  <2>3. Opened'
    BY <2>1, <1>t, <1>l DEF GlobalHolder, Opened
  <2>4. Held' /\ Removing'
    BY <2>1, <1>t, <1>l DEF Held, Removing
  <2> QED
    BY <2>2, <2>3, <2>4 DEF LockInv
<1>4. ASSUME NEW p \in Procs, LockPseudo(p) PROVE LockInv'
  <2>1. /\ pc[p] = "lock" /\ global' = None /\ UNCHANGED path
        /\ global = p /\ path # None /\ fd[p] = path
    BY <1>4, <1>l DEF LockPseudo, GlobalHolder, Opened
  <2>2. \A q \in Procs : q # p => pc[q] \notin HasGlobal
    BY <2>1, <1>l DEF GlobalHolder
  <2>3. CASE /\ flock[path] = None /\ flock' = [flock EXCEPT ![path] = p]
             /\ pc' = [pc EXCEPT ![p] = "read"] /\ UNCHANGED fd
    <3>1. GlobalHolder' /\ Opened'
      BY <2>1, <2>2, <2>3, <1>t DEF GlobalHolder, Opened
    <3>2. Held' /\ Removing'
      BY <2>1, <2>2, <2>3, <1>t, <1>l DEF Held, Removing
    <3> QED
      BY <3>1, <3>2 DEF LockInv
  <2>4. CASE /\ fd' = [fd EXCEPT ![p] = None] /\ pc' = [pc EXCEPT ![p] = "acquire"]
             /\ UNCHANGED flock
    <3>1. GlobalHolder' /\ Opened'
      BY <2>1, <2>2, <2>4, <1>t DEF GlobalHolder, Opened
    <3>2. Held' /\ Removing'
      BY <2>1, <2>2, <2>4, <1>t, <1>l DEF Held, Removing
    <3> QED
      BY <3>1, <3>2 DEF LockInv
  <2> QED
    BY <1>4, <2>1, <2>3, <2>4 DEF LockPseudo
<1>5. ASSUME NEW p \in Procs, TimeOut(p) PROVE LockInv'
  BY <1>5, <1>t, <1>l DEF TimeOut, LockInv, GlobalHolder, Opened, Held, Removing, locks
<1>6. ASSUME NEW p \in Procs, Close(p) PROVE LockInv'
  <2>1. /\ pc[p] = "raised" /\ pc' = [pc EXCEPT ![p] = "idle"]
        /\ flock' = [i \in Inodes |-> IF flock[i] = p THEN None ELSE flock[i]]
        /\ fd' = [fd EXCEPT ![p] = None] /\ UNCHANGED <<global, path>>
    BY <1>6 DEF Close
  <2>2. GlobalHolder' /\ Opened'
    BY <2>1, <1>t, <1>l DEF GlobalHolder, Opened
  <2>3. Held' /\ Removing'
    BY <2>1, <1>t, <1>l DEF Held, Removing
  <2> QED
    BY <2>2, <2>3 DEF LockInv
<1>7. ASSUME NEW p \in Procs, Unlock(p) PROVE LockInv'
  <2>1. /\ pc[p] = "unlock" /\ pc' = [pc EXCEPT ![p] = "remove"]
        /\ flock' = [flock EXCEPT ![fd[p]] = None]
        /\ fd' = [fd EXCEPT ![p] = None] /\ UNCHANGED <<global, path>>
    BY <1>7 DEF Unlock
  <2>2. \A q \in Procs : q # p => pc[q] \notin Holding
    BY <2>1, Exclusion
  <2>3. GlobalHolder' /\ Opened'
    BY <2>1, <1>t, <1>l DEF GlobalHolder, Opened
  <2>4. Held' /\ Removing'
    BY <2>1, <2>2, <1>t, <1>l DEF GlobalHolder, Held, Removing
  <2> QED
    BY <2>3, <2>4 DEF LockInv
<1>8. ASSUME NEW p \in Procs, Remove(p) PROVE LockInv'
  <2>1. /\ pc[p] = "remove" /\ pc' = [pc EXCEPT ![p] = "idle"]
        /\ path' = None /\ global = p /\ global' = None /\ UNCHANGED <<flock, fd>>
    BY <1>8, <1>l DEF Remove, GlobalWithout, GlobalHolder
  <2>2. GlobalHolder' /\ Opened'
    BY <2>1, <1>t, <1>l DEF GlobalHolder, Opened
  <2>3. Held' /\ Removing'
    BY <2>1, <1>t, <1>l DEF Held, Removing
  <2> QED
    BY <2>2, <2>3 DEF LockInv
<1>9. ASSUME NEW p \in Procs, Die(p) PROVE LockInv'
  <2>1. /\ pc' = [pc EXCEPT ![p] = "idle"]
        /\ global' = IF global = p THEN None ELSE global
        /\ flock' = [i \in Inodes |-> IF flock[i] = p THEN None ELSE flock[i]]
        /\ fd' = [fd EXCEPT ![p] = None] /\ UNCHANGED path
    BY <1>9 DEF Die, GlobalWithout
  <2>2. GlobalHolder' /\ Opened'
    BY <2>1, <1>t, <1>l DEF GlobalHolder, Opened
  <2>3. Held' /\ Removing'
    BY <2>1, <1>t, <1>l DEF Held, Removing
  <2> QED
    BY <2>2, <2>3 DEF LockInv
<1>10. ASSUME NEW p \in Procs, GetIfChanged(p) PROVE LockInv'
  BY <1>10, GetIfChangedLock
<1>11. CASE Checkout \/ UNCHANGED vars
  BY <1>11, <1>l DEF Checkout, vars, LockInv, GlobalHolder, Opened, Held, Removing, locks
<1> QED
  BY <1>1, <1>2, <1>3, <1>4, <1>5, <1>6, <1>7, <1>8, <1>9, <1>10, <1>11 DEF Next, FileLock

(* Each action keeps the stamp true.                                            *)
LEMMA StepStamp == TypeOK /\ LockInv /\ StampInv /\ [Next]_vars => StampInv'
<1> SUFFICES ASSUME TypeOK, LockInv, StampInv, [Next]_vars PROVE StampInv'
  OBVIOUS
<1> USE DEF Go
<1>t. /\ expected \in [Procs -> Hashes \cup {None}] /\ DOMAIN pc = Procs
      /\ pc = [p \in Procs |-> pc[p]] /\ owed \in BOOLEAN
  BY DEF TypeOK
<1>1. ASSUME NEW p \in Procs, FileLock(p) PROVE StampInv'
  <2>1. /\ UNCHANGED data
        /\ \E there \in {"idle", "acquire", "open", "lock", "read", "unlock", "remove", "raised"} :
            pc' = [pc EXCEPT ![p] = there]
    BY <1>1 DEF FileLock, Call, TakeGlobal, OpenPseudo, LockPseudo, TimeOut, Close, Unlock,
                Remove, Die
  <2> QED
    BY <2>1, <1>t DEF StampInv, Fetching, UpToDate, data
<1>2. ASSUME NEW p \in Procs, GetIfChanged(p) PROVE StampInv'
  <2> pc[p] \in Body
    BY <1>2 DEF GetIfChanged, ReadHash, CheckStamp, CompareHash, GetLocked, DownloadFails,
                VerifyHash
  <2>x. \A q \in Procs : q # p => pc[q] \notin Body
    BY Exclusion
  <2>1. CASE ReadHash(p)
    BY <2>1, <1>t DEF ReadHash, StampInv, Fetching, UpToDate
  <2>2. CASE CheckStamp(p)
    BY <2>2, <2>x, <1>t DEF CheckStamp, StampInv, Fetching, UpToDate
  <2>3. CASE CompareHash(p)
    BY <2>3, <2>x, <1>t DEF CompareHash, Settled, StampInv, Fetching, UpToDate
  <2>4. CASE GetLocked(p)
    BY <2>4, <2>x, <1>t DEF GetLocked, StampInv, Fetching, UpToDate
  <2>5. CASE DownloadFails(p)
    BY <2>5, <2>x, <1>t DEF DownloadFails, StampInv, Fetching, UpToDate, data
  <2>6. CASE VerifyHash(p)
    BY <2>6, <2>x, <1>t DEF VerifyHash, Settled, StampOfMismatch, StampInv, Fetching, UpToDate
  <2> QED
    BY <1>2, <2>1, <2>2, <2>3, <2>4, <2>5, <2>6 DEF GetIfChanged
<1>3. CASE Checkout
  BY <1>3 DEF Checkout, StampInv, Fetching, UpToDate
<1>4. CASE UNCHANGED vars
  BY <1>4 DEF vars, data, StampInv, Fetching, UpToDate
<1> QED
  BY <1>1, <1>2, <1>3, <1>4 DEF Next

LEMMA StepInv == IInv /\ [Next]_vars => IInv'
BY StepType, StepLock, StepStamp DEF IInv

LEMMA Invariance == Spec => []IInv
BY InitInv, StepInv, PTL DEF Spec

--------------------------------------------------------------------------------
(* The files and locks of cloud_storage always are of the kinds they should be. *)
THEOREM TypeCorrect == Spec => []TypeOK
<1>1. IInv => TypeOK
  BY DEF IInv
<1> QED
  BY <1>1, Invariance, PTL

(* The lock that is held is the one at the path: a release never removes the    *)
(* lock file of another process, whichever dies or gives up.                    *)
THEOREM HeldAtPath == Spec => []HeldIsAtPath
<1>1. IInv => HeldIsAtPath
  BY DEF IInv, LockInv, Held, HeldIsAtPath
<1> QED
  BY <1>1, Invariance, PTL

(* A stamp later than .sha1 speaks of the binary that .sha1 names, but for the  *)
(* calls that wrote it and did not fetch.                                       *)
THEOREM StampsAreTrue == Spec => []StampIsTrue
<1>1. IInv => StampIsTrue
  BY DEF IInv, StampInv, StampIsTrue
<1> QED
  BY <1>1, Invariance, PTL

(* Every step of the processes is one of the abstract lock, or none to it.      *)
LEMMA StepImplements ==
    IInv /\ [Next]_vars => [\E p \in Procs : Lock!Enter(p) \/ Lock!Leave(p)]_Inside
<1> SUFFICES ASSUME IInv, [Next]_vars
             PROVE  (\E p \in Procs : Lock!Enter(p) \/ Lock!Leave(p)) \/ Inside' = Inside
  OBVIOUS
<1> USE DEF Inside, Go
<1>t. DOMAIN pc = Procs /\ pc = [p \in Procs |-> pc[p]]
  BY DEF IInv, TypeOK
<1>1. ASSUME NEW p \in Procs, Call(p) \/ OpenPseudo(p) \/ Close(p) \/ Unlock(p) \/ Remove(p)
      PROVE  Inside' = Inside
  BY <1>1, <1>t DEF Call, OpenPseudo, Close, Unlock, Remove
<1>2. ASSUME NEW p \in Procs, TakeGlobal(p) \/ TimeOut(p) \/ Die(p)
      PROVE  Lock!Leave(p) \/ Inside' = Inside
  <2>1. \E there \in {"open", "unlock", "raised", "idle"} : pc' = [pc EXCEPT ![p] = there]
    BY <1>2 DEF TakeGlobal, TimeOut, Die
  <2>2. Inside' = Inside \ {p}
    BY <2>1, <1>t
  <2> QED
    BY <2>2 DEF Lock!Leave
<1>3. ASSUME NEW p \in Procs, LockPseudo(p) PROVE Lock!Enter(p) \/ Inside' = Inside
  <2>1. pc[p] = "lock" /\ fd[p] = path
    BY <1>3 DEF LockPseudo, IInv, LockInv, Opened
  <2>2. CASE flock[path] = None /\ pc' = [pc EXCEPT ![p] = "read"]
    <3>1. Inside = {}
      BY <2>2 DEF IInv, LockInv, Held
    <3>2. Inside' = {p}
      BY <2>2, <3>1, <1>t
    <3> QED
      BY <3>1, <3>2 DEF Lock!Enter
  <2>3. CASE pc' = [pc EXCEPT ![p] = "acquire"]
    BY <2>1, <2>3, <1>t
  <2> QED
    BY <1>3, <2>1, <2>2, <2>3 DEF LockPseudo
<1>4. ASSUME NEW p \in Procs, GetIfChanged(p) PROVE Inside' = Inside
  <2>1. /\ pc[p] \in Body
        /\ \E there \in Body \cup {"release"} : pc' = [pc EXCEPT ![p] = there]
    BY <1>4 DEF GetIfChanged, ReadHash, CheckStamp, CompareHash, GetLocked, DownloadFails,
                VerifyHash
  <2> QED
    BY <2>1, <1>t
<1>5. CASE Checkout \/ UNCHANGED vars
  BY <1>5 DEF Checkout, vars
<1> QED
  BY <1>1, <1>2, <1>3, <1>4, <1>5 DEF Next, FileLock

(* _FileLock lets one process at a time use the files of a path, though its     *)
(* lock file is removed and created again and any process may die or give up.   *)
THEOREM FileLockImplementsPathLock == Spec => ImplementsPathLock
<1>1. Init => Inside = {}
  BY DEF Init, Inside
<1> QED
  BY <1>1, StepImplements, Invariance, PTL DEF Spec, ImplementsPathLock, Lock!Spec
================================================================================
