------------------------------ MODULE ConfigUpdate -----------------------------
(* dependency_manager.BaseConfig opened for writing, and CloudStorageUploader:  *)
(* programs that each upload new versions of one dependency for some platforms  *)
(* and then write the config that names them, or roll the uploads back.  They   *)
(* share the config file and the bucket, and nothing locks either.              *)
EXTENDS Naturals, Sequences, FiniteSetsExt

CONSTANTS
    Updaters,       \* programs
    Platforms,
    Hashes,         \* the contents a file may have, each stored under its hash
    None,           \* no object
    Torn,           \* a config file cut short
    MaxJobs,        \* bound on the uploads pending at a time
    MaxEvents       \* bound on failures, interrupts, deaths, edits and new paths

(* The names in the bucket: by hash, with the extension for backups, and the    *)
(* one that a _cs_backup_path of None makes.                                    *)
Old(h)  == <<"old", h>>
NoneKey == <<"None">>
Names   == Hashes \cup {Old(h) : h \in Hashes} \cup {NoneKey}

(* A hash has no extension, so that no file is named like a backup.             *)
ASSUME ConfigUpdateAssumption ==
    /\ None \notin Hashes /\ NoneKey \notin Hashes /\ \A h \in Hashes : Old(h) \notin Hashes
    /\ MaxJobs \in Nat /\ MaxEvents \in Nat

VARIABLES
    disk,           \* the config file: a hash and a download path per platform
    cloud,          \* the objects in the bucket
    up,             \* the BaseConfig of each program
    events,         \* events so far
    doubt,          \* hashes in the uploads of two programs, or of a second attempt (history)
    unkept          \* hashes under which other content was uploaded, or of uploads that
                    \* an interrupt rolled back after the config was written (history)

vars == <<disk, cloud, up, events, doubt, unkept>>

Config == [hash : [Platforms -> Hashes], paths : BOOLEAN]

Upload(h) == [hash |-> h, updated |-> FALSE, backed |-> FALSE, spent |-> FALSE, unsure |-> FALSE]

Uploads == [hash : Hashes, updated : BOOLEAN, backed : BOOLEAN, spent : BOOLEAN, unsure : BOOLEAN]

Closed == [pc |-> "closed", data |-> Torn, pending |-> <<>>, at |-> 0, force |-> FALSE,
           before |-> <<>>]

BaseConfigs ==
    [pc : {"closed", "ready", "exists", "copy", "insert", "truncate", "write", "written",
           "rollback"},
     data : Config \cup {Torn}, pending : Seq(Uploads), at : Nat, force : BOOLEAN,
     before : [Hashes -> Hashes \cup {None}] \cup {<<>>}]

TypeOK ==
    /\ disk \in Config \cup {Torn}
    /\ cloud \in [Names -> Hashes \cup {None}]
    /\ up \in [Updaters -> BaseConfigs]
    /\ \A u \in Updaters : up[u].at <= Len(up[u].pending)
    /\ events \in 0..MaxEvents /\ doubt \subseteq Hashes /\ unkept \subseteq Hashes

(* The config names what the bucket holds; what else is in it may be anything.  *)
Init ==
    /\ disk \in [hash : [Platforms -> Hashes], paths : {FALSE}]
    /\ \E other \in [Hashes -> Hashes \cup {None}] :
        cloud = [n \in Names |-> IF n \in {disk.hash[pl] : pl \in Platforms} THEN n
                                 ELSE IF n \in Hashes THEN other[n] ELSE None]
    /\ up = [u \in Updaters |-> Closed]
    /\ events = 0 /\ doubt = {} /\ unkept = {}

Event == events < MaxEvents /\ events' = events + 1

Item(u) == up[u].pending[up[u].at]

Of(pending) == {pending[i].hash : i \in DOMAIN pending}

--------------------------------------------------------------------------------
(* BaseConfig.  A config that is torn cannot be loaded: each of these raises.   *)

Open(u) ==
    /\ up[u].pc = "closed" /\ disk # Torn
    /\ up' = [up EXCEPT ![u] = [Closed EXCEPT !.pc = "ready", !.data = disk]]
    /\ UNCHANGED <<disk, cloud, events, doubt, unkept>>

Close(u) ==
    /\ up[u].pc = "ready"
    /\ up' = [up EXCEPT ![u] = Closed]
    /\ UNCHANGED <<disk, cloud, events, doubt, unkept>>

IsDirty(data) == data # disk

(* ExecuteUpdateJobs of a config as a call has left it.  A clean config is left *)
(* alone, with its pending uploads; a dirty one with none is not written either.*)
Executed(u, c, force) ==
    IF IsDirty(c.data) /\ c.pending # <<>>
    THEN LET others == UNION {Of(up[v].pending) : v \in Updaters \ {u}}
             again  == \E i \in DOMAIN c.pending : c.pending[i].backed \/ c.pending[i].updated IN
        /\ up' = [up EXCEPT ![u] = [c EXCEPT !.pc = "exists", !.at = 1, !.force = force,
                                             !.before = [h \in Hashes |-> cloud[h]]]]
        /\ doubt' = doubt \cup IF again THEN Of(c.pending) ELSE Of(c.pending) \cap others
    ELSE up' = [up EXCEPT ![u] = c] /\ UNCHANGED doubt

ExecuteUpdateJobs(u) ==
    /\ up[u].pc = "ready" /\ disk # Torn
    /\ \E force \in BOOLEAN : Executed(u, up[u], force)
    /\ UNCHANGED <<disk, cloud, events, unkept>>

AddCloudStorageDependencyUpdateJob(u) ==
    /\ up[u].pc = "ready" /\ disk # Torn
    /\ MapThenSumSet(LAMBDA v : Len(up[v].pending), Updaters) < MaxJobs
    /\ \E pl \in Platforms, h \in Hashes, execute \in BOOLEAN :
        LET c == [up[u] EXCEPT !.data.hash[pl] = h, !.pending = Append(@, Upload(h))] IN
        /\ execute => ~IsDirty(up[u].data)
        /\ IF execute THEN Executed(u, c, FALSE)
                      ELSE up' = [up EXCEPT ![u] = c] /\ UNCHANGED doubt
    /\ UNCHANGED <<disk, cloud, events, unkept>>

SetDownloadPath(u) ==
    /\ up[u].pc = "ready" /\ ~up[u].data.paths
    /\ Event
    /\ up' = [up EXCEPT ![u].data.paths = TRUE]
    /\ UNCHANGED <<disk, cloud, doubt, unkept>>

--------------------------------------------------------------------------------
(* CloudStorageUploader.Upload, for each pending upload in turn.                *)

Go(u, there) == up' = [up EXCEPT ![u].pc = there]

(* The exception handler starts with the last upload. *)
StartRollback(u) == up' = [up EXCEPT ![u].pc = "rollback", ![u].at = Len(up[u].pending)]

Exists(u) ==
    /\ up[u].pc = "exists"
    /\ \/ cloud[Item(u).hash] = None /\ Go(u, "insert")
       \/ cloud[Item(u).hash] # None /\ up[u].force /\ Go(u, "copy")
       \/ cloud[Item(u).hash] # None /\ ~up[u].force /\ StartRollback(u)   \* conflict
    /\ UNCHANGED <<disk, cloud, events, doubt, unkept>>

BackupPath(item) == IF item.spent THEN NoneKey ELSE Old(item.hash)

Copy(u) ==
    /\ up[u].pc = "copy"
    /\ \/ /\ cloud[Item(u).hash] # None
          /\ cloud' = [cloud EXCEPT ![BackupPath(Item(u))] = cloud[Item(u).hash]]
          /\ up' = [up EXCEPT ![u].pc = "insert", ![u].pending[up[u].at].backed = TRUE]
       \/ cloud[Item(u).hash] = None /\ StartRollback(u) /\ UNCHANGED cloud
    /\ UNCHANGED <<disk, events, doubt, unkept>>

(* The local file as it is now, which was hashed when the job was added.        *)
Stores(u, content) ==
    /\ cloud' = [cloud EXCEPT ![Item(u).hash] = content]
    /\ unkept' = unkept \cup ({Item(u).hash} \ {content})

Insert(u) ==
    /\ up[u].pc = "insert"
    /\ \/ Stores(u, Item(u).hash) /\ UNCHANGED events
       \/ \E content \in Hashes \ {Item(u).hash} : Stores(u, content) /\ Event
    /\ up' = [up EXCEPT ![u].pending[up[u].at].updated = TRUE,
                        ![u].pc = IF up[u].at < Len(up[u].pending) THEN "exists" ELSE "truncate",
                        ![u].at = IF @ < Len(up[u].pending) THEN @ + 1 ELSE @]
    /\ UNCHANGED <<disk, doubt>>

(* _WriteConfigToFile opens the file, which empties it, and then dumps to it. *)
Truncate(u) ==
    /\ up[u].pc = "truncate"
    /\ disk' = Torn
    /\ Go(u, "write")
    /\ UNCHANGED <<cloud, events, doubt, unkept>>

Write(u) ==
    /\ up[u].pc = "write"
    /\ disk' = up[u].data
    /\ Go(u, "written")
    /\ UNCHANGED <<cloud, events, doubt, unkept>>

(* The uploads are forgotten, and with them how to undo them. *)
ClearPending(u) ==
    /\ up[u].pc = "written"
    /\ up' = [up EXCEPT ![u].pc = "ready", ![u].pending = <<>>, ![u].at = 0, ![u].before = <<>>]
    /\ UNCHANGED <<disk, cloud, events, doubt, unkept>>

(* A command fails, or Ctrl+C: what was done for it may not be known of.        *)
Fails(u) ==
    /\ up[u].pc \in {"exists", "copy", "insert", "truncate", "write", "written"}
    /\ Event
    /\ \/ /\ StartRollback(u)
          /\ unkept' = unkept \cup IF up[u].pc = "written" THEN Of(up[u].pending) ELSE {}
          /\ UNCHANGED cloud
       \/ /\ up[u].pc = "copy" /\ cloud[Item(u).hash] # None
          /\ cloud' = [cloud EXCEPT ![BackupPath(Item(u))] = cloud[Item(u).hash]]
          /\ StartRollback(u)
          /\ UNCHANGED unkept
       \/ /\ up[u].pc = "insert"
          /\ \E content \in Hashes : Stores(u, content)
          /\ up' = [up EXCEPT ![u].pc = "rollback", ![u].at = Len(up[u].pending),
                              ![u].pending[up[u].at].unsure = TRUE]
    /\ UNCHANGED <<disk, doubt>>

--------------------------------------------------------------------------------
(* CloudStorageUploader.Rollback; an exception leaves the rest as it is.        *)

RaiseToCaller(u) == up' = [up EXCEPT ![u].pc = "ready", ![u].at = 0, ![u].before = <<>>]

(* Mutant: the uploads are rolled back in the order they were made. *)
FromTheFirst(u) == Len(up[u].pending) + 1 - up[u].at

InReverse(u) == up[u].at

(* Mutant: what was uploaded is removed even if it replaced something. *)
Removed(item) == None

(* What Rollback leaves under the name of an upload: its backup, or nothing. *)
Restored(item) == IF item.backed THEN cloud[BackupPath(item)] ELSE None

(* The object that Rollback copies from, or removes. *)
Source(item) == IF item.backed THEN BackupPath(item) ELSE item.hash

Rollback(u) ==
    /\ up[u].pc = "rollback" /\ up[u].at > 0
    /\ LET i    == InReverse(u)
           item == up[u].pending[i]
           next == [up EXCEPT ![u].at = @ - 1,
                              ![u].pending[i] = [item EXCEPT !.updated = FALSE,
                                                             !.spent = item.spent \/ item.backed]] IN
        \/ ~item.backed /\ ~item.updated /\ up' = next /\ UNCHANGED cloud
        \/ /\ item.backed \/ item.updated
           /\ cloud[Source(item)] # None
           /\ cloud' = [cloud EXCEPT ![item.hash] = Restored(item)]
           /\ up' = next
        \/ /\ item.backed \/ item.updated
           /\ cloud[Source(item)] = None                    \* NotFoundError
           /\ RaiseToCaller(u)
           /\ UNCHANGED cloud
    /\ UNCHANGED <<disk, events, doubt, unkept>>

RollbackFails(u) ==
    /\ up[u].pc = "rollback" /\ up[u].at > 0
    /\ Event
    /\ RaiseToCaller(u)
    /\ UNCHANGED <<disk, cloud, doubt, unkept>>

RolledBack(u) ==
    /\ up[u].pc = "rollback" /\ up[u].at = 0
    /\ RaiseToCaller(u)
    /\ UNCHANGED <<disk, cloud, events, doubt, unkept>>

Die(u) ==
    /\ up[u].pc \notin {"closed", "ready"}
    /\ Event
    /\ up' = [up EXCEPT ![u] = Closed]
    /\ UNCHANGED <<disk, cloud, doubt, unkept>>

--------------------------------------------------------------------------------
Next == \E u \in Updaters :
    \/ Open(u) \/ Close(u) \/ Die(u)
    \/ AddCloudStorageDependencyUpdateJob(u) \/ SetDownloadPath(u) \/ ExecuteUpdateJobs(u)
    \/ Exists(u) \/ Copy(u) \/ Insert(u) \/ Truncate(u) \/ Write(u) \/ ClearPending(u)
    \/ Fails(u) \/ Rollback(u) \/ RollbackFails(u) \/ RolledBack(u)

Spec == Init /\ [][Next]_vars

--------------------------------------------------------------------------------
(* The config on disk names only files that the bucket holds under their hash,  *)
(* whatever fails or dies on the way; except for a file that two programs       *)
(* upload at a time, or that is uploaded again by uploaders that were rolled    *)
(* back in part or had made backups, which then share one name; for a file that *)
(* changed after it was hashed; and for one whose upload an interrupt rolled    *)
(* back though the config was written.                                          *)
NamedIsStored ==
    disk # Torn => \A pl \in Platforms :
        \/ disk.hash[pl] \in doubt \cup unkept
        \/ cloud[disk.hash[pl]] = disk.hash[pl]

(* Two uploads of one name: the backup that the first made is overwritten with  *)
(* what it uploaded.                                                            *)
Overwritten(u, h) ==
    /\ up[u].before[h] # None
    /\ \E i, j \in DOMAIN up[u].pending :
        i < j /\ up[u].pending[i].hash = h /\ up[u].pending[j].hash = h /\ up[u].pending[i].backed

(* An update that failed and whose rollback went through has left the bucket,   *)
(* under the names of its uploads, as it was, whatever the objects were; but    *)
(* for what two programs upload or a second attempt does, as above, for an      *)
(* upload that was done though it seemed to fail, and for an object that two    *)
(* uploads of one attempt replaced.                                             *)
RollbackRestores == \A u \in Updaters :
    up[u].pc = "rollback" /\ up[u].at = 0 =>
        \A h \in Of(up[u].pending) \ doubt :
            \/ \E i \in DOMAIN up[u].pending : up[u].pending[i].hash = h /\ up[u].pending[i].unsure
            \/ Overwritten(u, h)
            \/ cloud[h] = up[u].before[h]
================================================================================
