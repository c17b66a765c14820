------------------------------ MODULE Dependencies -----------------------------
(* dependency_manager as BinaryManager uses it: processes that fetch the path   *)
(* of one dependency, each by its own config files, from local paths or from    *)
(* cloud storage, and unzip what they downloaded.  GetIfHashChanged is one step *)
(* here: it runs within the lock that CloudStorage shows to be exclusive, and   *)
(* replaces the file by a move.  Unzipping takes no lock.                       *)
EXTENDS Naturals, Sequences, SequencesExt

CONSTANTS
    Procs,          \* processes
    Default,        \* the platform "default"
    Wanted,         \* the platforms BinaryManager asks for, in turn
    Hashes,         \* versions of the archive
    Paths,          \* local paths
    Configs,        \* the sequences of configs a process may be given
    None,           \* no entry, no hash, no file
    MaxEvents       \* bound on failures, deaths and local files that come and go

(* A config has an entry or None for each platform.  An entry has local_paths,  *)
(* in groups of one or none (None), a cloud_storage_hash and, if the file is an *)
(* archive, a path_within_archive.                                              *)
Platforms == Range(Wanted) \cup {Default}
Members   == {"dependency", "rest"}
Empty     == [m \in Members |-> None]

Entries == [paths : Seq(Paths \cup {None}), hash : Hashes \cup {None}, zip : BOOLEAN]

ASSUME DependenciesAssumption ==
    /\ None \notin Hashes \cup Paths \cup Entries \cup {"remote"} /\ MaxEvents \in Nat
    /\ Wanted \in Seq(Platforms) \ {<<>>}
    /\ Configs \subseteq Seq([Platforms -> Entries \cup {None}])

VARIABLES
    configs,        \* the configs of each process
    mac,            \* the host unzips with ditto, not with zipfile
    local,          \* the local paths that exist
    file,           \* what is at download_path, per platform
    dir,            \* what is below unzip_path, per platform and hash
    job,            \* what each process is at
    events,         \* events so far
    spoilt          \* platforms and hashes whose file or directory a process changed under
                    \* another, or an error that the code lets pass left as it is (history)

disk == <<local, file, dir>>
vars == <<configs, mac, disk, job, events, spoilt>>

(* A call that is about to look up, or is over.  BinaryManager asks for one     *)
(* platform per turn.                                                           *)
Call(there, turn, prefetch, path) ==
    [pc |-> there, turn |-> turn, prefetch |-> prefetch, place |-> Default, hash |-> None,
     zip |-> FALSE, source |-> None, left |-> {}, path |-> path]

Started(turn, prefetch) == Call("lookup", turn, prefetch, None)

Ended(path) == Call("idle", 0, FALSE, path)

--------------------------------------------------------------------------------
(* The lookup table of a DependencyManager: DependencyInfo.Update and           *)
(* LocalPathInfo.Update for each config in turn.                                *)

(* A path that is there already is not added: its group is left empty. *)
Unknown(new, old) == [i \in DOMAIN new |-> IF new[i] \in Range(old) THEN None ELSE new[i]]

(* Mutant: later configs go first. *)
LatestFirst(old, new) == new \o Unknown(old, new)

Joined(old, new) == old \o Unknown(new, old)

Updated(old, new) ==
    IF old = None THEN new ELSE IF new = None THEN old
    ELSE [paths |-> Joined(old.paths, new.paths),
          hash  |-> IF old.hash = None THEN new.hash ELSE old.hash,
          zip   |-> IF old.hash = None THEN new.zip ELSE old.zip]

Table(cs) ==
    LET merged[i \in 0..Len(cs)] == [pl \in Platforms |->
            IF i = 0 THEN None ELSE Updated(merged[i - 1][pl], cs[i][pl])]
    IN  merged[Len(cs)]

(* A second config with cloud storage data is refused. *)
Accepted(cs) == \A pl \in Platforms :
    \A i, j \in DOMAIN cs : i # j /\ cs[i][pl] # None /\ cs[j][pl] # None
        => None \in {cs[i][pl].hash, cs[j][pl].hash}

(* _GetDependencyInfo *)
PlaceOf(table, pl) == IF table[pl] # None THEN pl ELSE Default

Existing(paths) == {i \in DOMAIN paths : paths[i] \in local}

FirstExisting(paths) == paths[Min(Existing(paths))]

--------------------------------------------------------------------------------
Jobs ==
    [pc : {"idle", "lookup", "fetch", "unzip?", "stale", "open", "extract", "again?", "exists?"},
     turn : 0..Len(Wanted), prefetch : BOOLEAN, place : Platforms, hash : Hashes \cup {None},
     zip : BOOLEAN, source : Hashes \cup {None}, left : SUBSET Members,
     path : Paths \cup {"remote", None}]

TypeOK ==
    /\ configs \in [Procs -> Configs] /\ mac \in BOOLEAN
    /\ local \subseteq Paths
    /\ file \in [Platforms -> Hashes \cup {None}]
    /\ dir \in [Platforms -> [Hashes -> [Members -> Hashes \cup {None}]]]
    /\ job \in [Procs -> Jobs]
    /\ events \in 0..MaxEvents
    /\ spoilt \subseteq Platforms \X Hashes

Init ==
    /\ configs \in [Procs -> {cs \in Configs : Accepted(cs)}] /\ mac \in BOOLEAN
    /\ local \in SUBSET Paths
    /\ file = [pl \in Platforms |-> None]
    /\ dir = [pl \in Platforms |-> [h \in Hashes |-> Empty]]
    /\ job = [p \in Procs |-> Ended(None)]
    /\ events = 0 /\ spoilt = {}

Event == events < MaxEvents /\ events' = events + 1

Go(p, there) == job' = [job EXCEPT ![p].pc = there]

Raise(p) == job' = [job EXCEPT ![p] = Ended(None)]

(* The result is kept until the next call. *)
Return(p, path) == job' = [job EXCEPT ![p] = Ended(path)]

(* NoPathFoundError: FetchPath of BinaryManager asks for the next platform. *)
NoPathFound(p) ==
    IF job[p].turn < Len(Wanted)
    THEN job' = [job EXCEPT ![p] = Started(job[p].turn + 1, FALSE)]
    ELSE Raise(p)

At(p) == <<job[p].place, job[p].hash>>

(* Those that are about the same platform's files and are not p. *)
Others(p, pcs) == {q \in Procs \ {p} : job[q].pc \in pcs /\ job[q].place = job[p].place}

Here(p) == dir[job[p].place][job[p].hash]

--------------------------------------------------------------------------------
FetchPath(p) ==
    /\ job[p].pc = "idle"
    /\ job' = [job EXCEPT ![p] = Started(1, FALSE)]
    /\ UNCHANGED <<configs, mac, disk, events, spoilt>>

(* For the platform without an OS version, as devil_env asks.  A download that  *)
(* fails is not tried again: the loop over the retries is left after the first. *)
PrefetchPaths(p) ==
    /\ job[p].pc = "idle"
    /\ job' = [job EXCEPT ![p] = Started(Len(Wanted), TRUE)]
    /\ UNCHANGED <<configs, mac, disk, events, spoilt>>

Lookup(p) ==
    /\ job[p].pc = "lookup"
    /\ LET table == Table(configs[p])
           place == PlaceOf(table, Wanted[job[p].turn])
           info  == table[place] IN
        \/ info = None /\ NoPathFound(p)
        \/ /\ info # None
           /\ \/ /\ Existing(info.paths) # {}
                 /\ Return(p, FirstExisting(info.paths))
              \/ Existing(info.paths) = {} /\ info.hash = None /\ NoPathFound(p)
              \/ /\ Existing(info.paths) = {} /\ info.hash # None
                 /\ job' = [job EXCEPT ![p].pc = "fetch", ![p].place = place,
                                       ![p].hash = info.hash, ![p].zip = info.zip]
    /\ UNCHANGED <<configs, mac, disk, events, spoilt>>

(* Replacing the file disturbs those that have yet to open the one they got. *)
Got(p, version) ==
    /\ file' = [file EXCEPT ![job[p].place] = version]
    /\ spoilt' = spoilt \cup {At(q) : q \in
        {q \in Others(p, {"unzip?", "stale", "open", "exists?"}) \cup {p} : job[q].hash # version}}
    /\ Go(p, IF job[p].zip THEN "unzip?" ELSE "exists?")
    /\ UNCHANGED <<configs, mac, local, dir>>

GetIfHashChanged(p) ==
    /\ job[p].pc = "fetch"
    /\ Got(p, job[p].hash)
    /\ UNCHANGED events

(* What is downloaded is not hashed: it may be another version than the name    *)
(* of the object says.                                                          *)
WrongDownload(p) ==
    /\ job[p].pc = "fetch"
    /\ file[job[p].place] # job[p].hash
    /\ Event
    /\ \E version \in Hashes \ {job[p].hash} : Got(p, version)

DownloadFails(p) ==
    /\ job[p].pc = "fetch"
    /\ file[job[p].place] # job[p].hash
    /\ Event
    /\ Raise(p)
    /\ UNCHANGED <<configs, mac, disk, spoilt>>

DependencyIsMissing(d) == d["dependency"] = None

ShouldUnzip(p) ==
    /\ job[p].pc = "unzip?"
    /\ Go(p, IF DependencyIsMissing(Here(p)) THEN "stale" ELSE "exists?")
    /\ UNCHANGED <<configs, mac, disk, events, spoilt>>

(* stale_unzip_path_glob: rmtree of the directories of all hashes, whoever uses *)
(* them, one file after the other.                                              *)
RemoveStale(p) ==
    /\ job[p].pc = "stale"
    /\ \E h \in Hashes, m \in Members :
        /\ dir[job[p].place][h][m] # None
        /\ dir' = [dir EXCEPT ![job[p].place][h][m] = None]
        /\ spoilt' = spoilt \cup {<<job[p].place, h>>}
    /\ UNCHANGED <<configs, mac, local, file, job, events>>

(* Errors are ignored, so anything may be left.  Nobody takes a directory       *)
(* without its dependency for one that has been unzipped.                       *)
StaleRemoved(p) ==
    /\ job[p].pc = "stale"
    /\ spoilt' =
        IF \/ Others(p, {"unzip?", "stale", "open", "extract", "again?", "exists?"}) # {}
           \/ file[job[p].place] # job[p].hash
        THEN spoilt
        ELSE {x \in spoilt : x[1] = job[p].place => dir[x[1]][x[2]]["dependency"] # None}
    /\ Go(p, "open")
    /\ UNCHANGED <<configs, mac, disk, events>>

OpenArchive(p) ==
    /\ job[p].pc = "open"
    /\ job' = [job EXCEPT ![p].pc = "extract", ![p].source = file[job[p].place],
                          ![p].left = Members]
    /\ UNCHANGED <<configs, mac, disk, events, spoilt>>

(* The file may be no archive, if it is not the one that was asked for. *)
NotAnArchive(p) ==
    /\ job[p].pc = "open" /\ file[job[p].place] # job[p].hash
    /\ Raise(p)
    /\ UNCHANGED <<configs, mac, disk, events, spoilt>>

Extract(p) ==
    /\ job[p].pc = "extract"
    /\ \E m \in job[p].left :
        /\ dir' = [dir EXCEPT ![job[p].place][job[p].hash][m] = job[p].source]
        /\ job' = [job EXCEPT ![p].left = @ \ {m}]
    /\ UNCHANGED <<configs, mac, local, file, events, spoilt>>

(* Mutant: what was extracted stays. *)
LeftThere(d, kept) == d

(* RemoveDir, of the directory of this hash, which may itself fail half-way. *)
AfterFailure(d, kept) == [m \in Members |-> IF m \in kept THEN d[m] ELSE None]

Abandoned(p) ==
    /\ \E kept \in SUBSET Members :
        /\ dir' = [dir EXCEPT ![job[p].place][job[p].hash] = AfterFailure(@, kept)]
        /\ spoilt' = spoilt \cup {At(q) : q \in
            {q \in Others(p, {"extract", "again?", "exists?"}) : job[q].hash = job[p].hash}
                \cup (IF kept = {} THEN {} ELSE {p})}
    /\ Raise(p)

ExtractFails(p) ==
    /\ job[p].pc = "extract" /\ job[p].left # {} /\ ~mac
    /\ Event
    /\ Abandoned(p)
    /\ UNCHANGED <<configs, mac, local, file>>

(* Nobody looks at the exit status of ditto. *)
DittoFails(p) ==
    /\ job[p].pc = "extract" /\ job[p].left # {} /\ mac
    /\ Event
    /\ spoilt' = spoilt \cup {At(p)}
    /\ Go(p, "again?")
    /\ UNCHANGED <<configs, mac, disk>>

(* The dependency is executable: SetUnzippedDirPermissions looks for it, where  *)
(* there was no ditto.                                                          *)
SetPermissions(p) ==
    /\ job[p].pc = "extract" /\ job[p].left = {}
    /\ \/ DependencyIsMissing(Here(p)) /\ ~mac /\ Abandoned(p)
       \/ /\ mac \/ ~DependencyIsMissing(Here(p))
          /\ Go(p, "again?") /\ UNCHANGED <<dir, spoilt>>
    /\ UNCHANGED <<configs, mac, local, file, events>>

(* ArchiveError if it is not there after all *)
LookAgain(p) ==
    /\ job[p].pc = "again?"
    /\ IF DependencyIsMissing(Here(p)) THEN Raise(p) ELSE Go(p, "exists?")
    /\ UNCHANGED <<configs, mac, disk, events, spoilt>>

Found(p) == IF job[p].zip THEN Here(p)["dependency"] # None ELSE file[job[p].place] # None

(* PrefetchPaths does not look again. *)
ReturnRemote(p) ==
    /\ job[p].pc = "exists?"
    /\ IF Found(p) \/ job[p].prefetch THEN Return(p, "remote") ELSE NoPathFound(p)
    /\ UNCHANGED <<configs, mac, disk, events, spoilt>>

Die(p) ==
    /\ job[p].pc # "idle"
    /\ Event
    /\ spoilt' = IF job[p].pc = "extract" /\ job[p].left # {} THEN spoilt \cup {At(p)} ELSE spoilt
    /\ Raise(p)
    /\ UNCHANGED <<configs, mac, disk>>

LocalChange ==
    /\ Event
    /\ \E x \in Paths : local' = IF x \in local THEN local \ {x} ELSE local \cup {x}
    /\ UNCHANGED <<configs, mac, file, dir, job, spoilt>>

--------------------------------------------------------------------------------
GetUnzippedPath(p) ==
    \/ ShouldUnzip(p) \/ RemoveStale(p) \/ StaleRemoved(p)
    \/ OpenArchive(p) \/ NotAnArchive(p) \/ Extract(p) \/ ExtractFails(p) \/ DittoFails(p)
    \/ SetPermissions(p) \/ LookAgain(p)

Next ==
    \/ \E p \in Procs :
        \/ FetchPath(p) \/ PrefetchPaths(p) \/ Lookup(p)
        \/ GetIfHashChanged(p) \/ WrongDownload(p) \/ DownloadFails(p)
        \/ GetUnzippedPath(p) \/ ReturnRemote(p) \/ Die(p)
    \/ LocalChange

Spec == Init /\ [][Next]_vars

--------------------------------------------------------------------------------
(* A call that returns a downloaded path finds there the whole version its      *)
(* config names.  Excepted are the versions that another process is extracting  *)
(* at the time; whose file a process with another version replaced, or whose    *)
(* directory it began to remove, under this one or and then stopped half-way;   *)
(* of which a download brought another version; and whose extraction ended with *)
(* a death, with a failed ditto, or with a RemoveDir that failed too.           *)
ReturnedIsWhole == [][\A p \in Procs :
    /\ job[p].pc = "exists?" /\ job'[p].path = "remote"
    /\ At(p) \notin spoilt
    /\ \A q \in Others(p, {"extract"}) : job[q].hash # job[p].hash
    => IF job[p].zip THEN Here(p) = [m \in Members |-> job[p].hash]
                     ELSE file[job[p].place] = job[p].hash]_vars

(* A call that returns a local path returns one of the first config that has a  *)
(* path that exists for the platform, and the first of these.                   *)
LocalPathsInOrder == [][\A p \in Procs :
    job[p].pc = "lookup" /\ job'[p].path \in Paths =>
        LET cs    == configs[p]
            pl    == Wanted[job[p].turn]
            place == IF \E i \in DOMAIN cs : cs[i][pl] # None THEN pl ELSE Default
            has   == {i \in DOMAIN cs : cs[i][place] # None /\ Existing(cs[i][place].paths) # {}}
        IN  \E i \in has : /\ \A j \in has : i <= j
                           /\ job'[p].path = FirstExisting(cs[i][place].paths)]_vars
================================================================================
