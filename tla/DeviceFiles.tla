------------------------------ MODULE DeviceFiles ------------------------------
(* devil.android.device_utils: pushing changed files to a device, the cache of  *)
(* the checksums of pushed files, and the token by which a cache dumped by one  *)
(* session is recognised as stale by the next.  A checksum is modelled by the   *)
(* content it identifies.  A try of PushChangedFiles that times out is given up *)
(* and made again; its thread goes on as the "late" one.                        *)
EXTENDS Naturals, FiniteSets, Functions

CONSTANTS
    Files,          \* device paths of the directory pushed, one host file each
    Contents,       \* what a file may hold
    Absent,         \* no such file; no entry in the cache
    Torn,           \* what a push that broke off leaves on the device
    Retries,        \* retries of PushChangedFiles
    MaxEvents       \* bound on what happens around the calls

ASSUME FilesAssumption ==
    /\ Absent \notin Contents /\ Torn \notin Contents /\ Absent # Torn
    /\ Retries \in Nat /\ MaxEvents \in Nat

VARIABLES
    caching,        \* _enable_device_files_cache
    host, device,   \* the files on the host and on the device
    cache,          \* _cache['device_path_checksums']
    token,          \* _cache['token'] is set
    prev,           \* _cache['prev_token'] is the token of the last dump
    marks,          \* whose token the device holds: the session's, the last dump's
    dump,           \* device_path_checksums of the last dump
    call,           \* per thread: the call of PushChangedFiles it makes
    try,            \* number of the try the live thread makes
    events,         \* edits, writes, timeouts and ends of sessions so far
    doubt,          \* files whose entry in the cache nobody keeps up (history)
    raced,          \* files changed by others behind the live try, or whose sums on
                    \* the device may be those of other files (history)
    edited,         \* the same of the files on the host (history)
    dumpDoubt       \* the same of the dump, unless the token tells (history)

session == <<token, prev, marks, dump, dumpDoubt>>
vars    == <<caching, host, device, cache, session, call, try, events, doubt, raced,
             edited>>

Threads == {"live", "late"}
Sums    == [Files -> Contents \cup {Absent, Torn}]
Nothing == [f \in Files |-> Absent]
On(s)   == {f \in Files : s[f] # Absent}
Idle    == [pc |-> "idle", stale |-> FALSE, tuples |-> {}, nodes |-> {}, sums |-> Nothing,
            found |-> Nothing, remove |-> {}, todo |-> {}, archive |-> Nothing, pushed |-> {},
            commits |-> FALSE, astray |-> FALSE]

TypeOK ==
    /\ caching \in BOOLEAN
    /\ host \in [Files -> Contents \cup {Absent}]
    /\ device \in Sums /\ cache \in Sums /\ dump \in Sums
    /\ token \in BOOLEAN /\ prev \in BOOLEAN
    /\ marks \subseteq {"session", "dump"}
    /\ call \in [Threads ->
        [pc : {"idle", "nodes", "sums", "compare", "remove", "pack", "push"}, stale : BOOLEAN,
         tuples : SUBSET Files, nodes : SUBSET Files, sums : Sums, found : Sums,
         remove : SUBSET Files, todo : SUBSET Files, archive : Sums, pushed : SUBSET Files,
         commits : BOOLEAN, astray : BOOLEAN]]
    /\ try \in 1..(Retries + 1) /\ events \in 0..MaxEvents
    /\ doubt \subseteq Files /\ dumpDoubt \subseteq Files
    /\ raced \subseteq Files /\ edited \subseteq Files

Init ==
    /\ caching \in BOOLEAN
    /\ host \in [Files -> Contents]
    /\ device = Nothing /\ cache = Nothing /\ dump = Nothing
    /\ token = FALSE /\ prev = FALSE /\ marks = {}
    /\ call = [t \in Threads |-> Idle]
    /\ try = 1 /\ events = 0
    /\ doubt = {} /\ dumpDoubt = {} /\ raced = {} /\ edited = {}

Event == events < MaxEvents /\ events' = events + 1

--------------------------------------------------------------------------------
(* The token.                                                                   *)

(* A change of files that does not change the token with it. *)
Unmarked(fs) == dumpDoubt' = IF "dump" \in marks THEN dumpDoubt \cup fs ELSE {}

(* A change of files that the live thread does, or does not do. *)
Touched(t, fs) ==
    raced' = IF t = "live" \/ call["live"] = Idle THEN raced \ fs ELSE raced \cup fs

EnsureCacheInitialized ==
    \/ /\ token
       /\ UNCHANGED <<token, prev, marks, dumpDoubt>>
    \/ /\ ~token
       /\ token' = TRUE
       /\ prev' = ("dump" \in marks)
       /\ marks' = {"session"}
       /\ dumpDoubt' = {}

(* Mutant of LoadCacheData: any dump will do. *)
LoadAny ==
    /\ ~token /\ cache = Nothing /\ call["live"] = Idle
    /\ EnsureCacheInitialized
    /\ cache' = dump
    /\ doubt' = dumpDoubt
    /\ UNCHANGED <<caching, host, device, dump, call, try, raced, edited>>

(* A session loads a dump, if it does, before it does anything else. *)
LoadCacheData ==
    /\ ~token /\ cache = Nothing /\ call["live"] = Idle
    /\ EnsureCacheInitialized
    /\ IF prev' THEN cache' = dump /\ doubt' = dumpDoubt
                ELSE UNCHANGED <<cache, doubt>>
    /\ UNCHANGED <<caching, host, device, dump, call, try, raced, edited>>

DumpCacheData ==
    /\ call["live"] = Idle
    /\ token' = TRUE
    /\ prev' = FALSE
    /\ marks' = IF token /\ "session" \notin marks THEN {} ELSE {"session", "dump"}
    /\ dump' = cache
    /\ dumpDoubt' = IF "dump" \in marks' THEN doubt ELSE {}
    /\ UNCHANGED <<caching, host, device, cache, call, try, doubt, raced, edited>>

(* The process ends, whatever it was doing, and another begins. *)
NewSession ==
    /\ call' = [t \in Threads |-> Idle]
    /\ cache' = Nothing
    /\ doubt' = {} /\ raced' = {} /\ edited' = {}
    /\ token' = FALSE
    /\ prev' = FALSE
    /\ marks' = marks \ {"session"}
    /\ caching' \in BOOLEAN
    /\ try' = 1
    /\ UNCHANGED <<host, device, dump, dumpDoubt>>

--------------------------------------------------------------------------------
(* PushChangedFiles.                                                            *)

PushChangedFiles(stale) ==
    /\ call["live"] = Idle
    /\ call' = [call EXCEPT !["live"] = [Idle EXCEPT !.pc = "nodes", !.stale = stale]]
    /\ try' = 1
    /\ raced' = {} /\ edited' = {}
    /\ UNCHANGED <<caching, host, device, cache, session, doubt>>

(* A try ends without a value; a live one is made again while retries are left. *)
GiveUp(t, fs) ==
    IF t = "late"
    THEN call' = [call EXCEPT !["late"] = Idle] /\ Touched(t, fs) /\ UNCHANGED <<try, edited>>
    ELSE LET again == [Idle EXCEPT !.pc = "nodes", !.stale = call["live"].stale] IN
         /\ call' = [call EXCEPT !["live"] = IF try <= Retries THEN again ELSE Idle]
         /\ try' = IF try <= Retries THEN try + 1 ELSE 1
         /\ raced' = {} /\ edited' = {}

(* A thread raises; `fs` are the files its last command may have changed. *)
Raise(t, fs) ==
    /\ GiveUp(t, fs)
    /\ doubt' = doubt \cup call[t].pushed \cup fs
    /\ Unmarked(fs)
    /\ UNCHANGED <<caching, host, cache, token, prev, marks, dump>>

TimeOut ==
    /\ call["live"] # Idle /\ call["late"] = Idle
    /\ LET again == [Idle EXCEPT !.pc = "nodes", !.stale = call["live"].stale] IN
       /\ call' = [live |-> IF try <= Retries THEN again ELSE Idle,
                   late |-> [call["live"] EXCEPT !.pushed = {}]]
       /\ try' = IF try <= Retries THEN try + 1 ELSE 1
    /\ doubt' = doubt \cup call["live"].pushed
    /\ raced' = {} /\ edited' = {}
    /\ UNCHANGED <<caching, host, device, cache, session>>

(* Walking the host directory and listing the device one.  With nothing to push *)
(* the stale files are removed and the directory is pushed as it is; if they    *)
(* are to stay, `current_device_nodes` is used before it is set.                *)
GetDeviceNodes(t) ==
    LET c == call[t] IN
    /\ c.pc = "nodes"
    /\ \/ /\ On(host) # {}
          /\ call' = [call EXCEPT ![t].pc = "sums", ![t].tuples = On(host), ![t].nodes = On(device)]
          /\ UNCHANGED <<session, try, doubt, raced, edited, cache>>
       \/ /\ On(host) = {} /\ c.stale
          /\ call' = [call EXCEPT ![t].pc = "remove", ![t].remove = On(device)]
          /\ UNCHANGED <<session, try, doubt, raced, edited, cache>>
       \/ On(host) = {} /\ ~c.stale /\ Raise(t, {})
    /\ UNCHANGED <<caching, host, device>>

(* The files whose checksum must be had from the device, and from the host. *)
Asked(c) ==
    LET stale == c.tuples \cap c.nodes IN IF caching THEN stale \ On(cache) ELSE stale

HostAsked(c) == IF caching THEN c.tuples ELSE c.tuples \cap c.nodes

(* md5sum prints a line for each file that is there and can be read, and the    *)
(* lines are zipped with the paths asked for: when a file gives none, lines     *)
(* move up to the paths of other files.                                         *)
Lines(paths, lines) ==
    IF lines = paths THEN {[f \in paths |-> f]} ELSE {l \in [lines -> paths] : IsInjective(l)}

Md5Sums(paths, files, mute) ==
    LET lines == (paths \cap On(files)) \ mute IN
    {[f \in Files |-> IF \E g \in lines : l[g] = f
                      THEN files[CHOOSE g \in lines : l[g] = f] ELSE Absent] :
        l \in Lines(paths, lines)}

Whole(paths, files, mute) == paths \subseteq On(files) \ mute

CalculateChecksums(t, mute) ==
    LET c == call[t] IN
    /\ c.pc = "sums"
    /\ IF Asked(c) # {} THEN EnsureCacheInitialized ELSE UNCHANGED <<token, prev, marks, dumpDoubt>>
    /\ \E sums \in Md5Sums(HostAsked(c), host, mute), asked \in Md5Sums(Asked(c), device, mute) :
         call' = [call EXCEPT ![t].pc = "compare", ![t].sums = sums, ![t].found =
                    [f \in Files |-> IF f \in Asked(c) THEN asked[f]
                                     ELSE IF f \in c.tuples \cap c.nodes THEN cache[f] ELSE Absent]]
    /\ edited' = IF t = "live" /\ ~Whole(HostAsked(c), host, mute) THEN edited \cup HostAsked(c)
                 ELSE edited
    /\ IF t = "live" /\ Whole(Asked(c), device, mute)
       THEN /\ doubt' = IF caching THEN doubt \ Asked(c) ELSE doubt
            /\ raced' = raced \ Asked(c)
       ELSE IF t = "live"
       THEN /\ doubt' = IF caching THEN doubt \cup Asked(c) ELSE doubt
            /\ raced' = raced \cup Asked(c)
       ELSE UNCHANGED <<doubt, raced>>
    /\ UNCHANGED <<caching, host, device, cache, dump, try>>

(* Without checksums everything is pushed, and nothing is removed or remembered. *)
CalculateChecksumsFails(t) ==
    LET c == call[t] IN
    /\ c.pc = "sums" /\ Asked(c) # {}
    /\ EnsureCacheInitialized
    /\ call' = [call EXCEPT ![t] = [c EXCEPT !.pc = "pack", !.todo = c.tuples]]
    /\ UNCHANGED <<caching, host, device, cache, dump, try, doubt, raced, edited>>

(* Mutant of Changed: what has no checksum on the device is taken for present. *)
ChangedKnown(c) == {f \in c.tuples : c.found[f] # Absent /\ c.found[f] # c.sums[f]}

Changed(c) == {f \in c.tuples : c.found[f] = Absent \/ c.found[f] # c.sums[f]}

(* The checksums found are stored, also those that came from the cache. *)
GetChangedFiles(t) ==
    LET c    == call[t]
        kept == [f \in Files |-> IF caching /\ c.found[f] # Absent THEN c.found[f] ELSE cache[f]]
        rm   == (c.nodes \ c.tuples) \cup (Changed(c) \cap c.nodes)
    IN
    /\ c.pc = "compare"
    /\ cache' = kept
    /\ doubt' = IF t = "live" THEN doubt ELSE doubt \cup {f \in Files : kept[f] # cache[f]}
    /\ call' = [call EXCEPT ![t].todo = Changed(c), ![t].commits = TRUE,
                            ![t].nodes = {}, ![t].found = Nothing,
                            ![t].remove = IF c.stale THEN rm ELSE {},
                            ![t].pc = IF c.stale /\ rm # {} THEN "remove" ELSE "pack"]
    /\ UNCHANGED <<caching, host, device, session, try, raced, edited>>

RemovePath(t) ==
    LET gone == call[t].remove IN
    /\ call[t].pc = "remove"
    /\ device' = [f \in Files |-> IF f \in gone THEN Absent ELSE device[f]]
    /\ call' = [call EXCEPT ![t].pc = "pack", ![t].remove = {}]
    /\ Touched(t, gone)
    /\ doubt' = IF t = "late" THEN doubt \cup gone ELSE doubt
    /\ Unmarked(gone)
    /\ UNCHANGED <<caching, host, cache, token, prev, marks, dump, try, edited>>

(* The changed files are pushed one by one, or packed into an archive, as they  *)
(* are then, if they are all there.  Without checksums there are no changed     *)
(* files but the directory itself, which adb puts below the one on the device;  *)
(* the archive has its files in their places.                                   *)
PushFilesImpl(t) ==
    LET c     == call[t]
        files == IF c.commits THEN c.todo ELSE On(host)
        push  == [c EXCEPT !.pc = "push"] IN
    /\ c.pc = "pack"
    /\ \/ /\ c.commits \/ c.tuples = {}
          /\ call' = [call EXCEPT ![t] = push]
       \/ /\ ~c.commits /\ c.tuples # {}
          /\ call' = [call EXCEPT ![t] = [push EXCEPT !.todo = {}, !.astray = TRUE]]
       \/ /\ files # {} /\ files \subseteq On(host) /\ c.tuples # {}
          /\ call' = [call EXCEPT ![t] = [push EXCEPT !.todo = files, !.archive =
                        [f \in Files |-> IF f \in files THEN host[f] ELSE Absent]]]
    /\ UNCHANGED <<caching, host, device, cache, session, try, doubt, raced, edited>>

Push(t, f) ==
    LET c     == call[t]
        local == IF c.archive = Nothing THEN host[f] ELSE c.archive[f] IN
    /\ c.pc = "push" /\ f \in c.todo /\ local # Absent
    /\ device' = [device EXCEPT ![f] = local]
    /\ call' = [call EXCEPT ![t].todo = @ \ {f},
                            ![t].pushed = IF t = "live" THEN @ \cup {f} ELSE @]
    /\ Touched(t, {f})
    /\ doubt' = IF caching /\ t = "live" THEN doubt \ {f} ELSE doubt \cup {f}
    /\ Unmarked({f})
    /\ UNCHANGED <<caching, host, cache, token, prev, marks, dump, try, edited>>

(* VerifyLocalFileExists. *)
PushMissing(t) ==
    LET c == call[t] IN
    /\ c.pc = "push" /\ c.archive = Nothing /\ c.todo \ On(host) # {}
    /\ Raise(t, {})
    /\ UNCHANGED device

(* A command to the device fails, and may have been carried out in part. *)
CommandFails(t) ==
    LET c == call[t] IN
    \/ c.pc = "nodes" /\ Raise(t, {}) /\ UNCHANGED device
    \/ /\ c.pc = "remove"
       /\ \E gone \in SUBSET c.remove :
            /\ device' = [f \in Files |-> IF f \in gone THEN Absent ELSE device[f]]
            /\ Raise(t, gone)
    \/ /\ c.pc = "push"
       /\ \E f \in c.todo :
            /\ device' \in {device, [device EXCEPT ![f] = Torn]}
            /\ Raise(t, {f})

Committed(c) ==
    [f \in Files |-> IF caching /\ c.commits /\ f \in c.tuples THEN c.sums[f] ELSE cache[f]]

Commit(t) ==
    LET c == call[t] IN
    /\ c.pc = "push" /\ c.todo = {}
    /\ cache' = Committed(c)
    /\ doubt' = IF t = "late" THEN doubt \cup {f \in Files : cache'[f] # cache[f]}
                ELSE doubt \cup IF c.commits THEN c.tuples \cap edited ELSE c.pushed
    /\ call' = [call EXCEPT ![t] = Idle]
    /\ IF t = "live" THEN try' = 1 /\ raced' = {} /\ edited' = {}
       ELSE UNCHANGED <<try, raced, edited>>
    /\ UNCHANGED <<caching, host, device, session>>

--------------------------------------------------------------------------------
(* The surroundings.                                                            *)

(* The host's files change at any time, also while they are compared and pushed. *)
Edit(f) ==
    /\ \E c \in (Contents \cup {Absent}) \ {host[f]} : host' = [host EXCEPT ![f] = c]
    /\ edited' = IF call["live"] = Idle THEN edited ELSE edited \cup {f}
    /\ UNCHANGED <<caching, device, cache, session, call, try, doubt, raced>>

(* WriteFile, RemovePath or adb, by whatever program. *)
WriteFile(f) ==
    /\ \E c \in (Contents \cup {Absent}) \ {device[f]} : device' = [device EXCEPT ![f] = c]
    /\ Touched("late", {f})
    /\ doubt' = doubt \cup {f}
    /\ Unmarked({f})
    /\ UNCHANGED <<caching, host, cache, token, prev, marks, dump, call, try, edited>>

(* A push by a session of another process, which writes its token before it. *)
OtherPush(f) ==
    /\ \E c \in Contents \ {device[f]} : device' = [device EXCEPT ![f] = c]
    /\ Touched("late", {f})
    /\ doubt' = doubt \cup {f}
    /\ marks' = {}
    /\ dumpDoubt' = {}
    /\ UNCHANGED <<caching, host, cache, token, prev, dump, call, try, edited>>

Step(t) ==
    \/ GetDeviceNodes(t) \/ CalculateChecksums(t, {}) \/ GetChangedFiles(t) \/ RemovePath(t)
    \/ PushFilesImpl(t) \/ PushMissing(t) \/ Commit(t)
    \/ \E f \in Files : Push(t, f)

Next ==
    \/ /\ \/ LoadCacheData \/ DumpCacheData
          \/ \E stale \in BOOLEAN : PushChangedFiles(stale)
          \/ \E t \in Threads : Step(t)
       /\ UNCHANGED events
    \/ /\ \/ NewSession \/ TimeOut
          \/ \E t \in Threads : CommandFails(t) \/ CalculateChecksumsFails(t)
          \/ \E t \in Threads : \E f \in Files : CalculateChecksums(t, {f})
          \/ \E f \in Files : Edit(f) \/ WriteFile(f) \/ OtherPush(f)
       /\ Event

Spec == Init /\ [][Next]_vars

--------------------------------------------------------------------------------
(* A cached checksum is that of the file on the device, unless the file was     *)
(* changed with no record of it in this cache: by a program that does not use   *)
(* it, by a push that failed or was given up, or by one during which the host's *)
(* file was edited or a file gave md5sum no line, so that the sums committed    *)
(* are not those of what was pushed.  A dump that is loaded is as good as that  *)
(* too: what a session with a token of its own did in between is never taken    *)
(* over unnoticed.                                                              *)
CacheAgrees ==
    caching => \A f \in On(cache) \cap On(device) :
        f \in doubt \cup call["live"].pushed \/ cache[f] = device[f]

(* When PushChangedFiles returns and the checksums could be had, the device     *)
(* holds the files of the host, but for those that changed on either side       *)
(* during the call, or whose sums may be those of other files, and with the     *)
(* cache those whose entry nobody keeps up.                                     *)
PushedIsThere ==
    LET c == call["live"] IN
    c.pc = "push" /\ c.todo = {} /\ ~c.astray =>
        \A f \in c.tuples :
            f \in raced \cup edited \/ (caching /\ f \in doubt) \/ device[f] = host[f]
================================================================================
