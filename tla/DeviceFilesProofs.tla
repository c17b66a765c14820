--------------------------- MODULE DeviceFilesProofs ---------------------------
(* What the cache of checksums promises, for any files and contents, any number *)
(* of retries, and any number of edits, failures, timeouts and sessions.        *)
EXTENDS DeviceFiles, TLAPS

(* The calls of the two threads: files are pushed of those that were found to   *)
(* push.                                                                        *)
CallsInv ==
    LET c == call["live"] IN
    /\ call["late"].pushed = {}
    /\ c.pc # "push" => c.pushed = {} /\ ~c.astray
    /\ c.pc = "idle" => c = Idle
    /\ c.pc = "nodes" => c.tuples = {}
    /\ c.pc \in {"nodes", "sums", "compare"} => c.todo = {} /\ ~c.commits
    /\ c.pc # "remove" => c.remove = {}
    /\ c.commits => c.pushed \cup c.todo \subseteq c.tuples /\ ~c.astray
    /\ c.pc \in {"remove", "pack"} /\ ~c.commits => c.todo = c.tuples
    /\ c.remove \cap c.tuples \subseteq c.todo
    /\ ~caching => c.pushed \subseteq doubt

(* What others change behind a call they change behind the cache.               *)
RacedInv == caching /\ call["live"] # Idle => raced \subseteq doubt

(* The checksums of the host, the files walked and those packed are of the host *)
(* files as they still are, but for the edited ones.                            *)
HostInv ==
    LET c == call["live"] IN
    /\ c.pc = "compare" =>
        /\ On(c.found) \subseteq HostAsked(c)
        /\ \A f \in HostAsked(c) : f \in edited \/ c.sums[f] = host[f]
    /\ c.commits /\ caching => \A f \in c.tuples : f \in edited \/ c.sums[f] = host[f]
    /\ \A f \in c.tuples : f \in edited \/ host[f] # Absent
    /\ \A f \in On(c.archive) : f \in edited \/ c.archive[f] = host[f]

(* A file that changed on the device, or whose cached checksum is not kept up.  *)
Unkept(f)   == f \in raced \/ (caching /\ f \in doubt)
Excepted(f) == Unkept(f) \/ f \in edited

ListInv  == call["live"].pc = "sums" => call["live"].nodes \subseteq On(device) \cup raced

FoundInv ==
    call["live"].pc = "compare" =>
        \A f \in On(call["live"].found) : Unkept(f) \/ call["live"].found[f] = device[f]

PushInv ==
    LET c == call["live"] IN
    c.pc \in {"remove", "pack", "push"} /\ ~c.astray =>
        \A f \in c.tuples \ c.todo : Excepted(f) \/ device[f] = host[f]

(* CacheAgrees, with the cache or without: a dump may be of either session.     *)
CacheInv ==
    \A f \in On(cache) \cap On(device) :
        f \in doubt \cup call["live"].pushed \/ cache[f] = device[f]

(* The same of the dump, while the token tells that it may be loaded.           *)
DumpInv ==
    "dump" \in marks =>
        \A f \in On(dump) \cap On(device) : f \in dumpDoubt \/ dump[f] = device[f]

LiveInv == CallsInv /\ HostInv /\ RacedInv /\ ListInv /\ FoundInv /\ PushInv
IInv    == TypeOK /\ LiveInv /\ CacheInv /\ DumpInv

--------------------------------------------------------------------------------
(* Types.                                                                       *)

CallType ==
    [pc : {"idle", "nodes", "sums", "compare", "remove", "pack", "push"}, stale : BOOLEAN,
     tuples : SUBSET Files, nodes : SUBSET Files, sums : Sums, found : Sums,
     remove : SUBSET Files, todo : SUBSET Files, archive : Sums, pushed : SUBSET Files,
     commits : BOOLEAN, astray : BOOLEAN]

LEMMA IdleType ==
    /\ Idle \in CallType
    /\ \A s \in BOOLEAN : [Idle EXCEPT !.pc = "nodes", !.stale = s] \in CallType
<1>1. Nothing \in Sums
    BY DEF Nothing, Sums
<1> QED
    BY <1>1 DEF Idle, CallType

LEMMA Types ==
    ASSUME TypeOK
    PROVE  /\ call \in [Threads -> CallType]
           /\ host \in Sums
           /\ \A t \in Threads : call[t] \in CallType
           /\ "live" \in Threads /\ "late" \in Threads
    BY DEF TypeOK, CallType, Sums, Threads

(* The call of one thread changes. *)
LEMMA OneCall ==
    ASSUME TypeOK, NEW t \in Threads, NEW new \in CallType, call' = [call EXCEPT ![t] = new]
    PROVE  /\ call' \in [Threads -> CallType]
           /\ call'[t] = new
           /\ \A u \in Threads : u # t => call'[u] = call[u]
    BY Types

LEMMA EnsureType ==
    ASSUME TypeOK, EnsureCacheInitialized
    PROVE  /\ token' \in BOOLEAN /\ prev' \in BOOLEAN
           /\ marks' \subseteq {"session", "dump"} /\ dumpDoubt' \subseteq Files
<1>1. CASE UNCHANGED <<token, prev, marks, dumpDoubt>>
    BY <1>1 DEF TypeOK
<1>2. CASE token' = TRUE /\ prev' = ("dump" \in marks) /\ marks' = {"session"} /\ dumpDoubt' = {}
  <2>1. prev' \in BOOLEAN
      BY <1>2
  <2> QED
      BY <1>2, <2>1
<1> QED
    BY <1>1, <1>2 DEF EnsureCacheInitialized

LEMMA GiveUpType ==
    ASSUME TypeOK, NEW t \in Threads, NEW fs \in SUBSET Files, GiveUp(t, fs)
    PROVE  /\ call' \in [Threads -> CallType]
           /\ try' \in 1..(Retries + 1)
           /\ raced' \subseteq Files /\ edited' \subseteq Files
<1>1. call["live"].stale \in BOOLEAN
    BY Types DEF CallType
<1>2. CASE t = "late"
    BY <1>2, IdleType, OneCall DEF GiveUp, Touched, TypeOK
<1>3. CASE t = "live"
  <2> DEFINE again == [Idle EXCEPT !.pc = "nodes", !.stale = call["live"].stale]
             new   == IF try <= Retries THEN again ELSE Idle
  <2>1. /\ call' = [call EXCEPT !["live"] = new]
        /\ try' = IF try <= Retries THEN try + 1 ELSE 1
        /\ raced' = {} /\ edited' = {}
      BY <1>3 DEF GiveUp
  <2>2. new \in CallType
      BY <1>1, IdleType
  <2> HIDE DEF new
  <2>3. call' \in [Threads -> CallType]
      BY <2>1, <2>2, OneCall, Types
  <2>4. try' \in 1..(Retries + 1)
      BY <2>1, FilesAssumption DEF TypeOK
  <2> QED
      BY <2>1, <2>3, <2>4
<1> QED
    BY <1>2, <1>3 DEF Threads

LEMMA RaiseType ==
    ASSUME TypeOK, NEW t \in Threads, NEW fs \in SUBSET Files, Raise(t, fs),
           device' \in Sums, events' \in 0..MaxEvents
    PROVE  TypeOK'
<1>1. /\ call' \in [Threads -> CallType]
      /\ try' \in 1..(Retries + 1)
      /\ raced' \subseteq Files /\ edited' \subseteq Files
    BY GiveUpType DEF Raise
<1>2. doubt' \subseteq Files
    BY Types DEF Raise, CallType, TypeOK
<1>3. dumpDoubt' \subseteq Files
    BY DEF Raise, Unmarked, TypeOK
<1>4. UNCHANGED <<caching, host, cache, token, prev, marks, dump>>
    BY DEF Raise
<1> QED
    BY <1>1, <1>2, <1>3, <1>4 DEF TypeOK, CallType

LEMMA SessionType ==
    ASSUME TypeOK, UNCHANGED events,
           \/ LoadCacheData \/ DumpCacheData
           \/ \E stale \in BOOLEAN : PushChangedFiles(stale)
    PROVE  TypeOK'
<1>1. CASE LoadCacheData
    BY <1>1, EnsureType DEF LoadCacheData, TypeOK
<1>2. CASE DumpCacheData
    BY <1>2 DEF DumpCacheData, TypeOK
<1>3. ASSUME NEW s \in BOOLEAN, PushChangedFiles(s) PROVE TypeOK'
  <2> DEFINE new == [Idle EXCEPT !.pc = "nodes", !.stale = s]
  <2>1. new \in CallType
      BY IdleType
  <2>2. call' = [call EXCEPT !["live"] = new]
      BY <1>3 DEF PushChangedFiles
  <2> HIDE DEF new
  <2>3. call' \in [Threads -> CallType]
      BY <2>1, <2>2, OneCall, Types
  <2>4. /\ try' = 1 /\ raced' = {} /\ edited' = {}
        /\ UNCHANGED <<caching, host, device, cache, token, prev, marks, dump, dumpDoubt, doubt>>
      BY <1>3 DEF PushChangedFiles, session
  <2>5. 1 \in 1..(Retries + 1)
      BY FilesAssumption
  <2> QED
      BY <2>3, <2>4, <2>5 DEF TypeOK, CallType
<1> QED
    BY <1>1, <1>2, <1>3

LEMMA EventType ==
    ASSUME TypeOK, Event,
           \/ NewSession \/ TimeOut
           \/ \E f \in Files : Edit(f) \/ WriteFile(f) \/ OtherPush(f)
    PROVE  TypeOK'
<1>0. events' \in 0..MaxEvents /\ 1 \in 1..(Retries + 1)
    BY FilesAssumption DEF Event, TypeOK
<1>1. CASE NewSession
  <2>1. call' \in [Threads -> CallType]
      BY <1>1, IdleType DEF NewSession
  <2>2. cache' \in Sums
      BY <1>1 DEF NewSession, Nothing, Sums
  <2>3. /\ doubt' = {} /\ raced' = {} /\ edited' = {} /\ token' = FALSE /\ prev' = FALSE
        /\ marks' = marks \ {"session"} /\ try' = 1
        /\ UNCHANGED <<host, device, dump, dumpDoubt>>
      BY <1>1 DEF NewSession
  <2>4. caching' \in BOOLEAN
      BY <1>1 DEF NewSession
  <2> QED
      BY <1>0, <2>1, <2>2, <2>3, <2>4 DEF TypeOK, CallType
<1>2. CASE TimeOut
  <2> DEFINE again == [Idle EXCEPT !.pc = "nodes", !.stale = call["live"].stale]
             new   == IF try <= Retries THEN again ELSE Idle
             old   == [call["live"] EXCEPT !.pushed = {}]
  <2>1. /\ call' = [live |-> new, late |-> old]
        /\ try' = IF try <= Retries THEN try + 1 ELSE 1
        /\ doubt' = doubt \cup call["live"].pushed /\ raced' = {} /\ edited' = {}
        /\ UNCHANGED <<caching, host, device, cache, token, prev, marks, dump, dumpDoubt>>
      BY <1>2 DEF TimeOut, session
  <2>2. new \in CallType /\ old \in CallType /\ call["live"].pushed \subseteq Files
    <3>1. call["live"] \in CallType
        BY Types
    <3>2. call["live"].stale \in BOOLEAN /\ call["live"].pushed \subseteq Files
        BY <3>1 DEF CallType
    <3>3. old \in CallType
        BY <3>1 DEF CallType
    <3> QED
        BY <3>2, <3>3, IdleType
  <2> HIDE DEF new, old
  <2>3. call' \in [Threads -> CallType]
      BY <2>1, <2>2 DEF Threads
  <2>4. try' \in 1..(Retries + 1)
      BY <2>1, FilesAssumption DEF TypeOK
  <2> QED
      BY <1>0, <2>1, <2>2, <2>3, <2>4 DEF TypeOK, CallType
<1>3. ASSUME NEW f \in Files, Edit(f) PROVE TypeOK'
    BY <1>0, <1>3 DEF Edit, TypeOK, session
<1>4. ASSUME NEW f \in Files, WriteFile(f) \/ OtherPush(f) PROVE TypeOK'
  <2>1. /\ doubt' = doubt \cup {f} /\ marks' \in {marks, {}}
        /\ UNCHANGED <<caching, host, cache, token, prev, dump, call, try, edited>>
      BY <1>4 DEF WriteFile, OtherPush
  <2>3. device' \in Sums
    <3>1. PICK c \in Contents \cup {Absent} : device' = [device EXCEPT ![f] = c]
        BY <1>4 DEF WriteFile, OtherPush
    <3> QED
        BY <3>1 DEF TypeOK, Sums
  <2>2. raced' \subseteq Files /\ dumpDoubt' \subseteq Files
      BY <1>4 DEF WriteFile, OtherPush, Touched, Unmarked, TypeOK
  <2> QED
      BY <1>0, <2>1, <2>2, <2>3 DEF TypeOK
<1> QED
    BY <1>1, <1>2, <1>3, <1>4

LEMMA NodesType ==
    ASSUME TypeOK, NEW t \in Threads, GetDeviceNodes(t), UNCHANGED events
    PROVE  TypeOK'
<1>1. CASE Raise(t, {})
    BY <1>1, RaiseType DEF GetDeviceNodes, TypeOK
<1>2. ASSUME NEW new \in CallType, call' = [call EXCEPT ![t] = new],
             UNCHANGED <<session, try, doubt, raced, edited, cache>>
      PROVE  TypeOK'
  <2>1. call' \in [Threads -> CallType]
      BY <1>2, OneCall
  <2> QED
      BY <1>2, <2>1 DEF GetDeviceNodes, TypeOK, CallType, session
<1> DEFINE listed  == [call[t] EXCEPT !.pc = "sums", !.tuples = On(host), !.nodes = On(device)]
           cleared == [call[t] EXCEPT !.pc = "remove", !.remove = On(device)]
<1>3. call[t] \in CallType /\ call \in [Threads -> CallType]
    BY Types
<1>4. listed \in CallType /\ cleared \in CallType
    BY <1>3 DEF CallType, On
<1>5. \/ Raise(t, {})
      \/ /\ call' = [call EXCEPT ![t] = listed] \/ call' = [call EXCEPT ![t] = cleared]
         /\ UNCHANGED <<session, try, doubt, raced, edited, cache>>
    BY <1>3 DEF GetDeviceNodes
<1> HIDE DEF listed, cleared
<1> QED
    BY <1>1, <1>2, <1>4, <1>5

(* Every path gets a sum of some file or none, and when every file gives its    *)
(* line every path gets its own.                                                *)
LEMMA Md5Type ==
    ASSUME NEW paths \in SUBSET Files, NEW files \in Sums, NEW mute,
           NEW sums \in Md5Sums(paths, files, mute)
    PROVE  /\ sums \in Sums /\ On(sums) \subseteq paths
           /\ Whole(paths, files, mute) => \A f \in paths : sums[f] = files[f]
<1> DEFINE lines == (paths \cap On(files)) \ mute
<1>1. PICK l \in Lines(paths, lines) :
        sums = [f \in Files |-> IF \E g \in lines : l[g] = f
                                THEN files[CHOOSE g \in lines : l[g] = f] ELSE Absent]
    BY DEF Md5Sums
<1>2. lines \subseteq Files /\ lines \subseteq paths
    OBVIOUS
<1>3. l \in [lines -> paths] /\ (lines = paths => l = [f \in paths |-> f])
    BY <1>2 DEF Lines
<1> HIDE DEF lines
<1>4. ASSUME NEW f \in Files, NEW g \in lines, l[g] = f
      PROVE  (CHOOSE h \in lines : l[h] = f) \in lines /\ f \in paths
    BY <1>3, <1>4
<1>5. ASSUME NEW f \in Files
      PROVE  sums[f] \in Contents \cup {Absent, Torn} /\ (f \notin paths => sums[f] = Absent)
  <2>1. CASE \E g \in lines : l[g] = f
      BY <1>1, <1>2, <1>4, <2>1 DEF Sums
  <2>2. CASE ~\E g \in lines : l[g] = f
      BY <1>1, <2>2
  <2> QED
      BY <2>1, <2>2
<1>6. sums \in Sums /\ On(sums) \subseteq paths
    BY <1>1, <1>5 DEF Sums, On
<1>7. ASSUME Whole(paths, files, mute), NEW f \in paths PROVE sums[f] = files[f]
  <2>1. lines = paths
      BY <1>7 DEF Whole, lines
  <2>2. \A g \in paths : l[g] = g
      BY <1>3, <2>1
  <2>3. (CHOOSE g \in lines : l[g] = f) = f
      BY <2>1, <2>2
  <2> QED
      BY <1>1, <2>1, <2>2, <2>3
<1> QED
    BY <1>6, <1>7

LEMMA Md5Whole ==
    \A paths \in SUBSET Files, files \in Sums, mute \in SUBSET Files :
        \A sums \in Md5Sums(paths, files, mute) :
            Whole(paths, files, mute) => \A f \in paths : sums[f] = files[f]
<1> SUFFICES ASSUME NEW paths \in SUBSET Files, NEW files \in Sums, NEW mute \in SUBSET Files,
                    NEW sums \in Md5Sums(paths, files, mute)
             PROVE  Whole(paths, files, mute) => \A f \in paths : sums[f] = files[f]
    OBVIOUS
<1> QED
    BY Md5Type

LEMMA AskedType ==
    ASSUME NEW c \in CallType
    PROVE  Asked(c) \in SUBSET Files /\ HostAsked(c) \in SUBSET Files
    BY DEF Asked, HostAsked, CallType

LEMMA ChecksumsType ==
    ASSUME TypeOK, NEW t \in Threads, events' \in 0..MaxEvents,
           (\E mute \in SUBSET Files : CalculateChecksums(t, mute)) \/ CalculateChecksumsFails(t)
    PROVE  TypeOK'
<1> DEFINE c == call[t]
           blind == [c EXCEPT !.pc = "pack", !.todo = c.tuples]
           found(asked) == [f \in Files |->
                        IF f \in Asked(c) THEN asked[f]
                        ELSE IF f \in c.tuples \cap c.nodes THEN cache[f] ELSE Absent]
           known(sums, asked) == [c EXCEPT !.pc = "compare", !.sums = sums, !.found = found(asked)]
<1>1. c \in CallType /\ call \in [Threads -> CallType] /\ host \in Sums /\ device \in Sums
    BY Types DEF TypeOK
<1>2. blind \in CallType
    BY <1>1 DEF CallType
<1>3. \A sums, asked \in Sums : known(sums, asked) \in CallType
  <2>1. \A asked \in Sums : found(asked) \in Sums
      BY DEF TypeOK, Sums
  <2> HIDE DEF found
  <2> QED
      BY <1>1, <2>1 DEF CallType
<1>4. /\ call' \in [Threads -> CallType]
      /\ doubt' \subseteq Files /\ raced' \subseteq Files /\ edited' \subseteq Files
      /\ UNCHANGED <<caching, host, device, cache, dump, try>>
      /\ EnsureCacheInitialized \/ UNCHANGED <<token, prev, marks, dumpDoubt>>
  <2>1. ASSUME NEW mute \in SUBSET Files, CalculateChecksums(t, mute)
        PROVE  /\ call' \in [Threads -> CallType]
               /\ doubt' \subseteq Files /\ raced' \subseteq Files /\ edited' \subseteq Files
               /\ UNCHANGED <<caching, host, device, cache, dump, try>>
               /\ EnsureCacheInitialized \/ UNCHANGED <<token, prev, marks, dumpDoubt>>
    <3>1. PICK sums \in Md5Sums(HostAsked(c), host, mute), asked \in Md5Sums(Asked(c), device, mute) :
            call' = [call EXCEPT ![t].pc = "compare", ![t].sums = sums, ![t].found = found(asked)]
        BY <2>1 DEF CalculateChecksums
    <3>2. call' = [call EXCEPT ![t] = known(sums, asked)]
        BY <1>1, <3>1
    <3>3. sums \in Sums /\ asked \in Sums
        BY <1>1, AskedType, Md5Type
    <3>4. known(sums, asked) \in CallType
        BY <1>3, <3>3
    <3> HIDE DEF known
    <3>5. call' \in [Threads -> CallType]
        BY <3>2, <3>4, OneCall
    <3>6. Asked(c) \in SUBSET Files /\ HostAsked(c) \in SUBSET Files
        BY <1>1, AskedType
    <3> QED
        BY <2>1, <3>5, <3>6 DEF CalculateChecksums, TypeOK
  <2>2. CASE CalculateChecksumsFails(t)
    <3>1. call' = [call EXCEPT ![t] = blind]
        BY <2>2 DEF CalculateChecksumsFails
    <3> HIDE DEF blind
    <3> QED
        BY <1>2, <2>2, <3>1, OneCall DEF CalculateChecksumsFails, TypeOK
  <2> QED
      BY <2>1, <2>2
<1>5. /\ token' \in BOOLEAN /\ prev' \in BOOLEAN
      /\ marks' \subseteq {"session", "dump"} /\ dumpDoubt' \subseteq Files
  <2>1. CASE EnsureCacheInitialized
      BY <2>1, EnsureType
  <2>2. CASE UNCHANGED <<token, prev, marks, dumpDoubt>>
      BY <2>2 DEF TypeOK
  <2> QED
      BY <1>4, <2>1, <2>2
<1> QED
    BY <1>4, <1>5 DEF TypeOK, CallType

LEMMA ChangesType ==
    ASSUME TypeOK, NEW t \in Threads, UNCHANGED events, GetChangedFiles(t)
    PROVE  TypeOK'
<1> DEFINE rm   == (call[t].nodes \ call[t].tuples) \cup (Changed(call[t]) \cap call[t].nodes)
           kept == [f \in Files |-> IF caching /\ call[t].found[f] # Absent THEN call[t].found[f]
                                                                          ELSE cache[f]]
           new  == [call[t] EXCEPT !.todo = Changed(call[t]), !.commits = TRUE,
                                   !.nodes = {}, !.found = Nothing,
                                   !.remove = IF call[t].stale THEN rm ELSE {},
                                   !.pc = IF call[t].stale /\ rm # {} THEN "remove" ELSE "pack"]
<1>1. call[t] \in CallType /\ call \in [Threads -> CallType]
    BY Types
<1>2. kept \in Sums /\ Nothing \in Sums
    BY <1>1 DEF TypeOK, Sums, CallType, Nothing
<1>3. rm \subseteq Files /\ Changed(call[t]) \subseteq Files
    BY <1>1 DEF CallType, Changed
<1>4. /\ call' = [call EXCEPT ![t] = new]
      /\ cache' = kept
      /\ doubt' \subseteq doubt \cup Files
      /\ UNCHANGED <<caching, host, device, token, prev, marks, dump, dumpDoubt, try, raced,
                     edited>>
    BY <1>1 DEF GetChangedFiles, session
<1> HIDE DEF kept, rm
<1>5. new \in CallType
    BY <1>1, <1>2, <1>3 DEF CallType
<1> HIDE DEF new
<1>6. call' \in [Threads -> CallType]
    BY <1>4, <1>5, OneCall
<1> QED
    BY <1>2, <1>4, <1>6 DEF TypeOK, CallType

(* What PushFilesImpl makes of the call, with the parts it leaves as they are.  *)
LEMMA PackType ==
    ASSUME TypeOK, NEW t \in Threads, PushFilesImpl(t)
    PROVE  \E new \in CallType :
            /\ call' = [call EXCEPT ![t] = new]
            /\ new.pc = "push" /\ new.commits = call[t].commits /\ new.sums = call[t].sums
            /\ new.tuples = call[t].tuples /\ new.remove = call[t].remove
            /\ new.pushed = call[t].pushed
            /\ \/ /\ new.todo = call[t].todo /\ new.archive = call[t].archive
                  /\ new.astray = call[t].astray
               \/ new.todo = {} /\ new.archive = call[t].archive /\ new.astray /\ ~call[t].commits
               \/ /\ new.todo = IF call[t].commits THEN call[t].todo ELSE On(host)
                  /\ \A f \in Files : new.archive[f] \in {host[f], Absent}
                  /\ new.astray = call[t].astray
<1> DEFINE c     == call[t]
           files == IF c.commits THEN c.todo ELSE On(host)
           push  == [c EXCEPT !.pc = "push"]
           below == [push EXCEPT !.todo = {}, !.astray = TRUE]
           zip   == [f \in Files |-> IF f \in files THEN host[f] ELSE Absent]
           packd == [push EXCEPT !.todo = files, !.archive = zip]
<1>1. c \in CallType /\ host \in Sums
    BY Types
<1>2. files \subseteq Files /\ zip \in Sums
  <2>1. files \subseteq Files
      BY <1>1 DEF CallType, On
  <2> QED
      BY <1>1, <2>1 DEF Sums
<1> HIDE DEF zip, files
<1>3. /\ push \in CallType /\ push.pc = "push"
      /\ push.commits = c.commits /\ push.sums = c.sums /\ push.tuples = c.tuples
      /\ push.remove = c.remove /\ push.pushed = c.pushed /\ push.todo = c.todo
      /\ push.archive = c.archive /\ push.astray = c.astray
    BY <1>1 DEF CallType
<1> HIDE DEF push
<1>4. /\ below \in CallType /\ below.pc = "push" /\ below.todo = {} /\ below.astray
      /\ below.commits = c.commits /\ below.sums = c.sums /\ below.tuples = c.tuples
      /\ below.remove = c.remove /\ below.pushed = c.pushed /\ below.archive = c.archive
    BY <1>3 DEF CallType
<1>5. /\ packd \in CallType /\ packd.pc = "push" /\ packd.todo = files /\ packd.archive = zip
      /\ packd.commits = c.commits /\ packd.sums = c.sums /\ packd.tuples = c.tuples
      /\ packd.remove = c.remove /\ packd.pushed = c.pushed /\ packd.astray = c.astray
    BY <1>2, <1>3 DEF CallType
<1>6. \/ call' = [call EXCEPT ![t] = push]
      \/ call' = [call EXCEPT ![t] = below] /\ ~c.commits
      \/ call' = [call EXCEPT ![t] = packd]
    BY DEF PushFilesImpl, push, zip, files
<1>7. \A f \in Files : zip[f] \in {host[f], Absent}
    BY DEF zip
<1> HIDE DEF c, below, packd
<1>8. CASE call' = [call EXCEPT ![t] = push]
    BY <1>3, <1>8 DEF c
<1>9. CASE call' = [call EXCEPT ![t] = below] /\ ~c.commits
    BY <1>4, <1>9 DEF c
<1>10. CASE call' = [call EXCEPT ![t] = packd]
    BY <1>5, <1>7, <1>10 DEF c, files
<1> QED
    BY <1>6, <1>8, <1>9, <1>10

LEMMA CommandsType ==
    ASSUME TypeOK, NEW t \in Threads, UNCHANGED events,
           \/ RemovePath(t) \/ PushFilesImpl(t) \/ PushMissing(t) \/ Commit(t)
           \/ \E f \in Files : Push(t, f)
    PROVE  TypeOK'
<1>1. call[t] \in CallType /\ call \in [Threads -> CallType]
    BY Types
<1>2. CASE RemovePath(t)
  <2> DEFINE new == [call[t] EXCEPT !.pc = "pack", !.remove = {}]
  <2>1. call' = [call EXCEPT ![t] = new]
      BY <1>1, <1>2 DEF RemovePath
  <2>2. new \in CallType /\ call[t].remove \subseteq Files
      BY <1>1 DEF CallType
  <2> HIDE DEF new
  <2>3. call' \in [Threads -> CallType]
      BY <2>1, <2>2, OneCall
  <2>4. device' \in Sums
      BY <1>2 DEF RemovePath, Sums, TypeOK
  <2>5. /\ raced' \subseteq Files /\ doubt' \subseteq Files /\ dumpDoubt' \subseteq Files
        /\ UNCHANGED <<caching, host, cache, token, prev, marks, dump, try, edited>>
      BY <1>2, <2>2 DEF RemovePath, Touched, Unmarked, TypeOK
  <2> QED
      BY <2>3, <2>4, <2>5 DEF TypeOK, CallType
<1>3. ASSUME NEW f \in Files, Push(t, f) PROVE TypeOK'
  <2> DEFINE new == [call[t] EXCEPT !.todo = @ \ {f},
                                    !.pushed = IF t = "live" THEN @ \cup {f} ELSE @]
  <2>1. call' = [call EXCEPT ![t] = new]
      BY <1>1, <1>3 DEF Push
  <2>2. new \in CallType
      BY <1>1 DEF CallType
  <2> HIDE DEF new
  <2>3. call' \in [Threads -> CallType]
      BY <2>1, <2>2, OneCall
  <2>4. device' \in Sums
    <3>1. host \in Sums /\ call[t].archive \in Sums /\ device \in Sums
        BY <1>1, Types DEF CallType, TypeOK
    <3> QED
        BY <1>3, <3>1 DEF Push, Sums
  <2>5. /\ raced' \subseteq Files /\ doubt' \subseteq Files /\ dumpDoubt' \subseteq Files
        /\ UNCHANGED <<caching, host, cache, token, prev, marks, dump, try, edited>>
      BY <1>3 DEF Push, Touched, Unmarked, TypeOK
  <2> QED
      BY <2>3, <2>4, <2>5 DEF TypeOK, CallType
<1>4. CASE Commit(t)
  <2>1. call' \in [Threads -> CallType]
      BY <1>4, IdleType, OneCall DEF Commit
  <2>2. cache' \in Sums
      BY <1>1, <1>4 DEF Commit, Committed, Sums, CallType, TypeOK
  <2>3. doubt' \subseteq Files
      BY <1>1, <1>4 DEF Commit, CallType, TypeOK
  <2>4. try' \in 1..(Retries + 1) /\ raced' \subseteq Files /\ edited' \subseteq Files
      BY <1>4, FilesAssumption DEF Commit, TypeOK
  <2>5. UNCHANGED <<caching, host, device, token, prev, marks, dump, dumpDoubt>>
      BY <1>4 DEF Commit, session
  <2> QED
      BY <2>1, <2>2, <2>3, <2>4, <2>5 DEF TypeOK, CallType
<1>5. CASE PushFilesImpl(t)
  <2>1. PICK new \in CallType : call' = [call EXCEPT ![t] = new]
      BY <1>5, PackType
  <2>2. call' \in [Threads -> CallType]
      BY <2>1, OneCall
  <2> QED
      BY <1>5, <2>2 DEF PushFilesImpl, TypeOK, CallType, session
<1>6. CASE PushMissing(t)
    BY <1>6, RaiseType DEF PushMissing, TypeOK
<1> QED
    BY <1>2, <1>3, <1>4, <1>5, <1>6

LEMMA FailureType ==
    ASSUME TypeOK, NEW t \in Threads, Event,
           \/ CommandFails(t) \/ CalculateChecksumsFails(t)
           \/ \E f \in Files : CalculateChecksums(t, {f})
    PROVE  TypeOK'
<1>0. events' \in 0..MaxEvents
    BY FilesAssumption DEF Event, TypeOK
<1>1. CASE CommandFails(t)
  <2>1. call[t] \in CallType
      BY Types
  <2>2. PICK fs \in SUBSET Files : Raise(t, fs) /\ device' \in Sums
    <3>1. CASE Raise(t, {}) /\ UNCHANGED device
        BY <3>1 DEF TypeOK
    <3>2. ASSUME NEW gone \in SUBSET call[t].remove, Raise(t, gone),
                 device' = [f \in Files |-> IF f \in gone THEN Absent ELSE device[f]]
          PROVE  \E fs \in SUBSET Files : Raise(t, fs) /\ device' \in Sums
      <4>1. gone \in SUBSET Files /\ device' \in Sums
          BY <2>1, <3>2 DEF CallType, TypeOK, Sums
      <4> QED
          BY <3>2, <4>1
    <3>3. ASSUME NEW f \in call[t].todo, Raise(t, {f}),
                 device' \in {device, [device EXCEPT ![f] = Torn]}
          PROVE  \E fs \in SUBSET Files : Raise(t, fs) /\ device' \in Sums
      <4>1. {f} \in SUBSET Files /\ device' \in Sums
          BY <2>1, <3>3 DEF CallType, TypeOK, Sums
      <4> QED
          BY <3>3, <4>1
    <3> QED
        BY <1>1, <3>1, <3>2, <3>3 DEF CommandFails
  <2> QED
      BY <1>0, <2>2, RaiseType
<1>2. CASE CalculateChecksumsFails(t) \/ \E f \in Files : CalculateChecksums(t, {f})
    BY <1>0, <1>2, ChecksumsType
<1> QED
    BY <1>1, <1>2

LEMMA StepType == TypeOK /\ [Next]_vars => TypeOK'
<1> SUFFICES ASSUME TypeOK, [Next]_vars PROVE TypeOK'
    OBVIOUS
<1>1. ASSUME NEW t \in Threads, Step(t), UNCHANGED events PROVE TypeOK'
  <2>1. events' \in 0..MaxEvents
      BY <1>1 DEF TypeOK
  <2> QED
      BY <1>1, <2>1, NodesType, ChecksumsType, ChangesType, CommandsType DEF Step
<1>2. CASE /\ UNCHANGED events
           /\ \/ LoadCacheData \/ DumpCacheData
              \/ \E stale \in BOOLEAN : PushChangedFiles(stale)
    BY <1>2, SessionType
<1>3. CASE /\ Event
           /\ \/ NewSession \/ TimeOut
              \/ \E f \in Files : Edit(f) \/ WriteFile(f) \/ OtherPush(f)
    BY <1>3, EventType
<1>4. ASSUME NEW t \in Threads, Event,
             \/ CommandFails(t) \/ CalculateChecksumsFails(t)
             \/ \E f \in Files : CalculateChecksums(t, {f})
      PROVE  TypeOK'
    BY <1>4, FailureType
<1>5. CASE UNCHANGED vars
    BY <1>5 DEF vars, session, TypeOK
<1> QED
    BY <1>1, <1>2, <1>3, <1>4, <1>5 DEF Next

LEMMA InitType == Init => TypeOK
<1> SUFFICES ASSUME Init PROVE TypeOK
    OBVIOUS
<1>1. call \in [Threads -> CallType]
    BY IdleType DEF Init
<1>2. Nothing \in Sums
    BY DEF Nothing, Sums
<1>3. host \in [Files -> Contents \cup {Absent}] /\ marks \subseteq {"session", "dump"}
    BY DEF Init
<1>4. try \in 1..(Retries + 1) /\ events \in 0..MaxEvents
    BY FilesAssumption DEF Init
<1>5. device \in Sums /\ cache \in Sums /\ dump \in Sums
    BY <1>2 DEF Init
<1>6. /\ caching \in BOOLEAN /\ token \in BOOLEAN /\ prev \in BOOLEAN
      /\ doubt \subseteq Files /\ dumpDoubt \subseteq Files /\ raced \subseteq Files
      /\ edited \subseteq Files
    BY DEF Init
<1> QED
    BY <1>1, <1>3, <1>4, <1>5, <1>6 DEF TypeOK, CallType

(* Every variable keeps its type, through every failure and session.            *)
THEOREM TypeCorrect == Spec => []TypeOK
    BY InitType, StepType, PTL DEF Spec

--------------------------------------------------------------------------------
(* The dump: a change of files that the token does not tell is in dumpDoubt.    *)

LEMMA MarkedDump ==
    ASSUME TypeOK, DumpInv, NEW fs \in SUBSET Files, Unmarked(fs), UNCHANGED <<marks, dump>>,
           \A f \in Files \ fs : device'[f] = device[f]
    PROVE  DumpInv'
<1> SUFFICES ASSUME "dump" \in marks, NEW f \in Files, dump[f] # Absent, device'[f] # Absent
             PROVE  f \in dumpDoubt' \/ dump[f] = device'[f]
    BY DEF DumpInv, On
<1>1. dumpDoubt' = dumpDoubt \cup fs
    BY DEF Unmarked
<1>2. CASE f \in fs
    BY <1>1, <1>2
<1>3. CASE f \notin fs
  <2>1. device'[f] = device[f]
      BY <1>3
  <2>2. f \in dumpDoubt \/ dump[f] = device[f]
      BY <2>1 DEF DumpInv, On
  <2> QED
      BY <1>1, <2>1, <2>2
<1> QED
    BY <1>2, <1>3

LEMMA EnsureDump ==
    ASSUME DumpInv, UNCHANGED <<device, dump>>,
           EnsureCacheInitialized \/ UNCHANGED <<marks, dumpDoubt>>
    PROVE  DumpInv'
    BY DEF DumpInv, EnsureCacheInitialized, On

LEMMA StepDump == TypeOK /\ CacheInv /\ CallsInv /\ DumpInv /\ [Next]_vars => DumpInv'
<1> SUFFICES ASSUME TypeOK, CacheInv, CallsInv, DumpInv, [Next]_vars PROVE DumpInv'
    OBVIOUS
<1>0. \A t \in Threads : call[t] \in CallType
    BY Types
<1>1. CASE LoadCacheData
    BY <1>1, EnsureDump DEF LoadCacheData
<1>2. CASE DumpCacheData
  <2>1. call["live"].pushed = {}
      BY <1>2 DEF DumpCacheData, Idle
  <2>2. /\ dump' = cache /\ device' = device
        /\ dumpDoubt' = IF "dump" \in marks' THEN doubt ELSE {}
      BY <1>2 DEF DumpCacheData
  <2> QED
      BY <2>1, <2>2 DEF DumpInv, CacheInv, On
<1>3. CASE NewSession
    BY <1>3 DEF NewSession, DumpInv, On
<1>4. CASE /\ \/ TimeOut
              \/ \E stale \in BOOLEAN : PushChangedFiles(stale)
              \/ \E t \in Threads : GetChangedFiles(t) \/ PushFilesImpl(t) \/ Commit(t)
              \/ \E f \in Files : Edit(f)
    BY <1>4, EnsureDump DEF TimeOut, PushChangedFiles, GetChangedFiles, PushFilesImpl, Commit, Edit,
        session
<1>5. ASSUME NEW t \in Threads, NEW fs \in SUBSET Files, Raise(t, fs),
             \A f \in Files \ fs : device'[f] = device[f]
      PROVE  DumpInv'
    BY <1>5, MarkedDump DEF Raise
<1>6. ASSUME NEW t \in Threads, GetDeviceNodes(t) PROVE DumpInv'
  <2>1. CASE Raise(t, {})
      BY <1>5, <1>6, <2>1 DEF GetDeviceNodes
  <2>2. CASE UNCHANGED session
      BY <1>6, <2>2, EnsureDump DEF GetDeviceNodes, session
  <2> QED
      BY <1>6, <2>1, <2>2 DEF GetDeviceNodes
<1>7. ASSUME NEW t \in Threads, NEW mute \in SUBSET Files,
             CalculateChecksums(t, mute) \/ CalculateChecksumsFails(t)
      PROVE  DumpInv'
    BY <1>7, EnsureDump DEF CalculateChecksums, CalculateChecksumsFails
<1>8. ASSUME NEW t \in Threads, RemovePath(t) PROVE DumpInv'
  <2>1. /\ call[t].remove \in SUBSET Files /\ Unmarked(call[t].remove)
        /\ UNCHANGED <<marks, dump>>
        /\ \A f \in Files \ call[t].remove : device'[f] = device[f]
      BY <1>0, <1>8 DEF RemovePath, CallType
  <2> QED
      BY <2>1, MarkedDump
<1>9. ASSUME NEW t \in Threads, NEW f \in Files, Push(t, f) PROVE DumpInv'
  <2>1. /\ {f} \in SUBSET Files /\ Unmarked({f}) /\ UNCHANGED <<marks, dump>>
        /\ \A g \in Files \ {f} : device'[g] = device[g]
      BY <1>9 DEF Push, TypeOK, Sums
  <2> QED
      BY <2>1, MarkedDump
<1>10. ASSUME NEW t \in Threads, CommandFails(t) PROVE DumpInv'
  <2>1. CASE Raise(t, {}) /\ UNCHANGED device
      BY <1>5, <2>1
  <2>2. ASSUME NEW gone \in SUBSET call[t].remove, Raise(t, gone),
               device' = [f \in Files |-> IF f \in gone THEN Absent ELSE device[f]]
        PROVE  DumpInv'
    <3>1. gone \in SUBSET Files
        BY <1>0 DEF CallType
    <3> QED
        BY <1>5, <2>2, <3>1
  <2>3. ASSUME NEW f \in call[t].todo, Raise(t, {f}),
               device' \in {device, [device EXCEPT ![f] = Torn]}
        PROVE  DumpInv'
    <3>1. {f} \in SUBSET Files
        BY <1>0 DEF CallType
    <3>2. \A g \in Files \ {f} : device'[g] = device[g]
        BY <2>3 DEF TypeOK, Sums
    <3> QED
        BY <1>5, <2>3, <3>1, <3>2
  <2> QED
      BY <1>10, <2>1, <2>2, <2>3 DEF CommandFails
<1>11. ASSUME NEW f \in Files, WriteFile(f) PROVE DumpInv'
  <2>1. /\ {f} \in SUBSET Files /\ Unmarked({f}) /\ UNCHANGED <<marks, dump>>
        /\ \A g \in Files \ {f} : device'[g] = device[g]
      BY <1>11 DEF WriteFile, TypeOK, Sums
  <2> QED
      BY <2>1, MarkedDump
<1>12. ASSUME NEW f \in Files, OtherPush(f) PROVE DumpInv'
    BY <1>12 DEF OtherPush, DumpInv
<1>13. CASE UNCHANGED vars
    BY <1>13 DEF vars, session, DumpInv, On
<1>14. ASSUME NEW t \in Threads, PushMissing(t) PROVE DumpInv'
    BY <1>5, <1>14 DEF PushMissing
<1>15. {} \in SUBSET Files /\ \A f \in Files : {f} \in SUBSET Files
    OBVIOUS
<1> QED
    BY <1>1, <1>2, <1>3, <1>4, <1>6, <1>7, <1>8, <1>9, <1>10, <1>11, <1>12, <1>13, <1>14, <1>15
    DEF Next, Step

--------------------------------------------------------------------------------
(* The live call and the cache.                                                 *)

(* Between the calls, and when a try begins, there is nothing to keep.          *)
LEMMA FreshCall ==
    ASSUME call'["late"].pushed = {},
           \/ call'["live"] = Idle
           \/ /\ \E s \in BOOLEAN : call'["live"] = [Idle EXCEPT !.pc = "nodes", !.stale = s]
              /\ raced' = {}
    PROVE  LiveInv'
<1> DEFINE c == call'["live"]
<1>1. /\ c.pc \in {"idle", "nodes"} /\ c.pushed = {} /\ c.todo = {} /\ c.remove = {}
      /\ c.commits = FALSE /\ c.tuples = {} /\ c.astray = FALSE /\ c.archive = Nothing
      /\ c.pc = "idle" => c = Idle
      /\ c = Idle \/ raced' = {}
  <2>1. CASE c = Idle
      BY <2>1 DEF Idle
  <2>2. ASSUME NEW s \in BOOLEAN, c = [Idle EXCEPT !.pc = "nodes", !.stale = s], raced' = {}
        PROVE  /\ c.pc = "nodes" /\ c.pushed = {} /\ c.todo = {} /\ c.remove = {}
               /\ c.commits = FALSE /\ c.tuples = {} /\ c.astray = FALSE /\ c.archive = Nothing
      BY <2>2 DEF Idle
  <2> QED
      BY <2>1, <2>2
<1>2. CallsInv'
    BY <1>1 DEF CallsInv
<1>3. RacedInv'
    BY <1>1 DEF RacedInv
<1>4. ListInv' /\ FoundInv' /\ PushInv'
    BY <1>1 DEF ListInv, FoundInv, PushInv
<1>5. HostInv'
  <2>1. On(c.archive) = {}
      BY <1>1 DEF On, Nothing
  <2> QED
      BY <1>1, <2>1 DEF HostInv, On
<1> QED
    BY <1>2, <1>3, <1>4, <1>5 DEF LiveInv

(* The host and what the live call knows of it stay, or the change is edited.   *)
LEMMA HostKeeps ==
    ASSUME TypeOK, HostInv, NEW fs, UNCHANGED caching, call'["live"] = call["live"],
           \A f \in Files \ fs : host'[f] = host[f], edited \cup fs \subseteq edited'
    PROVE  HostInv'
<1> DEFINE c == call["live"]
<1>0. c \in CallType /\ On(c.archive) \subseteq Files /\ c.tuples \subseteq Files
    BY Types DEF CallType, On
<1>1. HostAsked(c)' = HostAsked(c) /\ HostAsked(c) \subseteq Files
    BY <1>0, AskedType DEF HostAsked
<1>2. \A f \in Files : f \in edited' \/ (f \notin edited /\ host'[f] = host[f])
    OBVIOUS
<1>3. /\ c.pc = "compare" => On(c.found) \subseteq HostAsked(c)
      /\ c.pc = "compare" => \A f \in HostAsked(c) : f \in edited' \/ c.sums[f] = host'[f]
  <2>1. c.pc = "compare" => \A f \in HostAsked(c) : f \in edited \/ c.sums[f] = host[f]
      BY DEF HostInv
  <2> QED
      BY <1>1, <1>2, <2>1 DEF HostInv
<1>4. c.commits /\ caching => \A f \in c.tuples : f \in edited' \/ c.sums[f] = host'[f]
    BY <1>0, <1>2 DEF HostInv
<1>5. \A f \in c.tuples : f \in edited' \/ host'[f] # Absent
    BY <1>0, <1>2 DEF HostInv
<1>6. \A f \in On(c.archive) : f \in edited' \/ c.archive[f] = host'[f]
    BY <1>0, <1>2 DEF HostInv
<1> HIDE DEF c
<1>7. /\ c.pc = "compare" =>
            /\ On(c.found) \subseteq HostAsked(c)'
            /\ \A f \in HostAsked(c)' : f \in edited' \/ c.sums[f] = host'[f]
    BY <1>1, <1>3
<1> QED
    BY <1>4, <1>5, <1>6, <1>7 DEF HostInv, On, c, HostAsked

(* What is done beside the live call: what it changes is doubted, and raced.    *)
LEMMA BehindLive ==
    ASSUME TypeOK, LiveInv, CacheInv, NEW fs \in SUBSET Files,
           UNCHANGED <<caching, host, edited>>,
           call'["live"] = call["live"], call'["late"].pushed = {},
           \A f \in Files \ fs : device'[f] = device[f],
           raced' = IF call["live"] = Idle THEN raced \ fs ELSE raced \cup fs,
           doubt \cup fs \subseteq doubt',
           \A f \in Files : cache'[f] = cache[f] \/ f \in doubt'
    PROVE  LiveInv' /\ CacheInv'
<1> USE DEF LiveInv
<1>1. call["live"].pc # "idle" => call["live"] # Idle /\ raced' = raced \cup fs
    BY DEF Idle
<1>2. CallsInv'
    BY DEF CallsInv
<1>3. RacedInv'
    BY DEF RacedInv
<1>4. ListInv'
  <2> SUFFICES ASSUME call["live"].pc = "sums", NEW f \in call["live"].nodes
               PROVE  f \in On(device)' \/ f \in raced'
      BY DEF ListInv
  <2>1. f \in On(device) \/ f \in raced
      BY DEF ListInv
  <2> QED
      BY <1>1, <2>1 DEF On
<1>5. FoundInv'
  <2> SUFFICES ASSUME call["live"].pc = "compare", NEW f \in On(call["live"].found)
               PROVE  Unkept(f)' \/ call["live"].found[f] = device'[f]
      BY DEF FoundInv, On
  <2>1. Unkept(f) \/ call["live"].found[f] = device[f]
      BY DEF FoundInv
  <2>2. f \in Files
      BY DEF On
  <2> QED
      BY <1>1, <2>1, <2>2 DEF Unkept
<1>6. PushInv'
  <2> SUFFICES ASSUME call["live"].pc \in {"remove", "pack", "push"}, ~call["live"].astray,
                      NEW f \in call["live"].tuples \ call["live"].todo
               PROVE  Excepted(f)' \/ device'[f] = host[f]
      BY DEF PushInv
  <2>1. Excepted(f) \/ device[f] = host[f]
      BY DEF PushInv
  <2>2. f \in Files
      BY Types DEF CallType
  <2> QED
      BY <1>1, <2>1, <2>2 DEF Excepted, Unkept
<1>7. CacheInv'
  <2> SUFFICES ASSUME NEW f \in Files, cache'[f] # Absent, device'[f] # Absent, f \notin doubt',
                      f \notin call["live"].pushed
               PROVE  cache'[f] = device'[f]
      BY DEF CacheInv, On
  <2>1. cache'[f] = cache[f] /\ device'[f] = device[f] /\ f \notin doubt
      OBVIOUS
  <2> QED
      BY <2>1 DEF CacheInv, On
<1>8. HostInv'
    BY HostKeeps
<1> QED
    BY <1>2, <1>3, <1>4, <1>5, <1>6, <1>7, <1>8

(* A file of the host is edited while a call is made, or between the calls. *)
LEMMA EditLive ==
    ASSUME TypeOK, LiveInv, CacheInv, NEW g \in Files, Edit(g)
    PROVE  LiveInv' /\ CacheInv'
<1> DEFINE c == call["live"]
<1>0. /\ c \in CallType /\ c.tuples \subseteq Files /\ call["late"].pushed = {}
      /\ \A f \in Files \ {g} : host'[f] = host[f]
      /\ UNCHANGED <<caching, device, cache, call, doubt, raced>>
    BY Types DEF LiveInv, CallsInv, CallType, Edit, TypeOK
<1>1. CacheInv'
    BY <1>0 DEF CacheInv, On
<1>2. CASE c = Idle
    BY <1>0, <1>1, <1>2, FreshCall
<1>3. CASE c # Idle
  <2>1. edited' = edited \cup {g}
      BY <1>3 DEF Edit
  <2>2. HostInv'
      BY <1>0, <2>1, HostKeeps DEF LiveInv
  <2>3. CallsInv' /\ RacedInv' /\ ListInv' /\ FoundInv'
      BY <1>0 DEF LiveInv, CallsInv, RacedInv, ListInv, FoundInv, Unkept, On
  <2>4. PushInv'
    <3> SUFFICES ASSUME c.pc \in {"remove", "pack", "push"}, ~c.astray, NEW f \in c.tuples \ c.todo
                 PROVE  Excepted(f)' \/ device[f] = host'[f]
        BY <1>0 DEF PushInv
    <3>1. Excepted(f) \/ device[f] = host[f]
        BY DEF LiveInv, PushInv
    <3> QED
        BY <1>0, <2>1, <3>1 DEF Excepted, Unkept
  <2> QED
      BY <1>1, <2>2, <2>3, <2>4 DEF LiveInv
<1> QED
    BY <1>2, <1>3

(* The cache stays, and what changes on the device is doubted or being pushed.  *)
LEMMA CacheKeeps ==
    ASSUME CacheInv, NEW fs, \A f \in Files \ fs : device'[f] = device[f],
           \A f \in Files : cache'[f] \in {cache[f], Absent},
           doubt \cup call["live"].pushed \cup fs \subseteq doubt' \cup call'["live"].pushed
    PROVE  CacheInv'
<1> SUFFICES ASSUME NEW f \in Files, cache'[f] # Absent, device'[f] # Absent, f \notin doubt',
                    f \notin call'["live"].pushed
             PROVE  cache'[f] = device'[f]
    BY DEF CacheInv, On
<1>1. /\ cache'[f] = cache[f] /\ device'[f] = device[f]
      /\ f \notin doubt /\ f \notin call["live"].pushed
    OBVIOUS
<1> QED
    BY <1>1 DEF CacheInv, On

LEMMA SessionLive ==
    ASSUME TypeOK, LiveInv, CacheInv, DumpInv,
           \/ LoadCacheData \/ DumpCacheData \/ NewSession \/ TimeOut
           \/ \E stale \in BOOLEAN : PushChangedFiles(stale)
           \/ \E f \in Files : Edit(f)
    PROVE  LiveInv' /\ CacheInv'
<1>0. /\ call["late"].pushed = {}
      /\ call \in [Threads -> CallType] /\ "live" \in Threads /\ "late" \in Threads
      /\ Idle.pushed = {} /\ call["live"].stale \in BOOLEAN
    BY Types DEF LiveInv, CallsInv, Idle, CallType
<1>1. CASE LoadCacheData
  <2>1. LiveInv'
      BY <1>0, <1>1, FreshCall DEF LoadCacheData
  <2>2. CASE prev'
    <3>1. "dump" \in marks /\ cache' = dump /\ doubt' = dumpDoubt /\ device' = device
        BY <1>1, <2>2 DEF LoadCacheData, EnsureCacheInitialized
    <3> QED
        BY <2>1, <3>1 DEF CacheInv, DumpInv, On
  <2>3. CASE ~prev'
    <3>1. UNCHANGED <<cache, doubt, device, call>>
        BY <1>1, <2>3 DEF LoadCacheData
    <3> QED
        BY <2>1, <3>1 DEF CacheInv, On
  <2> QED
      BY <2>2, <2>3
<1>2. CASE DumpCacheData
  <2>1. LiveInv'
      BY <1>0, <1>2, FreshCall DEF DumpCacheData
  <2>2. UNCHANGED <<cache, doubt, device, call>>
      BY <1>2 DEF DumpCacheData
  <2> QED
      BY <2>1, <2>2 DEF CacheInv, On
<1>3. CASE NewSession
  <2>1. LiveInv'
      BY <1>0, <1>3, FreshCall DEF NewSession
  <2>2. \A f \in Files : cache'[f] = Absent
      BY <1>3 DEF NewSession, Nothing
  <2> QED
      BY <2>1, <2>2 DEF CacheInv, On
<1>4. CASE TimeOut
  <2>1. /\ \/ call'["live"] = Idle
           \/ call'["live"] = [Idle EXCEPT !.pc = "nodes", !.stale = call["live"].stale]
        /\ call'["late"] = [call["live"] EXCEPT !.pushed = {}]
        /\ raced' = {} /\ doubt' = doubt \cup call["live"].pushed /\ UNCHANGED <<device, cache>>
      BY <1>4 DEF TimeOut
  <2>2. call'["late"].pushed = {}
      BY <1>0, <2>1 DEF CallType
  <2>3. LiveInv'
      BY <1>0, <2>1, <2>2, FreshCall
  <2>4. CacheInv'
      BY <2>1, CacheKeeps
  <2> QED
      BY <2>3, <2>4
<1>5. ASSUME NEW s \in BOOLEAN, PushChangedFiles(s) PROVE LiveInv' /\ CacheInv'
  <2>1. /\ call["live"] = Idle /\ raced' = {} /\ UNCHANGED <<device, cache, doubt>>
        /\ call' = [call EXCEPT !["live"] = [Idle EXCEPT !.pc = "nodes", !.stale = s]]
      BY <1>5 DEF PushChangedFiles
  <2>2. /\ call'["live"] = [Idle EXCEPT !.pc = "nodes", !.stale = s]
        /\ call'["late"] = call["late"]
      BY <1>0, <2>1
  <2>3. LiveInv'
      BY <1>0, <2>1, <2>2, FreshCall
  <2>4. CacheInv'
      BY <1>0, <2>1, CacheKeeps
  <2> QED
      BY <2>3, <2>4
<1>6. ASSUME NEW f \in Files, Edit(f) PROVE LiveInv' /\ CacheInv'
    BY <1>6, EditLive
<1> QED
    BY <1>1, <1>2, <1>3, <1>4, <1>5, <1>6

LEMMA WriteLive ==
    ASSUME TypeOK, LiveInv, CacheInv, NEW f \in Files, WriteFile(f) \/ OtherPush(f)
    PROVE  LiveInv' /\ CacheInv'
<1>1. /\ UNCHANGED <<caching, host, cache, call, edited>>
      /\ \A g \in Files \ {f} : device'[g] = device[g]
      /\ doubt' = doubt \cup {f}
      /\ raced' = IF call["live"] = Idle THEN raced \ {f} ELSE raced \cup {f}
    BY DEF WriteFile, OtherPush, Touched, TypeOK, Sums
<1>2. call["late"].pushed = {} /\ {f} \in SUBSET Files
    BY DEF LiveInv, CallsInv
<1> QED
    BY <1>1, <1>2, BehindLive

(* A try that raises, and what its last command may have changed. *)
LEMMA RaiseLive ==
    ASSUME TypeOK, LiveInv, CacheInv, NEW t \in Threads, NEW fs \in SUBSET Files, Raise(t, fs),
           \A f \in Files \ fs : device'[f] = device[f]
    PROVE  LiveInv' /\ CacheInv'
<1>0. /\ call["late"].pushed = {}
      /\ call \in [Threads -> CallType] /\ "live" \in Threads /\ "late" \in Threads
      /\ Idle.pushed = {} /\ call["live"].stale \in BOOLEAN
    BY Types DEF LiveInv, CallsInv, Idle, CallType
<1>1. UNCHANGED <<caching, host, cache>> /\ doubt' = doubt \cup call[t].pushed \cup fs
    BY DEF Raise
<1>2. CASE t = "late"
  <2>1. /\ call'["live"] = call["live"] /\ call'["late"] = Idle
        /\ raced' = IF call["live"] = Idle THEN raced \ fs ELSE raced \cup fs
        /\ edited' = edited
      BY <1>0, <1>2 DEF Raise, GiveUp, Touched
  <2> QED
      BY <1>0, <1>1, <2>1, BehindLive
<1>3. CASE t = "live"
  <2>1. /\ \/ call'["live"] = Idle
           \/ call'["live"] = [Idle EXCEPT !.pc = "nodes", !.stale = call["live"].stale]
        /\ call'["late"] = call["late"]
        /\ raced' = {}
      BY <1>0, <1>3 DEF Raise, GiveUp
  <2>2. LiveInv'
      BY <1>0, <2>1, FreshCall
  <2>3. CacheInv'
      BY <1>1, <1>3, CacheKeeps
  <2> QED
      BY <2>2, <2>3
<1> QED
    BY <1>2, <1>3 DEF Threads

(* A step of the thread of a try that was given up, that changes no file.       *)
LEMMA LateQuiet ==
    ASSUME TypeOK, LiveInv, CacheInv, UNCHANGED <<caching, host, device, raced, edited>>,
           doubt \subseteq doubt', \A f \in Files : cache'[f] = cache[f] \/ f \in doubt',
           call'["live"] = call["live"], call'["late"].pushed = {}
    PROVE  LiveInv' /\ CacheInv'
<1>1. /\ {} \in SUBSET Files /\ doubt \cup {} \subseteq doubt'
      /\ raced' = IF call["live"] = Idle THEN raced \ {} ELSE raced \cup {}
      /\ \A f \in Files \ {} : device'[f] = device[f]
    OBVIOUS
<1> QED
    BY <1>1, BehindLive

LEMMA LateCall ==
    ASSUME TypeOK, LiveInv, NEW new, call' = [call EXCEPT !["late"] = new],
           new.pushed = call["late"].pushed
    PROVE  call'["live"] = call["live"] /\ call'["late"].pushed = {}
    BY Types DEF LiveInv, CallsInv

LEMMA LateSums ==
    ASSUME TypeOK, LiveInv, CacheInv,
           \/ \E mute \in SUBSET Files : CalculateChecksums("late", mute)
           \/ CalculateChecksumsFails("late")
    PROVE  LiveInv' /\ CacheInv'
<1> DEFINE c == call["late"]
<1>0. c \in CallType /\ call \in [Threads -> CallType] /\ "late" \in Threads
    BY Types
<1>1. UNCHANGED <<caching, host, device, cache, doubt, raced, edited>>
    BY DEF CalculateChecksums, CalculateChecksumsFails
<1>2. \E new : call' = [call EXCEPT !["late"] = new] /\ new.pushed = c.pushed
  <2>1. ASSUME NEW mute \in SUBSET Files, CalculateChecksums("late", mute)
        PROVE  \E new : call' = [call EXCEPT !["late"] = new] /\ new.pushed = c.pushed
    <3> DEFINE found(asked) == [f \in Files |->
                                  IF f \in Asked(c) THEN asked[f]
                                  ELSE IF f \in c.tuples \cap c.nodes THEN cache[f] ELSE Absent]
               known(sums, asked) == [c EXCEPT !.pc = "compare", !.sums = sums, !.found = found(asked)]
    <3>1. PICK sums \in Md5Sums(HostAsked(c), host, mute), asked \in Md5Sums(Asked(c), device, mute) :
            call' = [call EXCEPT !["late"].pc = "compare", !["late"].sums = sums,
                                 !["late"].found = found(asked)]
        BY <2>1 DEF CalculateChecksums
    <3>2. call' = [call EXCEPT !["late"] = known(sums, asked)]
        BY <1>0, <3>1
    <3> HIDE DEF found
    <3>3. known(sums, asked).pushed = c.pushed
        BY <1>0 DEF CallType
    <3> QED
        BY <3>2, <3>3
  <2>2. CASE CalculateChecksumsFails("late")
    <3>1. call' = [call EXCEPT !["late"] = [c EXCEPT !.pc = "pack", !.todo = c.tuples]]
        BY <2>2 DEF CalculateChecksumsFails
    <3>2. [c EXCEPT !.pc = "pack", !.todo = c.tuples].pushed = c.pushed
        BY <1>0 DEF CallType
    <3> QED
        BY <3>1, <3>2
  <2> QED
      BY <2>1, <2>2
<1>3. call'["live"] = call["live"] /\ call'["late"].pushed = {}
    BY <1>2, LateCall
<1> QED
    BY <1>1, <1>3, LateQuiet

LEMMA LateLive ==
    ASSUME TypeOK, LiveInv, CacheInv, Step("late")
    PROVE  LiveInv' /\ CacheInv'
<1>0. /\ call["late"].pushed = {} /\ Idle.pushed = {}
      /\ call \in [Threads -> CallType] /\ "live" \in Threads /\ "late" \in Threads
    BY Types DEF LiveInv, CallsInv, Idle
<1>1. CASE GetDeviceNodes("late")
  <2>1. CASE Raise("late", {})
    <3>1. {} \in SUBSET Files /\ \A f \in Files \ {} : device'[f] = device[f]
        BY <1>1 DEF GetDeviceNodes
    <3> QED
        BY <1>0, <2>1, <3>1, RaiseLive
  <2>2. CASE ~Raise("late", {})
    <3>1. UNCHANGED <<caching, host, cache, device, doubt, raced, edited>>
        BY <1>1, <2>2 DEF GetDeviceNodes
    <3> DEFINE listed  == [call["late"] EXCEPT !.pc = "sums", !.tuples = On(host),
                                               !.nodes = On(device)]
               cleared == [call["late"] EXCEPT !.pc = "remove", !.remove = On(device)]
    <3>2. \E new \in {listed, cleared} : call' = [call EXCEPT !["late"] = new]
        BY <1>0, <1>1, <2>2 DEF GetDeviceNodes
    <3>3. listed.pushed = call["late"].pushed /\ cleared.pushed = call["late"].pushed
        BY <1>0 DEF CallType
    <3> HIDE DEF listed, cleared
    <3>4. call'["live"] = call["live"] /\ call'["late"].pushed = {}
        BY <3>2, <3>3, LateCall
    <3> QED
        BY <3>1, <3>4, LateQuiet
  <2> QED
      BY <2>1, <2>2
<1>2. CASE CalculateChecksums("late", {})
  <2>1. {} \in SUBSET Files
      OBVIOUS
  <2> QED
      BY <1>2, <2>1, LateSums
<1>3. CASE GetChangedFiles("late")
  <2>1. /\ UNCHANGED <<caching, host, device, raced, edited>>
        /\ \A f \in Files : cache'[f] = cache[f] \/ f \in doubt'
        /\ doubt \subseteq doubt'
      BY <1>3 DEF GetChangedFiles
  <2>2. call'["live"] = call["live"] /\ call'["late"].pushed = {}
    <3>1. \E todo, remove, pc :
            call' = [call EXCEPT !["late"].todo = todo, !["late"].commits = TRUE,
                                 !["late"].nodes = {}, !["late"].found = Nothing,
                                 !["late"].remove = remove, !["late"].pc = pc]
        BY <1>3 DEF GetChangedFiles
    <3> QED
        BY <1>0, <3>1 DEF CallType
  <2> QED
      BY <2>1, <2>2, LateQuiet
<1>4. CASE RemovePath("late")
  <2> DEFINE fs == call["late"].remove
  <2>1. /\ UNCHANGED <<caching, host, cache, edited>> /\ fs \in SUBSET Files
        /\ \A f \in Files \ fs : device'[f] = device[f]
        /\ doubt' = doubt \cup fs
        /\ raced' = IF call["live"] = Idle THEN raced \ fs ELSE raced \cup fs
      BY <1>0, <1>4 DEF RemovePath, Touched, CallType
  <2>2. call'["live"] = call["live"] /\ call'["late"].pushed = {}
      BY <1>0, <1>4 DEF RemovePath, CallType
  <2> QED
      BY <2>1, <2>2, BehindLive
<1>5. ASSUME NEW f \in Files, Push("late", f) PROVE LiveInv' /\ CacheInv'
  <2>1. /\ UNCHANGED <<caching, host, cache, edited>> /\ {f} \in SUBSET Files
        /\ \A g \in Files \ {f} : device'[g] = device[g]
        /\ doubt' = doubt \cup {f}
        /\ raced' = IF call["live"] = Idle THEN raced \ {f} ELSE raced \cup {f}
      BY <1>5 DEF Push, Touched, TypeOK, Sums
  <2>2. call'["live"] = call["live"] /\ call'["late"].pushed = {}
      BY <1>0, <1>5 DEF Push, CallType
  <2> QED
      BY <2>1, <2>2, BehindLive
<1>6. CASE Commit("late")
  <2>1. /\ UNCHANGED <<caching, host, device, raced, edited>>
        /\ doubt' = doubt \cup {f \in Files : cache'[f] # cache[f]}
      BY <1>6 DEF Commit
  <2>2. call'["live"] = call["live"] /\ call'["late"].pushed = {}
      BY <1>0, <1>6 DEF Commit
  <2> QED
      BY <2>1, <2>2, LateQuiet
<1>7. CASE PushFilesImpl("late")
  <2>1. UNCHANGED <<caching, host, device, cache, doubt, raced, edited>>
      BY <1>7 DEF PushFilesImpl
  <2>2. \E new : call' = [call EXCEPT !["late"] = new] /\ new.pushed = call["late"].pushed
      BY <1>0, <1>7, PackType
  <2>3. call'["live"] = call["live"] /\ call'["late"].pushed = {}
      BY <2>2, LateCall
  <2> QED
      BY <2>1, <2>3, LateQuiet
<1>8. CASE PushMissing("late")
  <2>1. {} \in SUBSET Files /\ \A f \in Files \ {} : device'[f] = device[f]
      BY <1>8 DEF PushMissing
  <2> QED
      BY <1>0, <1>8, <2>1, RaiseLive DEF PushMissing
<1> QED
    BY <1>1, <1>2, <1>3, <1>4, <1>5, <1>6, <1>7, <1>8 DEF Step

(* The live call looks at the host and the device. *)
LEMMA NodesLive ==
    ASSUME TypeOK, LiveInv, CacheInv, GetDeviceNodes("live"), ~Raise("live", {})
    PROVE  LiveInv' /\ CacheInv'
<1> DEFINE c == call["live"]
           n == call'["live"]
<1>0. /\ call["late"].pushed = {} /\ c.pushed = {} /\ c.todo = {} /\ c.remove = {}
      /\ ~c.commits /\ c.tuples = {} /\ ~c.astray
      /\ \A f \in On(c.archive) : f \in edited \/ c.archive[f] = host[f]
      /\ call \in [Threads -> CallType] /\ "live" \in Threads /\ "late" \in Threads
      /\ c \in CallType /\ c # Idle
      /\ caching => raced \subseteq doubt
    BY Types DEF GetDeviceNodes, LiveInv, CallsInv, RacedInv, HostInv, Idle
<1>1. /\ UNCHANGED <<caching, host, device, cache, doubt, raced, edited>>
      /\ \/ call' = [call EXCEPT !["live"].pc = "sums", !["live"].tuples = On(host),
                                 !["live"].nodes = On(device)]
         \/ call' = [call EXCEPT !["live"].pc = "remove", !["live"].remove = On(device)]
    BY DEF GetDeviceNodes
<1>2. /\ call'["late"] = call["late"] /\ n.pushed = {} /\ n.todo = {} /\ ~n.commits
      /\ ~n.astray /\ n.archive = c.archive
      /\ \/ n.pc = "sums" /\ n.tuples = On(host) /\ n.nodes = On(device) /\ n.remove = {}
         \/ n.pc = "remove" /\ n.remove = On(device) /\ n.tuples = {}
  <2>1. CASE call' = [call EXCEPT !["live"].pc = "sums", !["live"].tuples = On(host),
                                  !["live"].nodes = On(device)]
      BY <1>0, <2>1 DEF CallType
  <2>2. CASE call' = [call EXCEPT !["live"].pc = "remove", !["live"].remove = On(device)]
      BY <1>0, <2>2 DEF CallType
  <2> QED
      BY <1>1, <2>1, <2>2
<1> HIDE DEF c, n
<1>3. CallsInv'
    BY <1>0, <1>1, <1>2 DEF CallsInv, n
<1>4. RacedInv' /\ ListInv' /\ FoundInv' /\ PushInv'
    BY <1>0, <1>1, <1>2 DEF RacedInv, ListInv, FoundInv, PushInv, On, n
<1>6. HostInv'
    BY <1>0, <1>1, <1>2 DEF HostInv, On, n
<1>5. CacheInv'
    BY <1>0, <1>1, CacheKeeps DEF c
<1> QED
    BY <1>3, <1>4, <1>5, <1>6 DEF LiveInv

(* The checksums: when every file gave its line, what the device was asked for  *)
(* is what it holds, and otherwise nobody relies on it.                         *)
LEMMA ChecksumsLive ==
    ASSUME TypeOK, LiveInv, CacheInv, NEW mute \in SUBSET Files, CalculateChecksums("live", mute)
    PROVE  LiveInv' /\ CacheInv'
<1> DEFINE c == call["live"]
           n == call'["live"]
           found(asked) == [f \in Files |-> IF f \in Asked(c) THEN asked[f]
                            ELSE IF f \in c.tuples \cap c.nodes THEN cache[f] ELSE Absent]
<1>0. /\ call["late"].pushed = {} /\ c.pushed = {} /\ c.todo = {} /\ c.remove = {} /\ ~c.commits
      /\ ~c.astray /\ c.pc = "sums" /\ c # Idle
      /\ call \in [Threads -> CallType] /\ "live" \in Threads /\ "late" \in Threads
      /\ c \in CallType /\ host \in Sums /\ device \in Sums
      /\ caching => raced \subseteq doubt
      /\ \A f \in c.tuples : f \in edited \/ host[f] # Absent
      /\ \A f \in On(c.archive) : f \in edited \/ c.archive[f] = host[f]
    BY Types DEF CalculateChecksums, LiveInv, CallsInv, RacedInv, HostInv, Idle, TypeOK
<1>1. PICK sums \in Md5Sums(HostAsked(c), host, mute), asked \in Md5Sums(Asked(c), device, mute) :
        call' = [call EXCEPT !["live"].pc = "compare", !["live"].sums = sums,
                             !["live"].found = found(asked)]
    BY DEF CalculateChecksums
<1>2. /\ UNCHANGED <<caching, host, device, cache>>
      /\ \/ /\ Whole(Asked(c), device, mute) /\ raced' = raced \ Asked(c)
            /\ doubt' = IF caching THEN doubt \ Asked(c) ELSE doubt
         \/ /\ raced' = raced \cup Asked(c)
            /\ doubt' = IF caching THEN doubt \cup Asked(c) ELSE doubt
      /\ \/ edited' = edited /\ Whole(HostAsked(c), host, mute)
         \/ edited' = edited \cup HostAsked(c)
    BY DEF CalculateChecksums
<1>3. /\ Asked(c) \in SUBSET Files /\ HostAsked(c) \in SUBSET Files
      /\ Asked(c) \subseteq c.tuples \cap c.nodes
      /\ c.tuples \cap c.nodes \subseteq HostAsked(c)
      /\ caching => Asked(c) \cap On(cache) = {}
      /\ \A f \in c.tuples \cap c.nodes : f \in Asked(c) \/ (caching /\ f \in On(cache))
    BY <1>0, AskedType DEF Asked, HostAsked
<1>4. /\ Whole(HostAsked(c), host, mute) => \A f \in HostAsked(c) : sums[f] = host[f]
      /\ Whole(Asked(c), device, mute) => \A f \in Asked(c) : asked[f] = device[f]
  <2> DEFINE h == HostAsked(c)
             a == Asked(c)
  <2>1. h \in SUBSET Files /\ a \in SUBSET Files /\ host \in Sums /\ device \in Sums
      BY <1>0, <1>3
  <2>2. sums \in Md5Sums(h, host, mute) /\ asked \in Md5Sums(a, device, mute)
      OBVIOUS
  <2> HIDE DEF h, a, c, n, found
  <2>3. Whole(h, host, mute) => \A f \in h : sums[f] = host[f]
      BY <2>1, <2>2, Md5Whole
  <2>4. Whole(a, device, mute) => \A f \in a : asked[f] = device[f]
      BY <2>1, <2>2, Md5Whole
  <2> QED
      BY <2>3, <2>4 DEF h, a, c
<1>5. /\ call'["late"] = call["late"] /\ n.pushed = {} /\ n.todo = {} /\ n.remove = {} /\ ~n.commits
      /\ n.pc = "compare" /\ n.tuples = c.tuples /\ n.nodes = c.nodes /\ n.archive = c.archive
      /\ n.astray = c.astray /\ n.sums = sums /\ n.found = found(asked)
  <2> HIDE DEF found
  <2> QED
      BY <1>0, <1>1 DEF CallType
<1>6. /\ On(n.found) \subseteq c.tuples \cap c.nodes
      /\ \A f \in On(n.found) : n.found[f] = IF f \in Asked(c) THEN asked[f] ELSE cache[f]
    BY <1>3, <1>5 DEF On
<1> HIDE DEF c, n, found
<1>7. CallsInv'
    BY <1>0, <1>2, <1>5 DEF CallsInv, n
<1>8. RacedInv' /\ ListInv' /\ PushInv'
    BY <1>0, <1>2, <1>5 DEF RacedInv, ListInv, PushInv, n
<1>9. HostInv'
  <2>2. On(n.found) \subseteq HostAsked(c)
      BY <1>3, <1>6
  <2>3. \A f \in HostAsked(c) : f \in edited' \/ n.sums[f] = host[f]
      BY <1>2, <1>4, <1>5
  <2>4. \A f \in Files : f \in edited => f \in edited'
      BY <1>2
  <2>5. c.tuples \subseteq Files /\ On(c.archive) \subseteq Files
      BY <1>0 DEF CallType, On
  <2>6. \A f \in n.tuples : f \in edited' \/ host[f] # Absent
      BY <1>0, <1>5, <2>4, <2>5
  <2>7. \A f \in On(n.archive) : f \in edited' \/ n.archive[f] = host[f]
      BY <1>0, <1>5, <2>4, <2>5
  <2>8. HostAsked(n) = HostAsked(c)
      BY <1>5 DEF HostAsked
  <2> QED
      BY <1>2, <1>5, <2>2, <2>3, <2>6, <2>7, <2>8 DEF HostInv, On, n, HostAsked
<1>10. ASSUME NEW f \in On(n.found) PROVE Unkept(f)' \/ n.found[f] = device[f]
  <2>1. CASE f \in Asked(c)
    <3>1. f \in raced' \/ asked[f] = device[f]
        BY <1>2, <1>4, <2>1
    <3> QED
        BY <1>6, <2>1, <3>1 DEF Unkept
  <2>2. CASE f \notin Asked(c)
    <3>1. caching /\ f \in On(cache) /\ n.found[f] = cache[f] /\ cache[f] # Absent
        BY <1>3, <1>6, <2>2 DEF On
    <3>2. (f \in raced => f \in raced') /\ (f \in doubt => f \in doubt')
        BY <1>2, <2>2
    <3>3. CASE f \in On(device)
      <4>1. f \in doubt \/ cache[f] = device[f]
          BY <1>0, <3>1, <3>3 DEF CacheInv, c
      <4> QED
          BY <1>2, <3>1, <3>2, <4>1 DEF Unkept
    <3>4. CASE f \notin On(device)
      <4>1. f \in raced
          BY <1>0, <1>6, <3>4 DEF LiveInv, ListInv, c
      <4> QED
          BY <3>2, <4>1 DEF Unkept
    <3> QED
        BY <3>3, <3>4
  <2> QED
      BY <2>1, <2>2
<1>11. FoundInv'
    BY <1>2, <1>10 DEF FoundInv, On, n
<1>12. CacheInv'
  <2>1. ASSUME NEW f \in On(cache), f \in doubt PROVE f \in doubt'
      BY <1>2, <1>3, <2>1
  <2>2. c.pushed = {} /\ n.pushed = {}
      BY <1>0, <1>5
  <2> QED
      BY <1>2, <2>1, <2>2 DEF CacheInv, On, c, n
<1> QED
    BY <1>7, <1>8, <1>9, <1>11, <1>12 DEF LiveInv

LEMMA BlindLive ==
    ASSUME TypeOK, LiveInv, CacheInv, CalculateChecksumsFails("live")
    PROVE  LiveInv' /\ CacheInv'
<1> DEFINE c == call["live"]
           n == call'["live"]
<1>0. /\ call["late"].pushed = {} /\ c.pushed = {} /\ c.remove = {} /\ ~c.commits
      /\ c.pc = "sums" /\ ~c.astray
      /\ call \in [Threads -> CallType] /\ "live" \in Threads /\ "late" \in Threads
      /\ c \in CallType /\ c # Idle
      /\ \A f \in c.tuples : f \in edited \/ host[f] # Absent
      /\ \A f \in On(c.archive) : f \in edited \/ c.archive[f] = host[f]
    BY Types DEF CalculateChecksumsFails, LiveInv, CallsInv, HostInv, Idle
<1>1. /\ UNCHANGED <<caching, host, device, cache, doubt, raced, edited>>
      /\ call' = [call EXCEPT !["live"] = [c EXCEPT !.pc = "pack", !.todo = c.tuples]]
    BY DEF CalculateChecksumsFails
<1>2. /\ call'["late"] = call["late"] /\ n.pushed = {} /\ n.todo = c.tuples /\ ~n.commits
      /\ n.pc = "pack" /\ n.remove = {} /\ n.tuples = c.tuples /\ ~n.astray
      /\ n.archive = c.archive
    BY <1>0, <1>1 DEF CallType
<1>3. CallsInv'
    BY <1>0, <1>1, <1>2 DEF CallsInv
<1>4. RacedInv' /\ ListInv' /\ FoundInv' /\ PushInv'
    BY <1>0, <1>1, <1>2 DEF RacedInv, ListInv, FoundInv, PushInv, LiveInv
<1>5. CacheInv'
    BY <1>0, <1>1, CacheKeeps
<1>6. HostInv'
    BY <1>0, <1>1, <1>2 DEF HostInv, On
<1> QED
    BY <1>3, <1>4, <1>5, <1>6 DEF LiveInv

(* The comparison: what is not pushed is on the device, and what is found is    *)
(* remembered.                                                                  *)
LEMMA ChangesLive ==
    ASSUME TypeOK, LiveInv, CacheInv, GetChangedFiles("live")
    PROVE  LiveInv' /\ CacheInv'
<1> DEFINE c == call["live"]
           n == call'["live"]
           rm == (c.nodes \ c.tuples) \cup (Changed(c) \cap c.nodes)
<1>0. /\ call["late"].pushed = {} /\ c.pushed = {} /\ ~c.astray
      /\ call \in [Threads -> CallType] /\ "live" \in Threads /\ "late" \in Threads
      /\ c \in CallType /\ c # Idle /\ c.pc = "compare"
      /\ caching => raced \subseteq doubt
    BY Types DEF GetChangedFiles, LiveInv, CallsInv, RacedInv, Idle
<1>f. /\ \A f \in On(c.found) : Unkept(f) \/ c.found[f] = device[f]
      /\ On(c.found) \subseteq HostAsked(c)
      /\ \A f \in HostAsked(c) : f \in edited \/ c.sums[f] = host[f]
      /\ \A f \in c.tuples : f \in edited \/ host[f] # Absent
      /\ \A f \in On(c.archive) : f \in edited \/ c.archive[f] = host[f]
    BY <1>0 DEF LiveInv, FoundInv, HostInv
<1>1. /\ UNCHANGED <<caching, host, device, doubt, raced, edited>>
      /\ \A f \in Files :
           cache'[f] = IF caching /\ c.found[f] # Absent THEN c.found[f] ELSE cache[f]
      /\ call' = [call EXCEPT !["live"].todo = Changed(c), !["live"].commits = TRUE,
                              !["live"].nodes = {}, !["live"].found = Nothing,
                              !["live"].remove = IF c.stale THEN rm ELSE {},
                              !["live"].pc = IF c.stale /\ rm # {} THEN "remove" ELSE "pack"]
    BY DEF GetChangedFiles
<1>2. /\ rm \cap c.tuples \subseteq Changed(c)
      /\ Changed(c) \subseteq c.tuples /\ c.tuples \subseteq Files
    BY <1>0 DEF Changed, CallType
<1> HIDE DEF rm
<1>3. /\ call'["late"] = call["late"] /\ n.pushed = {} /\ n.todo = Changed(c)
      /\ n.sums = c.sums /\ n.tuples = c.tuples /\ n.commits /\ ~n.astray /\ n.archive = c.archive
      /\ \/ n.pc = "remove" /\ n.remove = rm
         \/ n.pc = "pack" /\ n.remove = {}
    BY <1>0, <1>1 DEF CallType
<1>4. CallsInv'
  <2>1. /\ call'["late"].pushed = {} /\ n.pushed \cup n.todo \subseteq n.tuples
        /\ n.remove \cap n.tuples \subseteq n.todo
        /\ n.pc # "remove" => n.remove = {}
      BY <1>0, <1>2, <1>3
  <2> QED
      BY <1>0, <1>1, <1>3, <2>1 DEF CallsInv
<1>5. RacedInv' /\ ListInv' /\ FoundInv'
    BY <1>0, <1>1, <1>3 DEF RacedInv, ListInv, FoundInv
<1>6. PushInv'
  <2> SUFFICES ASSUME NEW f \in c.tuples \ Changed(c)
               PROVE  Excepted(f)' \/ device'[f] = host'[f]
      BY <1>3 DEF PushInv
  <2>1. c.found[f] # Absent /\ c.found[f] = c.sums[f] /\ f \in Files
      BY <1>0, <1>2 DEF Changed
  <2>2. /\ Unkept(f) \/ c.found[f] = device[f]
        /\ f \in edited \/ c.sums[f] = host[f]
      BY <1>f, <2>1 DEF On
  <2> QED
      BY <1>1, <2>1, <2>2 DEF Excepted, Unkept
<1>7. CacheInv'
  <2> SUFFICES ASSUME NEW f \in Files, cache'[f] # Absent, device[f] # Absent, f \notin doubt
               PROVE  cache'[f] = device[f]
      BY <1>1 DEF CacheInv, On
  <2>1. CASE caching /\ c.found[f] # Absent
    <3>1. f \notin raced
        BY <1>0, <2>1
    <3> QED
        BY <1>f, <1>1, <2>1, <3>1 DEF Unkept, On
  <2>2. CASE ~(caching /\ c.found[f] # Absent)
      BY <1>0, <1>1, <2>2 DEF CacheInv, On
  <2> QED
      BY <2>1, <2>2
<1>8. HostInv'
  <2>1. caching => HostAsked(c) = c.tuples
      BY DEF HostAsked
  <2>2. caching => \A f \in c.tuples : f \in edited \/ c.sums[f] = host[f]
      BY <1>f, <2>1
  <2> HIDE DEF c, n
  <2> QED
      BY <1>f, <1>1, <1>3, <2>2 DEF HostInv, On, n
<1> QED
    BY <1>4, <1>5, <1>6, <1>7, <1>8 DEF LiveInv

LEMMA RemoveLive ==
    ASSUME TypeOK, LiveInv, CacheInv, RemovePath("live")
    PROVE  LiveInv' /\ CacheInv'
<1> DEFINE c == call["live"]
           n == call'["live"]
<1>0. /\ call["late"].pushed = {} /\ c.pushed = {} /\ ~c.astray /\ c.pc = "remove"
      /\ c.commits => c.todo \subseteq c.tuples
      /\ ~c.commits => c.todo = c.tuples
      /\ c.remove \cap c.tuples \subseteq c.todo
      /\ call \in [Threads -> CallType] /\ "live" \in Threads /\ "late" \in Threads
      /\ c \in CallType /\ c # Idle /\ c.tuples \subseteq Files
      /\ caching => raced \subseteq doubt
      /\ \A f \in c.tuples \ c.todo : Excepted(f) \/ device[f] = host[f]
    BY Types DEF RemovePath, LiveInv, CallsInv, RacedInv, PushInv, Idle, CallType
<1>1. /\ UNCHANGED <<caching, host, cache, doubt, edited>> /\ raced' = raced \ c.remove
      /\ \A f \in Files : device'[f] = IF f \in c.remove THEN Absent ELSE device[f]
      /\ call' = [call EXCEPT !["live"].pc = "pack", !["live"].remove = {}]
    BY DEF RemovePath, Touched
<1>2. /\ call'["late"] = call["late"] /\ n.pushed = {} /\ n.todo = c.todo
      /\ n.commits = c.commits /\ n.sums = c.sums /\ n.tuples = c.tuples
      /\ n.pc = "pack" /\ n.remove = {} /\ n.astray = c.astray /\ n.archive = c.archive
    BY <1>0, <1>1 DEF CallType
<1>3. CallsInv'
    BY <1>0, <1>1, <1>2 DEF CallsInv
<1>4. RacedInv' /\ ListInv' /\ FoundInv'
    BY <1>0, <1>1, <1>2 DEF RacedInv, ListInv, FoundInv
<1>5. PushInv'
  <2> SUFFICES ASSUME NEW f \in c.tuples \ c.todo
               PROVE  Excepted(f)' \/ device'[f] = host[f]
      BY <1>1, <1>2 DEF PushInv
  <2>1. f \notin c.remove /\ f \in Files
      BY <1>0
  <2> QED
      BY <1>0, <1>1, <2>1 DEF Excepted, Unkept
<1>6. CacheInv'
    BY <1>0, <1>1, <1>2 DEF CacheInv, On
<1>7. HostInv'
  <2> HIDE DEF c, n
  <2> QED
      BY <1>1, <1>2 DEF HostInv, LiveInv, On, c, n
<1> QED
    BY <1>3, <1>4, <1>5, <1>6, <1>7 DEF LiveInv

(* What is packed is what the host holds then; what was walked and is not there *)
(* any more was edited.                                                         *)
LEMMA PackLive ==
    ASSUME TypeOK, LiveInv, CacheInv, PushFilesImpl("live")
    PROVE  LiveInv' /\ CacheInv'
<1> DEFINE c == call["live"]
           n == call'["live"]
<1>0. /\ call["late"].pushed = {} /\ c.pushed = {} /\ c.pc = "pack" /\ ~c.astray /\ c.remove = {}
      /\ c.commits => c.todo \subseteq c.tuples
      /\ ~c.commits => c.todo = c.tuples
      /\ call \in [Threads -> CallType] /\ "live" \in Threads /\ "late" \in Threads
      /\ c \in CallType /\ c # Idle /\ c.tuples \subseteq Files
      /\ caching => raced \subseteq doubt
      /\ \A f \in c.tuples \ c.todo : Excepted(f) \/ device[f] = host[f]
    BY Types DEF PushFilesImpl, LiveInv, CallsInv, RacedInv, PushInv, Idle, CallType
<1>h. /\ c.commits /\ caching => \A f \in c.tuples : f \in edited \/ c.sums[f] = host[f]
      /\ \A f \in c.tuples : f \in edited \/ host[f] # Absent
      /\ \A f \in On(c.archive) : f \in edited \/ c.archive[f] = host[f]
    BY DEF LiveInv, HostInv
<1>1. UNCHANGED <<caching, host, device, cache, doubt, raced, edited>>
    BY DEF PushFilesImpl
<1>2. /\ call'["late"] = call["late"]
      /\ n.pc = "push" /\ n.commits = c.commits /\ n.sums = c.sums /\ n.tuples = c.tuples
      /\ n.remove = {} /\ n.pushed = {}
      /\ \/ n.todo = c.todo /\ n.archive = c.archive /\ ~n.astray
         \/ n.todo = {} /\ n.archive = c.archive /\ n.astray /\ ~n.commits
         \/ /\ n.todo = IF c.commits THEN c.todo ELSE On(host)
            /\ \A f \in Files : n.archive[f] \in {host[f], Absent}
            /\ ~n.astray
  <2> HIDE DEF c, n
  <2>1. PICK new \in CallType :
            /\ call' = [call EXCEPT !["live"] = new]
            /\ new.pc = "push" /\ new.commits = c.commits /\ new.sums = c.sums
            /\ new.tuples = c.tuples /\ new.remove = c.remove /\ new.pushed = c.pushed
            /\ \/ /\ new.todo = c.todo /\ new.archive = c.archive
                  /\ new.astray = c.astray
               \/ new.todo = {} /\ new.archive = c.archive /\ new.astray /\ ~c.commits
               \/ /\ new.todo = IF c.commits THEN c.todo ELSE On(host)
                  /\ \A f \in Files : new.archive[f] \in {host[f], Absent}
                  /\ new.astray = c.astray
      BY <1>0, PackType DEF c
  <2>2. n = new /\ call'["late"] = call["late"]
      BY <1>0, <2>1 DEF n
  <2> QED
      BY <1>0, <2>1, <2>2
<1> HIDE DEF c, n
<1>3. CallsInv'
    BY <1>0, <1>1, <1>2 DEF CallsInv, n
<1>4. RacedInv' /\ ListInv' /\ FoundInv'
    BY <1>0, <1>1, <1>2 DEF RacedInv, ListInv, FoundInv, n
<1>5. PushInv'
  <2> SUFFICES ASSUME ~n.astray, NEW f \in c.tuples, f \notin n.todo
               PROVE  Excepted(f) \/ device[f] = host[f]
      BY <1>1, <1>2 DEF PushInv, Excepted, Unkept, n
  <2>1. CASE f \notin c.todo
      BY <1>0, <2>1
  <2>2. CASE f \in c.todo
    <3>1. n.todo = On(host) /\ f \in Files
        BY <1>0, <1>2, <2>2
    <3>2. f \in edited
        BY <1>h, <3>1 DEF On
    <3> QED
        BY <3>2 DEF Excepted
  <2> QED
      BY <2>1, <2>2
<1>6. CacheInv'
    BY <1>0, <1>1, <1>2 DEF CacheInv, On, c, n
<1>7. HostInv'
  <2>1. \A f \in On(n.archive) : f \in edited \/ n.archive[f] = host[f]
      BY <1>h, <1>2 DEF On
  <2> QED
      BY <1>h, <1>1, <1>2, <2>1 DEF HostInv, On, n
<1> QED
    BY <1>3, <1>4, <1>5, <1>6, <1>7 DEF LiveInv

LEMMA PushLive ==
    ASSUME TypeOK, LiveInv, CacheInv, NEW g \in Files, Push("live", g)
    PROVE  LiveInv' /\ CacheInv'
<1> DEFINE c == call["live"]
           n == call'["live"]
           local == IF c.archive = Nothing THEN host[g] ELSE c.archive[g]
<1>0. /\ call["late"].pushed = {} /\ c.remove = {} /\ (~caching => c.pushed \subseteq doubt)
      /\ c.commits => c.pushed \cup c.todo \subseteq c.tuples /\ ~c.astray
      /\ call \in [Threads -> CallType] /\ "live" \in Threads /\ "late" \in Threads
      /\ c \in CallType /\ c # Idle /\ c.tuples \subseteq Files /\ c.pc = "push"
      /\ caching => raced \subseteq doubt
      /\ ~c.astray => \A f \in c.tuples \ c.todo : Excepted(f) \/ device[f] = host[f]
    BY Types DEF Push, LiveInv, CallsInv, RacedInv, PushInv, Idle, CallType
<1>1. /\ UNCHANGED <<caching, host, cache, edited>> /\ raced' = raced \ {g} /\ g \in c.todo
      /\ doubt' = IF caching THEN doubt \ {g} ELSE doubt \cup {g}
      /\ \A f \in Files : device'[f] = IF f = g THEN local ELSE device[f]
      /\ local # Absent
      /\ call' = [call EXCEPT !["live"].todo = c.todo \ {g}, !["live"].pushed = c.pushed \cup {g}]
  <2>1. device' = [device EXCEPT ![g] = local] /\ device \in Sums
      BY DEF Push, TypeOK
  <2>2. call' = [call EXCEPT !["live"].todo = c.todo \ {g}, !["live"].pushed = c.pushed \cup {g}]
      BY <1>0 DEF Push
  <2> QED
      BY <2>1, <2>2 DEF Push, Touched, Sums
<1>2. /\ call'["late"] = call["late"] /\ n.pushed = c.pushed \cup {g} /\ n.todo = c.todo \ {g}
      /\ n.commits = c.commits /\ n.sums = c.sums /\ n.tuples = c.tuples
      /\ n.pc = "push" /\ n.remove = {} /\ n.archive = c.archive /\ n.astray = c.astray
    BY <1>0, <1>1 DEF CallType
<1>l. g \in edited \/ local = host[g]
  <2>1. \A f \in On(c.archive) : f \in edited \/ c.archive[f] = host[f]
      BY DEF LiveInv, HostInv
  <2> QED
      BY <1>1, <2>1 DEF On
<1> HIDE DEF local, c, n
<1>3. CallsInv'
    BY <1>0, <1>1, <1>2 DEF CallsInv, n
<1>4. RacedInv' /\ ListInv' /\ FoundInv'
    BY <1>0, <1>1, <1>2 DEF RacedInv, ListInv, FoundInv, n
<1>5. PushInv'
  <2> SUFFICES ASSUME ~c.astray, NEW f \in c.tuples, f \notin c.todo \ {g}
               PROVE  Excepted(f)' \/ device'[f] = host[f]
      BY <1>1, <1>2 DEF PushInv, n
  <2>1. CASE f = g
      BY <1>1, <1>l, <2>1 DEF Excepted
  <2>2. CASE f # g
    <3>1. f \in Files /\ f \in c.tuples \ c.todo
        BY <1>0, <2>2
    <3> QED
        BY <1>0, <1>1, <2>2, <3>1 DEF Excepted, Unkept
  <2> QED
      BY <2>1, <2>2
<1>6. CacheInv'
  <2> SUFFICES ASSUME NEW f \in Files, cache[f] # Absent, device'[f] # Absent,
                      f \notin doubt', f \notin c.pushed, f # g
               PROVE  cache[f] = device'[f]
      BY <1>1, <1>2 DEF CacheInv, On, n
  <2>1. device'[f] = device[f] /\ f \notin doubt
      BY <1>1
  <2> QED
      BY <2>1 DEF CacheInv, On, c
<1>7. HostInv'
    BY <1>1, <1>2 DEF HostInv, LiveInv, On, c, n
<1> QED
    BY <1>3, <1>4, <1>5, <1>6, <1>7 DEF LiveInv

(* The checksums of what was compared are remembered; they are those of the     *)
(* host, and the device holds the same, but for files that others changed or    *)
(* that were edited.                                                            *)
LEMMA CommitLive ==
    ASSUME TypeOK, LiveInv, CacheInv, Commit("live")
    PROVE  LiveInv' /\ CacheInv'
<1> DEFINE c == call["live"]
<1>0. /\ call["late"].pushed = {} /\ c.todo = {} /\ c.pc = "push"
      /\ c.commits => c.pushed \subseteq c.tuples /\ ~c.astray
      /\ ~caching => c.pushed \subseteq doubt
      /\ call \in [Threads -> CallType] /\ "live" \in Threads /\ "late" \in Threads
      /\ c # Idle /\ Idle.pushed = {}
      /\ caching => raced \subseteq doubt
      /\ ~c.astray => \A f \in c.tuples : Excepted(f) \/ device[f] = host[f]
      /\ c.commits /\ caching => \A f \in c.tuples : f \in edited \/ c.sums[f] = host[f]
    BY Types DEF Commit, LiveInv, CallsInv, RacedInv, PushInv, HostInv, Idle
<1>1. /\ UNCHANGED <<caching, host, device>>
      /\ \A f \in Files : cache'[f] = IF caching /\ c.commits /\ f \in c.tuples THEN c.sums[f]
                                                                              ELSE cache[f]
      /\ doubt' = doubt \cup IF c.commits THEN c.tuples \cap edited ELSE c.pushed
      /\ call' = [call EXCEPT !["live"] = Idle]
    BY DEF Commit, Committed
<1>2. call'["live"] = Idle /\ call'["late"].pushed = {}
    BY <1>0, <1>1
<1>3. LiveInv'
    BY <1>2, FreshCall
<1> HIDE DEF c
<1>4. CacheInv'
  <2> SUFFICES ASSUME NEW f \in Files, cache'[f] # Absent, device[f] # Absent, f \notin doubt'
               PROVE  cache'[f] = device[f]
      BY <1>1 DEF CacheInv, On
  <2>1. f \notin doubt
      BY <1>1
  <2>2. CASE caching /\ c.commits /\ f \in c.tuples
    <3>1. f \notin edited /\ cache'[f] = host[f]
        BY <1>0, <1>1, <2>2
    <3>2. ~Excepted(f)
        BY <1>0, <2>1, <2>2, <3>1 DEF Excepted, Unkept
    <3> QED
        BY <1>0, <2>2, <3>1, <3>2
  <2>3. CASE ~(caching /\ c.commits /\ f \in c.tuples)
    <3>1. cache'[f] = cache[f]
        BY <1>1, <2>3
    <3>2. f \notin c.pushed
        BY <1>0, <1>1, <2>1, <2>3
    <3> QED
        BY <2>1, <3>1, <3>2 DEF CacheInv, On, c
  <2> QED
      BY <2>2, <2>3
<1> QED
    BY <1>3, <1>4

LEMMA FailureLive ==
    ASSUME TypeOK, LiveInv, CacheInv, NEW t \in Threads, CommandFails(t)
    PROVE  LiveInv' /\ CacheInv'
<1>0. call[t] \in CallType
    BY Types
<1>1. CASE Raise(t, {}) /\ UNCHANGED device
    BY <1>1, RaiseLive
<1>2. ASSUME NEW gone \in SUBSET call[t].remove, Raise(t, gone),
             device' = [f \in Files |-> IF f \in gone THEN Absent ELSE device[f]]
      PROVE  LiveInv' /\ CacheInv'
  <2>1. gone \in SUBSET Files
      BY <1>0 DEF CallType
  <2> QED
      BY <1>2, <2>1, RaiseLive
<1>3. ASSUME NEW f \in call[t].todo, Raise(t, {f}),
             device' \in {device, [device EXCEPT ![f] = Torn]}
      PROVE  LiveInv' /\ CacheInv'
  <2>1. {f} \in SUBSET Files
      BY <1>0 DEF CallType
  <2>2. \A g \in Files \ {f} : device'[g] = device[g]
      BY <1>3 DEF TypeOK, Sums
  <2> QED
      BY <1>3, <2>1, <2>2, RaiseLive
<1> QED
    BY <1>1, <1>2, <1>3 DEF CommandFails

LEMMA StepLive ==
    TypeOK /\ LiveInv /\ CacheInv /\ DumpInv /\ [Next]_vars => LiveInv' /\ CacheInv'
<1> SUFFICES ASSUME TypeOK, LiveInv, CacheInv, DumpInv, [Next]_vars
             PROVE  LiveInv' /\ CacheInv'
    OBVIOUS
<1>1. ASSUME NEW t \in Threads, Step(t) PROVE LiveInv' /\ CacheInv'
  <2>1. CASE t = "late"
      BY <1>1, <2>1, LateLive
  <2>2. CASE t = "live"
    <3>1. CASE Raise("live", {}) /\ UNCHANGED device
        BY <3>1, RaiseLive DEF Threads
    <3>2. CASE GetDeviceNodes("live")
        BY <3>1, <3>2, NodesLive DEF GetDeviceNodes
    <3>3. CASE CalculateChecksums("live", {})
      <4>1. {} \in SUBSET Files
          OBVIOUS
      <4> QED
          BY <3>3, <4>1, ChecksumsLive
    <3>4. CASE PushMissing("live")
        BY <3>1, <3>4 DEF PushMissing
    <3> QED
        BY <1>1, <2>2, <3>2, <3>3, <3>4, ChangesLive, RemoveLive, PackLive, PushLive, CommitLive
        DEF Step
  <2> QED
      BY <2>1, <2>2 DEF Threads
<1>2. CASE \/ LoadCacheData \/ DumpCacheData \/ NewSession \/ TimeOut
           \/ \E stale \in BOOLEAN : PushChangedFiles(stale)
           \/ \E f \in Files : Edit(f)
    BY <1>2, SessionLive
<1>3. ASSUME NEW f \in Files, WriteFile(f) \/ OtherPush(f) PROVE LiveInv' /\ CacheInv'
    BY <1>3, WriteLive
<1>4. ASSUME NEW t \in Threads, CommandFails(t) PROVE LiveInv' /\ CacheInv'
    BY <1>4, FailureLive
<1>5. ASSUME NEW t \in Threads,
             CalculateChecksumsFails(t) \/ \E f \in Files : CalculateChecksums(t, {f})
      PROVE  LiveInv' /\ CacheInv'
  <2>1. \A f \in Files : {f} \in SUBSET Files
      OBVIOUS
  <2>2. CASE t = "late"
      BY <1>5, <2>1, <2>2, LateSums
  <2>3. CASE t = "live"
      BY <1>5, <2>1, <2>3, ChecksumsLive, BlindLive
  <2> QED
      BY <2>2, <2>3 DEF Threads
<1>6. CASE UNCHANGED vars
  <2>1. UNCHANGED <<caching, host, device, cache, call, doubt, raced, edited>>
      BY <1>6 DEF vars
  <2>2. HostInv'
      BY <2>1, HostKeeps DEF LiveInv
  <2> QED
      BY <2>1, <2>2 DEF LiveInv, CallsInv, RacedInv, ListInv, FoundInv, PushInv, Excepted, Unkept,
         CacheInv, On
<1> QED
    BY <1>1, <1>2, <1>3, <1>4, <1>5, <1>6 DEF Next

--------------------------------------------------------------------------------
LEMMA InitInv == Init => IInv
<1> SUFFICES ASSUME Init PROVE IInv
    OBVIOUS
<1>1. TypeOK
    BY InitType
<1>2. call["live"] = Idle /\ call["late"] = Idle
    BY DEF Init, Threads
<1>3. LiveInv
  <2>1. /\ Idle.pc = "idle" /\ Idle.tuples = {} /\ Idle.todo = {} /\ Idle.pushed = {}
        /\ Idle.remove = {} /\ Idle.commits = FALSE /\ Idle.astray = FALSE
        /\ On(Idle.archive) = {}
      BY DEF Idle, On, Nothing
  <2>2. CallsInv
      BY <1>2, <2>1 DEF CallsInv
  <2> QED
      BY <1>2, <2>1, <2>2 DEF LiveInv, HostInv, RacedInv, ListInv, FoundInv, PushInv
<1>4. CacheInv /\ DumpInv
    BY DEF Init, CacheInv, DumpInv, On, Nothing
<1> QED
    BY <1>1, <1>3, <1>4 DEF IInv

LEMMA StepInv == IInv /\ [Next]_vars => IInv'
    BY StepType, StepDump, StepLive DEF IInv, LiveInv

(* The inductive invariant holds of every push, session, failure and edit.      *)
THEOREM Invariance == Spec => []IInv
    BY InitInv, StepInv, PTL DEF Spec

(* The cache agrees with the device through failed pushes, tries given up,      *)
(* dumps and sessions, but for the files changed with no record of it: by       *)
(* programs that do not use the cache, by pushes that failed or were given up,  *)
(* and by those whose host files were edited, or gave md5sum no line, meanwhile. *)
THEOREM CacheAgreement == Spec => []CacheAgrees
<1>1. IInv => CacheAgrees
    BY DEF IInv, CacheInv, CacheAgrees
<1> QED
    BY <1>1, Invariance, PTL

(* When a push is over, the device holds what the host holds, but for files     *)
(* that changed on either side during the call, those whose sums may be others' *)
(* because a file gave md5sum no line, and those with a cached checksum nobody  *)
(* keeps up; and not when the checksums failed and the directory itself was     *)
(* pushed, which adb puts elsewhere.                                            *)
THEOREM PushedArrives == Spec => []PushedIsThere
<1>1. IInv => PushedIsThere
    BY DEF IInv, LiveInv, PushInv, Excepted, Unkept, PushedIsThere
<1> QED
    BY <1>1, Invariance, PTL
================================================================================
