------------------------------ MODULE DeviceApps -------------------------------
(* devil.android.device_utils: installing and uninstalling a package,           *)
(* rebooting, and the caches these rely on: the paths and the checksums of the  *)
(* installed apks, and the token by which a dumped cache is recognised as       *)
(* stale.  (The cache of properties is DeviceProps.)  An apk is a pair of its   *)
(* name and its content; its checksum is the pair.  A try of Install or         *)
(* Uninstall that times out is made again while its thread goes on as the       *)
(* "late" one.                                                                  *)
EXTENDS Naturals, FiniteSets

CONSTANTS
    Builds,         \* the sets of apks a caller may install
    OtherBuilds,    \* and those that others install
    System,         \* what a system image may hold of the package
    Unknown,        \* no entry in a cache
    Retries,        \* retries of Install, Uninstall and Reboot
    MaxEvents       \* bound on dumps, reboots, timeouts, failures and changes by others

Apks == UNION (Builds \cup OtherBuilds \cup {System})

(* The apks that a caller installs have different names. *)
ASSUME AppsAssumption ==
    /\ IsFiniteSet(Apks) /\ {} \notin Builds \cup OtherBuilds
    /\ \A b \in Builds : \A x, y \in b : x[1] = y[1] => x = y
    /\ Unknown \notin Nat
    /\ Retries \in Nat /\ MaxEvents \in Nat

VARIABLES
    app,            \* the installed apks of the package
    system,         \* those of them that the system image holds, which nothing removes
    marks,          \* whose token the device holds: the session's, the last dump's
    token,          \* _cache['token'] is set
    paths,          \* number of package_apk_paths, or Unknown
    verify,         \* the package is in package_apk_paths_to_verify
    sums,           \* package_apk_checksums, or Unknown
    dump,           \* the paths and checksums of the last dump
    call,           \* per thread: the call it makes
    try,            \* number of the try the live thread makes
    events,
    foreign,        \* entries of the cache that others, or a failed "pm path", may have
                    \* made wrong, "now": the app changed since it was last read, "mute":
                    \* pm path has just failed without a word, "loaded": the cache is a
                    \* dump behind which the app was changed, and still is (history)
    dumpForeign     \* the same of the dump, unless the token tells (history)

cached == <<paths, verify, sums>>
device == <<app, system>>
saved  == <<dump, dumpForeign>>
appsVars == <<device, marks, token, cached, saved, call, try, events, foreign>>

CallThreads == {"live", "late"}

Calls ==
    [op : {"none", "install", "uninstall", "reboot"},
     pc : {"idle", "lookup", "store", "decide", "fresh", "compare", "remove", "removing",
           "install", "installing", "grant", "gone", "reboot", "wait"},
     build : SUBSET Apks, reinstall : BOOLEAN, inner : BOOLEAN, got : SUBSET Apks,
     count : 0..Cardinality(Apks), todo : SUBSET Apks, known : BOOLEAN]

Idle    == [op |-> "none", pc |-> "idle", build |-> {}, reinstall |-> FALSE, inner |-> FALSE,
            got |-> {}, count |-> 0, todo |-> {}, known |-> FALSE]

AppsTypeOK ==
    /\ app \subseteq Apks /\ system \in {{}, System}
    /\ marks \subseteq {"session", "dump"} /\ token \in BOOLEAN
    /\ paths \in 0..Cardinality(Apks) \cup {Unknown} /\ verify \in BOOLEAN
    /\ sums \in (SUBSET Apks) \cup {Unknown}
    /\ dump \in [paths : 0..Cardinality(Apks) \cup {Unknown}, sums : (SUBSET Apks) \cup {Unknown}]
    /\ call \in [CallThreads -> Calls]
    /\ try \in 1..(Retries + 1) /\ events \in 0..MaxEvents
    /\ foreign \subseteq {"paths", "sums", "now", "mute", "loaded"}
    /\ dumpForeign \in BOOLEAN

AppsInit ==
    /\ system \in {{}, System} /\ app = system
    /\ marks = {} /\ token = FALSE
    /\ paths = Unknown /\ verify = FALSE /\ sums = Unknown
    /\ dump = [paths |-> Unknown, sums |-> Unknown]
    /\ call = [t \in CallThreads |-> Idle]
    /\ try = 1 /\ events = 0
    /\ foreign = {} /\ dumpForeign = FALSE

Free == call["live"] = Idle

--------------------------------------------------------------------------------
(* The token and the caches.                                                    *)

(* Under _cache_lock: of the caches here it writes the token alone, and another *)
(* thread that comes waits for it, and finds it.                                *)
EnsureToken ==
    IF token THEN UNCHANGED <<token, marks, dumpForeign>>
    ELSE token' = TRUE /\ marks' = {"session"} /\ dumpForeign' = FALSE

ClearCache ==
    /\ token' = FALSE /\ marks' = marks \ {"session"}
    /\ paths' = Unknown /\ verify' = FALSE /\ sums' = Unknown

(* A session loads a dump, if it does, before it does anything else. *)
LoadCacheData ==
    /\ Free /\ ~token /\ paths = Unknown /\ sums = Unknown
    /\ EnsureToken
    /\ IF "dump" \in marks
       THEN /\ paths' = dump.paths /\ sums' = dump.sums /\ verify' = (dump.paths # Unknown)
            /\ foreign' = IF dumpForeign THEN {"paths", "sums", "loaded"} ELSE {}
       ELSE UNCHANGED <<cached, foreign>>
    /\ UNCHANGED <<device, dump, call, try>>

DumpCacheData ==
    /\ Free
    /\ token' = TRUE
    /\ marks' = IF token /\ "session" \notin marks THEN {} ELSE {"session", "dump"}
    /\ dump' = [paths |-> paths, sums |-> sums]
    /\ dumpForeign' = (marks' # {} /\ foreign \cap {"paths", "sums"} # {})
    /\ UNCHANGED <<device, cached, call, try, foreign>>

(* The process ends, whatever it was doing, and another begins. *)
NewSession ==
    /\ ClearCache /\ foreign' = {}
    /\ call' = [t \in CallThreads |-> Idle]
    /\ try' = 1
    /\ UNCHANGED <<device, saved>>

--------------------------------------------------------------------------------
(* Calls, and how they end.                                                     *)

Begin(c) ==
    /\ Free
    /\ call' = [call EXCEPT !["live"] = c]
    /\ try' = 1
    /\ UNCHANGED <<device, marks, token, cached, saved, foreign>>

Install(b, reinstall) ==
    Begin([Idle EXCEPT !.op = "install", !.pc = "lookup", !.build = b, !.reinstall = reinstall])
Uninstall == Begin([Idle EXCEPT !.op = "uninstall", !.pc = "lookup"])
Reboot    == Begin([Idle EXCEPT !.op = "reboot", !.pc = "reboot"])

Again(c) == IF try > Retries THEN Idle
            ELSE [Idle EXCEPT !.op = c.op, !.build = c.build, !.reinstall = c.reinstall,
                              !.pc = IF c.op = "reboot" THEN "reboot" ELSE "lookup"]
NextTry  == IF try > Retries THEN 1 ELSE try + 1

Raise(t) ==
    /\ call' = [call EXCEPT ![t] = IF t = "late" THEN Idle ELSE Again(@)]
    /\ try' = IF t = "late" THEN try ELSE NextTry

TimeOut ==
    /\ ~Free /\ call["late"] = Idle
    /\ call' = [live |-> Again(call["live"]), late |-> call["live"]]
    /\ try' = NextTry
    /\ UNCHANGED <<device, marks, token, cached, saved, foreign>>

Go(t, c) == call' = [call EXCEPT ![t] = c] /\ UNCHANGED try

(* What changes on the device, and in the cache, behind the live thread. *)
Behind(t, entries) == foreign' = IF t = "live" THEN foreign ELSE foreign \cup entries
Seen(t, entries)   == foreign' = IF t = "live" THEN foreign \ entries ELSE foreign

--------------------------------------------------------------------------------
(* _GetApplicationPathsInternal.  From Lollipop on the exit status of "pm path" *)
(* is not looked at, and what it prints is all that counts.                     *)

Found(c, n) ==
    [c EXCEPT !.count = n,
              !.pc = IF c.op = "install" /\ ~c.inner THEN "decide"
                     ELSE IF n > 0 THEN "remove" ELSE IF c.inner THEN "install" ELSE "gone"]

(* Whether the paths in the cache exist: whoever changes the app behind the     *)
(* cache may install it under other paths.                                      *)
PathExists == IF app = {} THEN {FALSE} ELSE IF "paths" \in foreign THEN BOOLEAN ELSE {TRUE}

(* Mutant of Trusted: the paths that were loaded are not verified. *)
TrustedAll == BOOLEAN

Trusted == IF verify /\ paths # 0 THEN PathExists ELSE {TRUE}

LookupCached(t) ==
    /\ call[t].pc = "lookup" /\ paths # Unknown /\ TRUE \in Trusted
    /\ verify' = FALSE
    /\ Go(t, Found(call[t], paths))
    /\ UNCHANGED <<device, marks, token, paths, sums, saved, foreign>>

PmPath(t, output) ==
    /\ call[t].pc = "lookup"
    /\ \/ paths = Unknown /\ UNCHANGED <<verify, sums>>
       \/ paths # Unknown /\ FALSE \in Trusted /\ verify' = FALSE /\ sums' = Unknown
    /\ EnsureToken
    /\ Go(t, [call[t] EXCEPT !.pc = "store", !.got = output])
    /\ UNCHANGED <<device, paths, dump>>

LookupDevice(t) == PmPath(t, app) /\ Seen(t, {"now", "mute", "loaded"})

(* It fails without a word: the app is taken not to be there. *)
LookupIsMute(t) ==
    /\ app # {} /\ PmPath(t, {})
    /\ foreign' = IF t = "live" THEN (foreign \ {"loaded"}) \cup {"paths", "mute"} ELSE foreign

StorePaths(t) ==
    LET n == Cardinality(call[t].got) IN
    /\ call[t].pc = "store"
    /\ paths' = n
    /\ foreign' = IF t = "live"
                  THEN IF foreign \cap {"now", "mute"} # {} THEN foreign ELSE foreign \ {"paths"}
                  ELSE IF paths = n THEN foreign ELSE (foreign \ {"loaded"}) \cup {"paths", "sums"}
    /\ Go(t, [Found(call[t], n) EXCEPT !.got = {}])
    /\ UNCHANGED <<device, marks, token, verify, sums, saved>>

--------------------------------------------------------------------------------
(* Install and Uninstall.                                                       *)

(* What is to be installed is settled; an app that is there goes first, unless  *)
(* it is reinstalled.                                                           *)
Decided(c, todo, known) ==
    [c EXCEPT !.todo = todo, !.known = known, !.got = {}, !.inner = c.count > 0 /\ ~c.reinstall,
              !.pc = IF todo = {} THEN "grant"
                     ELSE IF c.count > 0 /\ ~c.reinstall THEN "lookup" ELSE "install"]

(* Whether a split and a non-split installation replace one another. *)
Comparable(c) == c.count > 0 /\ (c.count > 1 <=> Cardinality(c.build) > 1)

Decide(t) ==
    LET c == call[t] IN
    /\ c.pc = "decide"
    /\ \/ /\ ~Comparable(c)
          /\ Go(t, Decided(c, c.build, FALSE))
          /\ UNCHANGED <<marks, token, saved, foreign>>
       \/ /\ Comparable(c) /\ sums # Unknown
          /\ Go(t, [c EXCEPT !.pc = "compare", !.got = sums])
          /\ UNCHANGED <<marks, token, saved, foreign>>
       \/ /\ Comparable(c) /\ sums = Unknown
          /\ EnsureToken /\ UNCHANGED dump
          /\ \/ app # {} /\ Go(t, [c EXCEPT !.pc = "fresh", !.got = app]) /\ Seen(t, {"sums"})
             \/ app = {} /\ Go(t, Decided(c, c.build, FALSE)) /\ UNCHANGED foreign
    /\ UNCHANGED <<device, cached>>

(* _ComputeStaleApks: without reinstall, one stale apk makes all of them stale. *)
ComputeStaleApks(t) ==
    LET c     == call[t]
        stale == c.build \ c.got
        fresh == c.pc = "fresh"
    IN
    /\ c.pc \in {"fresh", "compare"}
    /\ sums' = IF fresh THEN c.got ELSE sums
    /\ Behind(t, IF fresh /\ sums # c.got THEN {"sums"} ELSE {})
    /\ Go(t, Decided(c, IF stale # {} /\ ~c.reinstall THEN c.build ELSE stale, TRUE))
    /\ UNCHANGED <<device, marks, token, paths, verify, saved>>

(* Mutant of Popped: only the paths are dropped from the cache. *)
PoppedPaths == paths' = Unknown /\ UNCHANGED sums

Popped == paths' = Unknown /\ sums' = Unknown

(* With -p some apks are installed beside those that are there. *)
Partial(c) == c.todo # c.build

PopCache(t) ==
    /\ Popped /\ UNCHANGED verify
    /\ foreign' = IF t = "late" THEN foreign \cup {"paths", "sums"}
                  ELSE (foreign \ {"paths", "sums", "loaded"}) \cup
                       (IF "sums" \in foreign /\ Partial(call[t]) THEN {"now"} ELSE {})

(* Before it installs, the product's name is looked up among the properties. *)
Pop(t) ==
    LET c == call[t] IN
    /\ PopCache(t)
    /\ \/ /\ c.pc = "remove" /\ Go(t, [c EXCEPT !.pc = "removing"])
          /\ UNCHANGED <<token, marks, dumpForeign>>
       \/ /\ c.pc = "install" /\ Go(t, [c EXCEPT !.pc = "installing"])
          /\ EnsureToken
    /\ UNCHANGED <<device, dump>>

(* What adb install makes of the app, and when it may be accepted; and what adb  *)
(* uninstall does: the system app takes over, which itself cannot be removed.   *)
Removable == app # system
Result(c)  == IF Partial(c) THEN {a \in app : \A x \in c.todo : x[1] # a[1]} \cup c.todo ELSE c.todo
Accepted(c) == IF Partial(c) THEN app # {} ELSE app \in {{}, system} \/ c.reinstall

Run(t) ==
    LET c == call[t] IN
    /\ \/ /\ c.pc = "removing" /\ Removable /\ app' = system
          /\ Go(t, [c EXCEPT !.pc = IF c.inner THEN "install" ELSE "gone"])
       \/ /\ c.pc = "installing" /\ Accepted(c) /\ app' = Result(c)
          /\ Go(t, [c EXCEPT !.pc = "grant"])
    /\ Behind(t, {"paths", "sums", "now"})
    /\ dumpForeign' = ("dump" \in marks)
    /\ UNCHANGED <<system, marks, token, cached, dump>>

(* A command is refused, fails, or fails in spite of having been carried out;   *)
(* pm path fails before Lollipop, or prints what is not understood, or the      *)
(* device is gone.                                                              *)
Refused(t) ==
    LET c == call[t] IN
    /\ (c.pc = "removing" /\ ~Removable) \/ (c.pc = "installing" /\ ~Accepted(c))
    /\ Raise(t)
    /\ UNCHANGED <<device, marks, token, cached, saved, foreign>>

CommandFails(t) ==
    LET c == call[t] IN
    /\ c.pc \in {"store", "removing", "installing", "grant", "wait"}
    /\ Raise(t)
    /\ app' \in {app} \cup (IF c.pc = "removing" THEN {system} ELSE {})
                      \cup (IF c.pc = "installing" /\ Accepted(c) THEN {Result(c)} ELSE {})
    /\ IF app' = app THEN UNCHANGED <<foreign, dumpForeign>>
       ELSE Behind(t, {"paths", "sums", "now"}) /\ dumpForeign' = ("dump" \in marks)
    /\ UNCHANGED <<system, marks, token, cached, dump>>

(* So may the command that reads the properties and leaves a new token. *)
TokenFails(t) ==
    LET c == call[t] IN
    /\ ~token
    /\ \/ /\ \/ c.pc = "lookup" /\ paths = Unknown
             \/ c.pc = "decide" /\ Comparable(c) /\ sums = Unknown
          /\ UNCHANGED <<cached, foreign>>
       \/ c.pc = "install" /\ PopCache(t)
    /\ Raise(t)
    /\ marks' \in {marks, {}} /\ dumpForeign' = (dumpForeign /\ marks' # {})
    /\ UNCHANGED <<device, token, dump>>

ChecksumsFail(t) ==
    /\ call[t].pc = "fresh"
    /\ Go(t, Decided(call[t], call[t].build, FALSE))
    /\ UNCHANGED <<device, marks, token, cached, saved, foreign>>

Return(t) ==
    LET c == call[t] IN
    /\ c.pc \in {"grant", "gone", "wait"}
    /\ sums' = IF c.op = "install" /\ c.known THEN c.build ELSE sums
    /\ foreign' = IF sums' # sums /\ (t = "late" \/ "now" \in foreign)
                  THEN foreign \cup {"sums"} ELSE foreign
    /\ call' = [call EXCEPT ![t] = Idle]
    /\ try' = IF t = "live" THEN 1 ELSE try
    /\ UNCHANGED <<device, marks, token, paths, verify, saved>>

--------------------------------------------------------------------------------
(* Reboot, and what others do: by hand, or in a session of another process with *)
(* a token of its own.                                                          *)

StartReboot(t) ==
    /\ call[t].pc = "reboot"
    /\ ClearCache /\ Seen(t, {"paths", "sums"})
    /\ Go(t, [call[t] EXCEPT !.pc = "wait"])
    /\ UNCHANGED <<device, saved>>

OtherChange ==
    /\ app' \in (OtherBuilds \cup {system}) \ {app}
    /\ foreign' = foreign \cup {"paths", "sums", "now"}
    /\ \/ UNCHANGED marks /\ dumpForeign' = ("dump" \in marks)
       \/ marks' = {} /\ dumpForeign' = FALSE
    /\ UNCHANGED <<system, token, cached, dump, call, try>>

Step(t) ==
    \/ LookupCached(t) \/ LookupDevice(t) \/ StorePaths(t) \/ Decide(t) \/ ComputeStaleApks(t)
    \/ Pop(t) \/ Run(t) \/ Refused(t) \/ Return(t) \/ StartReboot(t)

AppsNext ==
    \/ /\ \/ LoadCacheData \/ NewSession \/ Uninstall
          \/ \E b \in Builds, reinstall \in BOOLEAN : Install(b, reinstall)
          \/ \E t \in CallThreads : Step(t)
       /\ UNCHANGED events
    \/ /\ \/ DumpCacheData \/ Reboot \/ TimeOut \/ OtherChange
          \/ \E t \in CallThreads :
                 LookupIsMute(t) \/ CommandFails(t) \/ TokenFails(t) \/ ChecksumsFail(t)
       /\ events < MaxEvents /\ events' = events + 1

AppsSpec == AppsInit /\ [][AppsNext]_appsVars

--------------------------------------------------------------------------------
(* The cached paths and checksums are those of apks on the device, unless the   *)
(* app was changed behind this session's cache, or behind the dump it loaded in *)
(* a way the token does not tell; or, of the paths, "pm path" failed without a  *)
(* word when they were looked up.                                               *)
AppCacheAgrees ==
    /\ paths # Unknown /\ "paths" \notin foreign => paths = Cardinality(app)
    /\ sums # Unknown /\ "sums" \notin foreign => sums \subseteq app

(* When Install is over, the device has the apks; and the app at least, though  *)
(* it was uninstalled by hand between two sessions, unless a try that was given *)
(* up has put paths of its own into the cache since.  When Uninstall is over,   *)
(* nothing is left but what the system image holds, unless the app was changed  *)
(* behind the cache or "pm path" failed without a word.                         *)
InstalledIsThere ==
    LET c == call["live"] IN
    /\ c.pc = "grant" /\ "now" \notin foreign =>
           /\ "sums" \in foreign \/ c.build \subseteq app
           /\ "loaded" \in foreign => app # {}
    /\ c.pc = "gone" => app \subseteq system \/ "paths" \in foreign \/ "now" \in foreign
================================================================================
