----------------------------- MODULE AndroidProofs -----------------------------
(* Three components that deal with an Android device, proved beside one another *)
(* for any values of their constants: the cache of installed apks (DeviceApps); *)
(* what Stop of LogcatMonitor copies, consistent and, unless a recorder         *)
(* outlived its join, complete; and the clicks of AutoClick, which go on and    *)
(* are spaced.                                                                  *)
EXTENDS DeviceApps, LogcatMonitor, AutoClick, FiniteSetTheorems, TLAPS

--------------------------------------------------------------------------------
(* DeviceApps.                                                                  *)

(* The number of installed apks tells whether there are any.                    *)
LEMMA CardApks == \A S \in SUBSET Apks :
    /\ Cardinality(S) \in 0..Cardinality(Apks)
    /\ Cardinality(S) = 0 <=> S = {}
<1> TAKE S \in SUBSET Apks
<1>1. IsFiniteSet(Apks)
  BY AppsAssumption
<1>2. IsFiniteSet(S) /\ Cardinality(S) <= Cardinality(Apks)
  BY <1>1, FS_Subset
<1>3. Cardinality(S) \in Nat /\ Cardinality(Apks) \in Nat
  BY <1>1, <1>2, FS_CardinalityType
<1>4. Cardinality(S) = 0 <=> S = {}
  BY <1>2, FS_EmptySet
<1> QED
  BY <1>2, <1>3, <1>4

(* A call stays a call when it is over, begun again, or goes on with the paths  *)
(* it found or the apks it decided to install.                                  *)
LEMMA IdleCall == Idle \in Calls
<1>1. 0 \in 0..Cardinality(Apks)
  BY CardApks
<1> QED
  BY <1>1 DEF Idle, Calls

LEMMA CallFields == \A c \in Calls :
    /\ c.op \in {"none", "install", "uninstall", "reboot"} /\ c.build \in SUBSET Apks
    /\ c.reinstall \in BOOLEAN /\ c.inner \in BOOLEAN /\ c.got \in SUBSET Apks
    /\ c.count \in 0..Cardinality(Apks) /\ c.todo \in SUBSET Apks /\ c.known \in BOOLEAN
BY DEF Calls

LEMMA AgainCall == \A c \in Calls : Again(c) \in Calls
<1> TAKE c \in Calls
<1>1. CASE try > Retries
  BY <1>1, IdleCall DEF Again
<1>2. CASE ~(try > Retries)
  BY <1>2, IdleCall, CallFields DEF Again, Calls
<1> QED
  BY <1>1, <1>2

LEMMA FoundCall == \A c \in Calls, n \in 0..Cardinality(Apks) : Found(c, n) \in Calls
<1> TAKE c \in Calls, n \in 0..Cardinality(Apks)
<1> DEFINE p == IF c.op = "install" /\ ~c.inner THEN "decide"
                     ELSE IF n > 0 THEN "remove" ELSE IF c.inner THEN "install" ELSE "gone"
<1>1. p \in {"decide", "remove", "install", "gone"}
  OBVIOUS
<1>2. Found(c, n) = [[c EXCEPT !.count = n] EXCEPT !.pc = p]
  BY DEF Found, Calls
<1> HIDE DEF p
<1>3. [c EXCEPT !.count = n] \in Calls
  BY DEF Calls
<1> QED
  BY <1>1, <1>2, <1>3 DEF Calls

LEMMA DecidedCall ==
    \A c \in Calls, todo \in SUBSET Apks, known \in BOOLEAN : Decided(c, todo, known) \in Calls
<1> TAKE c \in Calls, todo \in SUBSET Apks, known \in BOOLEAN 
<1> DEFINE p == IF todo = {} THEN "grant"
                     ELSE IF c.count > 0 /\ ~c.reinstall THEN "lookup" ELSE "install"
           i == c.count > 0 /\ ~c.reinstall
<1>1. p \in {"grant", "lookup", "install"} /\ i \in BOOLEAN
  OBVIOUS
<1>2. Decided(c, todo, known) =
        [[[[[c EXCEPT !.todo = todo] EXCEPT !.known = known] EXCEPT !.got = {}] EXCEPT !.inner = i]
             EXCEPT !.pc = p]
  BY DEF Decided, Calls
<1> HIDE DEF p, i
<1>3. [[[c EXCEPT !.todo = todo] EXCEPT !.known = known] EXCEPT !.got = {}] \in Calls
  BY DEF Calls
<1> QED
  BY <1>1, <1>2, <1>3 DEF Calls

(* A thread that goes on changes its own call.                                  *)
LEMMA CallAt ==
      ASSUME call \in [CallThreads -> Calls], NEW t \in CallThreads, NEW c \in Calls, Go(t, c)
      PROVE  call' \in [CallThreads -> Calls] /\ call'[t] = c /\ try' = try
             /\ \A u \in CallThreads \ {t} : call'[u] = call[u]
BY DEF Go

(* Nothing is cached and nothing called at first.                               *)
LEMMA InitType == AppsInit => AppsTypeOK
<1> SUFFICES ASSUME AppsInit PROVE AppsTypeOK
  OBVIOUS
<1> USE AppsAssumption DEF AppsInit
<1>1. call \in [CallThreads -> Calls]
  BY IdleCall
<1>2. /\ system \in {{}, System} /\ app \subseteq Apks
      /\ paths \in 0..Cardinality(Apks) \cup {Unknown}
      /\ sums \in (SUBSET Apks) \cup {Unknown}
      /\ marks \subseteq {"session", "dump"}
      /\ foreign \subseteq {"paths", "sums", "now", "mute", "loaded"}
      /\ try \in 1..(Retries + 1) /\ events \in 0..MaxEvents
  BY DEF Apks
<1>3. dump \in [paths : 0..Cardinality(Apks) \cup {Unknown},
                sums : (SUBSET Apks) \cup {Unknown}]
  OBVIOUS
<1>4. token \in BOOLEAN /\ verify \in BOOLEAN /\ dumpForeign \in BOOLEAN
  OBVIOUS
<1> QED
  BY <1>1, <1>2, <1>3, <1>4 DEF AppsTypeOK

(* What a call is to do next is a call.                                         *)
LEMMA StepCalls == 
  ASSUME AppsTypeOK, AppsNext
  PROVE  call' \in [CallThreads -> Calls] /\ try' \in 1..(Retries + 1)
<1> DEFINE Goal == call' \in [CallThreads -> Calls] /\ try' \in 1..(Retries + 1)
<1>y. /\ call \in [CallThreads -> Calls] /\ try \in 1..(Retries + 1) /\ app \in SUBSET Apks
      /\ paths \in 0..Cardinality(Apks) \cup {Unknown} /\ sums \in (SUBSET Apks) \cup {Unknown}
  BY DEF AppsTypeOK
<1>l. "live" \in CallThreads /\ "late" \in CallThreads
  BY DEF CallThreads
<1>c. \A t \in CallThreads : call[t] \in Calls
  BY <1>y
<1>n. NextTry \in 1..(Retries + 1) /\ 1 \in 1..(Retries + 1)
  BY <1>y, AppsAssumption DEF NextTry
<1>g. ASSUME NEW t \in CallThreads, NEW c \in Calls, Go(t, c) PROVE Goal
  BY <1>g, <1>y, CallAt DEF Go
<1>p. ASSUME NEW c \in Calls,
             NEW p \in {"idle", "lookup", "store", "decide", "fresh", "compare", "remove",
                        "removing",
           "install", "installing", "grant", "gone", "reboot", "wait"}, NEW S \in SUBSET Apks
      PROVE  [c EXCEPT !.pc = p] \in Calls /\ [c EXCEPT !.pc = p, !.got = S] \in Calls
  BY DEF Calls
<1>r. ASSUME NEW t \in CallThreads, Raise(t) PROVE Goal
  <2>1. (IF t = "late" THEN Idle ELSE Again(call[t])) \in Calls
    BY <1>c, IdleCall, AgainCall
  <2> QED
    BY <1>n, <1>y, <1>r, <2>1 DEF Raise
<1>b. ASSUME NEW c \in Calls, Begin(c) PROVE Goal
  BY <1>n, <1>y, <1>b, <1>l DEF Begin
<1> HIDE DEF Goal
<1>e. UNCHANGED <<call, try>> => Goal
  BY <1>y DEF Goal
<1>1. ASSUME NEW b \in Builds, NEW reinstall \in BOOLEAN, Install(b, reinstall) PROVE Goal
  <2>1. [Idle EXCEPT !.op = "install", !.pc = "lookup", !.build = b, !.reinstall = reinstall] \in Calls
    BY IdleCall DEF Idle, Calls, Apks
  <2> QED
    BY <1>1, <1>b, <2>1 DEF Install
<1>2. ASSUME Uninstall PROVE Goal
  <2> DEFINE c == [Idle EXCEPT !.op = "uninstall", !.pc = "lookup"]
  <2>1. c \in Calls
    BY IdleCall DEF Idle, Calls
  <2>2. Begin(c)
    BY <1>2 DEF Uninstall
  <2> HIDE DEF c
  <2> QED
    BY <1>b, <2>1, <2>2
<1>2r. ASSUME Reboot PROVE Goal
  <2> DEFINE c == [Idle EXCEPT !.op = "reboot", !.pc = "reboot"]
  <2>1. c \in Calls
    BY IdleCall DEF Idle, Calls
  <2>2. Begin(c)
    BY <1>2r DEF Reboot
  <2> HIDE DEF c
  <2> QED
    BY <1>b, <2>1, <2>2
<1>3. ASSUME NewSession PROVE Goal
  BY <1>3, <1>n, IdleCall DEF NewSession, Goal
<1>4. ASSUME TimeOut PROVE Goal
  <2>1. Again(call["live"]) \in Calls
    BY <1>c, <1>l, AgainCall
  <2> QED
    BY <1>4, <1>c, <1>l, <1>n, <2>1 DEF TimeOut, Goal, CallThreads
<1>5. ASSUME NEW t \in CallThreads, Step(t) PROVE Goal
  <2> DEFINE c == call[t]
  <2>c. c \in Calls
    BY <1>c
  <2>f. /\ c.op \in {"none", "install", "uninstall", "reboot"} /\ c.build \in SUBSET Apks
        /\ c.got \in SUBSET Apks /\ c.count \in 0..Cardinality(Apks) /\ c.todo \in SUBSET Apks
    BY <2>c, CallFields
  <2>1. CASE LookupCached(t)
    <3>1. paths # Unknown
      BY <2>1 DEF LookupCached
    <3>2. Found(call[t], paths) \in Calls
      BY <1>c, <1>y, <3>1, FoundCall
    <3> QED
      BY <2>1, <1>g, <3>2 DEF LookupCached
  <2>2. CASE LookupDevice(t)
    BY <2>2, <1>c, <1>g, <1>p, <1>y DEF LookupDevice, PmPath
  <2>3. CASE StorePaths(t)
    <3> DEFINE n == Cardinality(call[t].got)
    <3>1. n \in 0..Cardinality(Apks)
      BY <2>f, CardApks
    <3>2. Found(call[t], n) \in Calls
      BY <1>c, <3>1, FoundCall
    <3>3. [Found(call[t], n) EXCEPT !.got = {}] \in Calls
      BY <3>2 DEF Calls
    <3> QED
      BY <2>3, <1>g, <3>3 DEF StorePaths
  <2>4. CASE Decide(t)
    <3>1. Decided(c, c.build, FALSE) \in Calls
      BY <2>c, <2>f, DecidedCall
    <3>2. sums # Unknown => [c EXCEPT !.pc = "compare", !.got = sums] \in Calls
      BY <2>c, <1>y, <1>p
    <3>3. [c EXCEPT !.pc = "fresh", !.got = app] \in Calls
      BY <2>c, <1>y, <1>p
    <3> QED
      BY <2>4, <1>g, <3>1, <3>2, <3>3 DEF Decide
  <2>5. CASE ComputeStaleApks(t)
    <3> DEFINE stale == c.build \ c.got
               todo  == IF stale # {} /\ ~c.reinstall THEN c.build ELSE stale
    <3>1. todo \in SUBSET Apks
      BY <2>f
    <3>2. Decided(c, todo, TRUE) \in Calls
      BY <2>c, <3>1, DecidedCall
    <3> QED
      BY <2>5, <1>g, <3>2 DEF ComputeStaleApks
  <2>6. CASE Pop(t)
    <3>1. /\ [c EXCEPT !.pc = "removing"] \in Calls /\ [c EXCEPT !.pc = "installing"] \in Calls
      BY <2>c, <1>p
    <3> QED
      BY <2>6, <1>g, <3>1 DEF Pop
  <2>7. CASE Run(t)
    <3>1. /\ [c EXCEPT !.pc = "install"] \in Calls /\ [c EXCEPT !.pc = "gone"] \in Calls
          /\ [c EXCEPT !.pc = "grant"] \in Calls
      BY <2>c, <1>p
    <3>2. [c EXCEPT !.pc = IF c.inner THEN "install" ELSE "gone"] \in Calls
      BY <3>1
    <3> QED
      BY <2>7, <1>g, <3>1, <3>2 DEF Run
  <2>8. CASE Refused(t)
    BY <2>8, <1>r DEF Refused
  <2>9. CASE Return(t)
    BY <2>9, <1>y, <1>n, IdleCall DEF Return, Goal
  <2>10. CASE StartReboot(t)
    <3>1. [c EXCEPT !.pc = "wait"] \in Calls
      BY <2>c, <1>p
    <3> QED
      BY <2>10, <1>g, <3>1 DEF StartReboot
  <2> QED
    BY <1>5, <2>1, <2>2, <2>3, <2>4, <2>5, <2>6, <2>7, <2>8, <2>9, <2>10 DEF Step
<1>6. ASSUME NEW t \in CallThreads, CommandFails(t) \/ TokenFails(t) PROVE Goal
  BY <1>6, <1>r DEF CommandFails, TokenFails
<1>6m. ASSUME NEW t \in CallThreads, LookupIsMute(t) PROVE Goal
  BY <1>6m, <1>c, <1>g, <1>p DEF LookupIsMute, PmPath
<1>7. ASSUME NEW t \in CallThreads, ChecksumsFail(t) PROVE Goal
  <2>1. Decided(call[t], call[t].build, FALSE) \in Calls
    BY <1>c, CallFields, DecidedCall
  <2> QED
    BY <1>7, <1>g, <2>1 DEF ChecksumsFail
<1>8. ASSUME LoadCacheData PROVE Goal
  BY <1>8, <1>e DEF LoadCacheData
<1>8d. ASSUME DumpCacheData PROVE Goal
  BY <1>8d, <1>e DEF DumpCacheData
<1>8o. ASSUME OtherChange PROVE Goal
  BY <1>8o, <1>e DEF OtherChange
<1>11. Goal
  BY <1>1, <1>2, <1>2r, <1>3, <1>4, <1>5, <1>6, <1>6m, <1>7, <1>8, <1>8d, <1>8o DEF AppsNext
<1> QED
  BY <1>11 DEF Goal

(* Everything but the calls keeps its type.                                     *)
LEMMA StepTypes ==
  ASSUME AppsTypeOK, AppsNext
  PROVE  /\ app' \subseteq Apks /\ system' \in {{}, System}
         /\ marks' \subseteq {"session", "dump"} /\ token' \in BOOLEAN
         /\ paths' \in 0..Cardinality(Apks) \cup {Unknown} /\ verify' \in BOOLEAN
         /\ sums' \in (SUBSET Apks) \cup {Unknown}
         /\ dump' \in [paths : 0..Cardinality(Apks) \cup {Unknown},
                       sums : (SUBSET Apks) \cup {Unknown}]
         /\ events' \in 0..MaxEvents
         /\ foreign' \subseteq {"paths", "sums", "now", "mute", "loaded"}
         /\ dumpForeign' \in BOOLEAN
<1> DEFINE Kinds == {"paths", "sums", "now", "mute", "loaded"}
           Device == app' \subseteq Apks /\ system' \in {{}, System}
           Token  == /\ marks' \subseteq {"session", "dump"} /\ token' \in BOOLEAN
                     /\ dumpForeign' \in BOOLEAN
           Cached == /\ paths' \in 0..Cardinality(Apks) \cup {Unknown} /\ verify' \in BOOLEAN
                     /\ sums' \in (SUBSET Apks) \cup {Unknown}
           Dumped == dump' \in [paths : 0..Cardinality(Apks) \cup {Unknown},
                                sums : (SUBSET Apks) \cup {Unknown}]
           History == foreign' \subseteq Kinds
           Rest   == Device /\ Token /\ Cached /\ Dumped /\ History
<1>t. /\ app \subseteq Apks /\ system \in {{}, System} /\ system \subseteq Apks
      /\ marks \subseteq {"session", "dump"} /\ token \in BOOLEAN
      /\ paths \in 0..Cardinality(Apks) \cup {Unknown} /\ verify \in BOOLEAN
      /\ sums \in (SUBSET Apks) \cup {Unknown}
      /\ dump \in [paths : 0..Cardinality(Apks) \cup {Unknown},
                sums : (SUBSET Apks) \cup {Unknown}]
      /\ foreign \subseteq Kinds /\ dumpForeign \in BOOLEAN
  BY DEF AppsTypeOK, Apks
<1>v. events' \in 0..MaxEvents
  BY AppsAssumption DEF AppsTypeOK, AppsNext
<1>c. ASSUME NEW t \in CallThreads
      PROVE  /\ call[t] \in Calls /\ call[t].got \in SUBSET Apks
             /\ call[t].build \in SUBSET Apks
             /\ call[t].todo \in SUBSET Apks /\ call[t].count \in 0..Cardinality(Apks)
  BY CallFields DEF AppsTypeOK
<1>d. UNCHANGED device => Device
  BY <1>t DEF device
<1>k. UNCHANGED cached => Cached
  BY <1>t DEF cached
<1>m. UNCHANGED dump => Dumped
  BY <1>t
<1>h. UNCHANGED foreign => History
  BY <1>t
<1>s. UNCHANGED <<marks, token, dumpForeign>> => Token
  BY <1>t
<1>e. EnsureToken => Token
  BY <1>t DEF EnsureToken
<1>l. ClearCache /\ UNCHANGED dumpForeign => Token /\ Cached
  BY <1>t DEF ClearCache
<1>b. ASSUME NEW t, NEW S \in SUBSET Kinds, Behind(t, S) PROVE History
  BY <1>b, <1>t DEF Behind
<1>n. ASSUME NEW t, NEW S \in SUBSET Kinds, Seen(t, S) PROVE History
  BY <1>n, <1>t DEF Seen
<1>r. ASSUME NEW t \in CallThreads PROVE Result(call[t]) \in SUBSET Apks
  BY <1>c, <1>t DEF Result
<1> HIDE DEF Device, Token, Cached, Dumped, History
<1>g. ASSUME NEW c, Begin(c) PROVE Rest
  BY <1>g, <1>d, <1>k, <1>m, <1>h, <1>s DEF Begin, saved
<1>1. ASSUME LoadCacheData PROVE Rest
  <2>1. Device /\ Token /\ Dumped
    BY <1>1, <1>d, <1>e, <1>m DEF LoadCacheData
  <2>2. Cached /\ History
    BY <1>1, <1>k, <1>h, <1>t DEF LoadCacheData, Cached, History
  <2> QED
    BY <2>1, <2>2
<1>2. ASSUME NewSession PROVE Rest
  BY <1>2, <1>d, <1>l, <1>m DEF NewSession, History, saved
<1>4. ASSUME DumpCacheData PROVE Rest
  BY <1>4, <1>d, <1>k, <1>h, <1>t DEF DumpCacheData, Token, Dumped
<1>5. ASSUME TimeOut PROVE Rest
  BY <1>5, <1>d, <1>k, <1>m, <1>h, <1>s DEF TimeOut, saved
<1>6. ASSUME OtherChange PROVE Rest
  <2>1. Device
    BY <1>6, <1>t DEF OtherChange, Device, Apks
  <2>2. dumpForeign' \in BOOLEAN
    <3>1. CASE dumpForeign' = ("dump" \in marks)
      BY <3>1
    <3>2. CASE dumpForeign' = FALSE
      BY <3>2
    <3> QED
      BY <1>6, <3>1, <3>2 DEF OtherChange
  <2>m. marks' \subseteq {"session", "dump"}
    BY <1>6, <1>t DEF OtherChange
  <2>3. Token
    BY <1>6, <1>t, <2>2, <2>m DEF OtherChange, Token
  <2>4. History
    BY <1>6, <1>t DEF OtherChange, History
  <2> QED
    BY <1>6, <1>k, <1>m, <2>1, <2>3, <2>4 DEF OtherChange
<1>7. ASSUME NEW t, NEW S \in SUBSET Apks, PmPath(t, S) PROVE Device /\ Token /\ Dumped /\ Cached
  <2>1. Device /\ Token /\ Dumped
    BY <1>7, <1>d, <1>e, <1>m DEF PmPath
  <2>2. Cached
    BY <1>7, <1>t DEF PmPath, Cached
  <2> QED
    BY <2>1, <2>2
<1>8. ASSUME NEW t, PopCache(t) PROVE Cached /\ History
  BY <1>8, <1>t DEF PopCache, Popped, Cached, History
<1>9. ASSUME NEW t \in CallThreads, LookupIsMute(t) \/ TokenFails(t) PROVE Rest
  <2>1. CASE LookupIsMute(t)
    <3>1. History
      BY <2>1, <1>t DEF LookupIsMute, History
    <3> QED
      BY <2>1, <1>7, <3>1 DEF LookupIsMute
  <2>2. CASE TokenFails(t)
    <3>1. marks' \subseteq {"session", "dump"} /\ token' = token
      BY <2>2, <1>t DEF TokenFails
    <3>2. dumpForeign' \in BOOLEAN
      BY <2>2 DEF TokenFails
    <3>3. Token
      BY <3>1, <3>2, <1>t DEF Token
    <3>4. Cached /\ History
      BY <2>2, <1>8, <1>k, <1>h DEF TokenFails
    <3> QED
      BY <2>2, <1>d, <1>m, <3>3, <3>4 DEF TokenFails
  <2> QED
    BY <1>9, <2>1, <2>2
<1>10. ASSUME NEW t \in CallThreads, Step(t) PROVE Rest
  <2>1. ASSUME LookupCached(t) PROVE Rest
    BY <2>1, <1>d, <1>m, <1>h, <1>s, <1>t DEF LookupCached, Cached, saved
  <2>2. ASSUME LookupDevice(t) PROVE Rest
    <3>1. Device /\ Token /\ Dumped /\ Cached
      BY <2>2, <1>7, <1>t DEF LookupDevice
    <3>2. History
      BY <2>2, <1>n DEF LookupDevice
    <3> QED
      BY <3>1, <3>2
  <2>3. ASSUME StorePaths(t) PROVE Rest
    <3>1. Cardinality(call[t].got) \in 0..Cardinality(Apks)
      BY <1>c, CardApks
    <3>2. Cached
      BY <2>3, <3>1, <1>t DEF StorePaths, Cached
    <3>3. History
      BY <2>3, <1>t DEF StorePaths, History
    <3> QED
      BY <2>3, <1>d, <1>m, <1>s, <3>2, <3>3 DEF StorePaths, saved
  <2>4. ASSUME Decide(t) PROVE Rest
    <3>1. Device /\ Cached
      BY <2>4, <1>d, <1>k DEF Decide
    <3>2. Token /\ Dumped
      BY <2>4, <1>e, <1>s, <1>m DEF Decide, saved
    <3>3. History
      BY <2>4, <1>h, <1>n DEF Decide
    <3> QED
      BY <3>1, <3>2, <3>3
  <2>5. ASSUME ComputeStaleApks(t) PROVE Rest
    <3>1. Cached
      BY <2>5, <1>c, <1>t DEF ComputeStaleApks, Cached
    <3>2. History
      BY <2>5, <1>b DEF ComputeStaleApks
    <3> QED
      BY <2>5, <1>d, <1>m, <1>s, <3>1, <3>2 DEF ComputeStaleApks, saved
  <2>6. ASSUME Pop(t) PROVE Rest
    <3>1. Device /\ Token /\ Dumped
      BY <2>6, <1>d, <1>e, <1>m, <1>s DEF Pop
    <3>2. Cached /\ History
      BY <2>6, <1>8 DEF Pop
    <3> QED
      BY <3>1, <3>2
  <2>7. ASSUME Run(t) PROVE Rest
    <3>1. Device
      BY <2>7, <1>r, <1>t DEF Run, Device
    <3>2. History
      BY <2>7, <1>b DEF Run
    <3>3. Token
      BY <2>7, <1>t DEF Run, Token
    <3> QED
      BY <2>7, <1>k, <1>m, <3>1, <3>2, <3>3 DEF Run
  <2>8. ASSUME Refused(t) PROVE Rest
    BY <2>8, <1>d, <1>k, <1>m, <1>h, <1>s DEF Refused, saved
  <2>9. ASSUME Return(t) PROVE Rest
    <3>1. Cached /\ History
      BY <2>9, <1>c, <1>t DEF Return, Cached, History
    <3> QED
      BY <2>9, <1>d, <1>m, <1>s, <3>1 DEF Return, saved
  <2>10. ASSUME StartReboot(t) PROVE Rest
    <3>1. Token /\ Cached
      BY <2>10, <1>l DEF StartReboot, saved
    <3>2. History
      BY <2>10, <1>n DEF StartReboot
    <3> QED
      BY <2>10, <1>m, <1>d, <3>1, <3>2 DEF StartReboot, saved
  <2> QED
    BY <1>10, <2>1, <2>2, <2>3, <2>4, <2>5, <2>6, <2>7, <2>8, <2>9, <2>10 DEF Step
<1>11. ASSUME NEW t \in CallThreads, CommandFails(t) PROVE Rest
  <2>1. Device
    BY <1>11, <1>r, <1>t DEF CommandFails, Device
  <2>2. History
    BY <1>11, <1>b, <1>h DEF CommandFails
  <2>d. dumpForeign' \in BOOLEAN
    <3>1. CASE dumpForeign' = ("dump" \in marks)
      BY <3>1
    <3>2. CASE dumpForeign' = dumpForeign
      BY <3>2, <1>t
    <3> QED
      BY <1>11, <3>1, <3>2 DEF CommandFails
  <2>u. UNCHANGED <<marks, token>>
    BY <1>11 DEF CommandFails
  <2>3. Token
    BY <2>u, <1>t, <2>d DEF Token
  <2> QED
    BY <1>11, <1>k, <1>m, <2>1, <2>2, <2>3 DEF CommandFails
<1>12. ASSUME NEW t \in CallThreads, ChecksumsFail(t) PROVE Rest
  BY <1>12, <1>d, <1>k, <1>m, <1>h, <1>s DEF ChecksumsFail, saved
<1>13. Rest
  BY <1>g, <1>1, <1>2, <1>4, <1>5, <1>6, <1>9, <1>10, <1>11, <1>12
  DEF AppsNext, Install, Uninstall, Reboot
<1> QED
  BY <1>v, <1>13 DEF Device, Token, Cached, Dumped, History

(* Each step keeps the types.                                                   *)
LEMMA AppsTypeStep == AppsTypeOK /\ [AppsNext]_appsVars => AppsTypeOK'
<1> SUFFICES ASSUME AppsTypeOK, [AppsNext]_appsVars PROVE AppsTypeOK'
  OBVIOUS
<1>1. CASE AppsNext
  BY <1>1, StepCalls, StepTypes DEF AppsTypeOK
<1>2. CASE UNCHANGED appsVars
  BY <1>2 DEF AppsTypeOK, appsVars, device, cached, saved
<1> QED
  BY <1>1, <1>2

(* The caches, the calls and the histories are well-typed for any builds, any   *)
(* number of retries, and any number of timeouts, failures and outside changes. *)
THEOREM AppsTypeCorrect == AppsSpec => []AppsTypeOK
<1>1. AppsInit => AppsTypeOK
  BY InitType
<1> QED
  BY <1>1, AppsTypeStep, PTL DEF AppsSpec

--------------------------------------------------------------------------------
(* What a call becomes, field by field.                                         *)
LEMMA FoundFields == \A c \in Calls, n \in 0..Cardinality(Apks) :
    /\ Found(c, n) \in Calls
    /\ Found(c, n).count = n
    /\ Found(c, n).pc = IF c.op = "install" /\ ~c.inner THEN "decide"
                        ELSE IF n > 0 THEN "remove" ELSE IF c.inner THEN "install" ELSE "gone"
    /\ Found(c, n).op = c.op /\ Found(c, n).build = c.build /\ Found(c, n).inner = c.inner
    /\ Found(c, n).got = c.got /\ Found(c, n).todo = c.todo /\ Found(c, n).known = c.known
<1> TAKE c \in Calls, n \in 0..Cardinality(Apks)
<1> DEFINE p == IF c.op = "install" /\ ~c.inner THEN "decide"
                ELSE IF n > 0 THEN "remove" ELSE IF c.inner THEN "install" ELSE "gone"
           d == [c EXCEPT !.count = n]
<1>1. Found(c, n) = [d EXCEPT !.pc = p]
  BY DEF Found, Calls
<1>2. /\ d \in Calls /\ d.count = n /\ d.op = c.op /\ d.build = c.build /\ d.inner = c.inner
      /\ d.got = c.got /\ d.todo = c.todo /\ d.known = c.known
  BY DEF Calls
<1> HIDE DEF p, d
<1>3. /\ Found(c, n).count = n /\ Found(c, n).pc = p /\ Found(c, n).op = c.op
      /\ Found(c, n).build = c.build /\ Found(c, n).inner = c.inner
      /\ Found(c, n).got = c.got /\ Found(c, n).todo = c.todo /\ Found(c, n).known = c.known
  BY <1>1, <1>2 DEF Calls
<1> QED
  BY <1>3, FoundCall DEF p

LEMMA DecidedFields == \A c \in Calls, todo \in SUBSET Apks, known \in BOOLEAN :
    /\ Decided(c, todo, known) \in Calls
    /\ Decided(c, todo, known).todo = todo /\ Decided(c, todo, known).known = known
    /\ Decided(c, todo, known).got = {}
    /\ Decided(c, todo, known).inner = (c.count > 0 /\ ~c.reinstall)
    /\ Decided(c, todo, known).pc = IF todo = {} THEN "grant"
                     ELSE IF c.count > 0 /\ ~c.reinstall THEN "lookup" ELSE "install"
    /\ Decided(c, todo, known).op = c.op /\ Decided(c, todo, known).build = c.build
    /\ Decided(c, todo, known).count = c.count
<1> TAKE c \in Calls, todo \in SUBSET Apks, known \in BOOLEAN
<1> DEFINE p == IF todo = {} THEN "grant"
                ELSE IF c.count > 0 /\ ~c.reinstall THEN "lookup" ELSE "install"
           i == c.count > 0 /\ ~c.reinstall
           d == [[c EXCEPT !.todo = todo] EXCEPT !.known = known]
           e == [[d EXCEPT !.got = {}] EXCEPT !.inner = i]
<1>1. Decided(c, todo, known) = [e EXCEPT !.pc = p]
  BY DEF Decided, Calls
<1>i. i \in BOOLEAN
  OBVIOUS
<1> HIDE DEF i, p
<1>2. /\ d \in Calls /\ d.todo = todo /\ d.known = known /\ d.op = c.op /\ d.build = c.build
      /\ d.count = c.count
  BY DEF Calls
<1> HIDE DEF d
<1>3. /\ e \in Calls /\ e.todo = todo /\ e.known = known /\ e.got = {} /\ e.inner = i
      /\ e.op = c.op
      /\ e.build = c.build /\ e.count = c.count
  BY <1>i, <1>2 DEF Calls
<1> HIDE DEF e
<1>4. /\ Decided(c, todo, known).todo = todo /\ Decided(c, todo, known).known = known
      /\ Decided(c, todo, known).got = {} /\ Decided(c, todo, known).inner = i
      /\ Decided(c, todo, known).pc = p /\ Decided(c, todo, known).op = c.op
      /\ Decided(c, todo, known).build = c.build /\ Decided(c, todo, known).count = c.count
  BY <1>1, <1>3 DEF Calls
<1>5. Decided(c, todo, known).inner = (c.count > 0 /\ ~c.reinstall)
  BY <1>4 DEF i
<1> QED
  BY <1>4, <1>5, DecidedCall DEF p

LEMMA AgainFields == \A c \in Calls :
    /\ Again(c) \in Calls
    /\ Again(c).pc \in {"idle", "reboot", "lookup"} /\ ~Again(c).inner /\ Again(c).got = {}
    /\ Again(c).count = 0 /\ Again(c).todo = {} /\ ~Again(c).known
    /\ Again(c) = Idle \/ (Again(c).op = c.op /\ Again(c).build = c.build)
<1> TAKE c \in Calls
<1>0. Again(c) \in Calls
  BY AgainCall
<1>1. CASE try > Retries
  BY <1>0, <1>1 DEF Again, Idle
<1>2. CASE ~(try > Retries)
  <2> DEFINE p == IF c.op = "reboot" THEN "reboot" ELSE "lookup"
             i == [[Idle EXCEPT !.op = c.op] EXCEPT !.build = c.build]
  <2>1. Again(c) = [[i EXCEPT !.reinstall = c.reinstall] EXCEPT !.pc = p]
    BY <1>2 DEF Again, Idle
  <2>2. /\ i \in Calls /\ i.op = c.op /\ i.build = c.build /\ i.inner = FALSE /\ i.got = {}
        /\ i.count = 0
        /\ i.todo = {} /\ i.known = FALSE
    BY IdleCall, CallFields DEF Idle, Calls
  <2> HIDE DEF i
  <2>3. /\ Again(c).op = c.op /\ Again(c).build = c.build /\ Again(c).inner = FALSE
        /\ Again(c).got = {} /\ Again(c).count = 0 /\ Again(c).todo = {}
        /\ Again(c).known = FALSE /\ Again(c).pc = p
    BY <2>1, <2>2 DEF Calls
  <2> QED
    BY <1>0, <2>3
<1> QED
  BY <1>1, <1>2

(* A step of a thread changes its own call only, and where it goes on.          *)
Same(c, d) == /\ d.op = c.op /\ d.build = c.build /\ d.inner = c.inner /\ d.count = c.count
              /\ d.todo = c.todo /\ d.known = c.known

Stale(c) == IF c.build \ c.got # {} /\ ~c.reinstall THEN c.build ELSE c.build \ c.got

Acts(t) == Step(t) \/ LookupIsMute(t) \/ CommandFails(t) \/ TokenFails(t) \/ ChecksumsFail(t)

(* A thread leaves the call of the other one alone.                             *)
LEMMA OtherCalls ==
  ASSUME AppsTypeOK, NEW t \in CallThreads, Acts(t)
  PROVE  \A u \in CallThreads \ {t} : call'[u] = call[u]
<1> DEFINE Goal == \A u \in CallThreads \ {t} : call'[u] = call[u]
<1>t. call \in [CallThreads -> Calls]
  BY DEF AppsTypeOK
<1>1. ASSUME NEW c, Go(t, c) PROVE Goal
  BY <1>1, <1>t DEF Go
<1>2. ASSUME Raise(t) PROVE Goal
  BY <1>2, <1>t DEF Raise
<1>3. ASSUME Return(t) PROVE Goal
  BY <1>3, <1>t DEF Return
<1> HIDE DEF Goal
<1>4. ASSUME Step(t) PROVE Goal
  BY <1>1, <1>2, <1>3, <1>4
  DEF Step, LookupCached, LookupDevice, PmPath, StorePaths, Decide, ComputeStaleApks, Pop, Run,
      Refused, StartReboot
<1>5. Goal
  BY <1>1, <1>2, <1>4 DEF Acts, LookupIsMute, PmPath, CommandFails, TokenFails, ChecksumsFail
<1> QED
  BY <1>5 DEF Goal

(* What each step makes of the call of the thread that takes it.                *)
LEMMA OwnCall ==
  ASSUME AppsTypeOK, NEW t \in CallThreads
  PROVE  /\ LookupCached(t) =>
               /\ paths \in 0..Cardinality(Apks)
               /\ call'[t] = Found(call[t], paths)
         /\ LookupDevice(t) => Same(call[t], call'[t]) /\ call'[t].pc = "store"
            /\ call'[t].got = app
         /\ LookupIsMute(t) => Same(call[t], call'[t]) /\ call'[t].pc = "store"
            /\ call'[t].got = {}
         /\ StorePaths(t) =>
               /\ Cardinality(call[t].got) \in 0..Cardinality(Apks)
               /\ Same(Found(call[t], Cardinality(call[t].got)), call'[t])
               /\ call'[t].pc = Found(call[t], Cardinality(call[t].got)).pc /\ call'[t].got = {}
         /\ Decide(t) =>
               \/ call'[t] = Decided(call[t], call[t].build, FALSE) /\ foreign' = foreign
               \/ /\ Same(call[t], call'[t]) /\ call[t].count > 0
                  /\ \/ /\ sums # Unknown /\ call'[t].pc = "compare" /\ call'[t].got = sums
                        /\ foreign' = foreign
                     \/ /\ sums = Unknown /\ app # {} /\ call'[t].pc = "fresh"
                        /\ call'[t].got = app
                        /\ Seen(t, {"sums"})
         /\ ComputeStaleApks(t) => call'[t] = Decided(call[t], Stale(call[t]), TRUE)
         /\ Pop(t) => /\ Same(call[t], call'[t]) /\ call'[t].got = call[t].got
                      /\ call[t].pc \in {"remove", "install"}
                      /\ call'[t].pc = IF call[t].pc = "remove" THEN "removing" ELSE "installing"
         /\ Run(t) => /\ Same(call[t], call'[t]) /\ call'[t].got = call[t].got
                      /\ \/ /\ call[t].pc = "removing" /\ app' = system
                            /\ call'[t].pc = IF call[t].inner THEN "install" ELSE "gone"
                         \/ /\ call[t].pc = "installing" /\ app' = Result(call[t])
                            /\ call'[t].pc = "grant"
         /\ StartReboot(t) => Same(call[t], call'[t]) /\ call'[t].pc = "wait"
                              /\ call[t].pc = "reboot" /\ call'[t].got = call[t].got
         /\ Return(t) => call'[t] = Idle
         /\ Refused(t) \/ CommandFails(t) \/ TokenFails(t) =>
               call'[t] = IF t = "late" THEN Idle ELSE Again(call[t])
         /\ ChecksumsFail(t) => call'[t] = Decided(call[t], call[t].build, FALSE)
<1> DEFINE c == call[t]
<1>t. call \in [CallThreads -> Calls] /\ c \in Calls
  BY DEF AppsTypeOK
<1>p. paths \in 0..Cardinality(Apks) \cup {Unknown}
  BY DEF AppsTypeOK
<1>f. c.build \in SUBSET Apks /\ c.got \in SUBSET Apks
  BY <1>t, CallFields
<1>g. ASSUME NEW d, Go(t, d) PROVE call'[t] = d
  BY <1>g, <1>t DEF Go
<1>r. Raise(t) => call'[t] = IF t = "late" THEN Idle ELSE Again(call[t])
  BY <1>t DEF Raise
<1>s. ASSUME NEW p
      PROVE  /\ Same(c, [c EXCEPT !.pc = p]) /\ [c EXCEPT !.pc = p].got = c.got
             /\ [c EXCEPT !.pc = p].pc = p
  BY <1>t DEF Calls, Same
<1>q. ASSUME NEW p, NEW S
      PROVE  /\ Same(c, [c EXCEPT !.pc = p, !.got = S])
             /\ [c EXCEPT !.pc = p, !.got = S].got = S
             /\ [c EXCEPT !.pc = p, !.got = S].pc = p
  BY <1>t DEF Calls, Same
<1>1. LookupCached(t) => paths \in 0..Cardinality(Apks) /\ call'[t] = Found(call[t], paths)
  BY <1>g, <1>p DEF LookupCached
<1>o. ASSUME NEW S, PmPath(t, S)
      PROVE  Same(call[t], call'[t]) /\ call'[t].pc = "store" /\ call'[t].got = S
  <2>1. call'[t] = [c EXCEPT !.pc = "store", !.got = S]
    BY <1>o, <1>t DEF PmPath, Go
  <2>2. /\ Same(c, [c EXCEPT !.pc = "store", !.got = S])
        /\ [c EXCEPT !.pc = "store", !.got = S].got = S
        /\ [c EXCEPT !.pc = "store", !.got = S].pc = "store"
    BY <1>q
  <2> QED
    BY <2>1, <2>2
<1>2. LookupDevice(t) => Same(call[t], call'[t]) /\ call'[t].pc = "store" /\ call'[t].got = app
  BY <1>o DEF LookupDevice
<1>2m. LookupIsMute(t) => Same(call[t], call'[t]) /\ call'[t].pc = "store" /\ call'[t].got = {}
  BY <1>o DEF LookupIsMute
<1>3. ASSUME StorePaths(t)
      PROVE  /\ Cardinality(call[t].got) \in 0..Cardinality(Apks)
             /\ Same(Found(call[t], Cardinality(call[t].got)), call'[t])
             /\ call'[t].pc = Found(call[t], Cardinality(call[t].got)).pc /\ call'[t].got = {}
  <2> DEFINE n == Cardinality(call[t].got)
             d == Found(call[t], n)
  <2>1. n \in 0..Cardinality(Apks)
    BY <1>f, CardApks
  <2>2. d \in Calls
    BY <1>t, <2>1, FoundCall
  <2>3. call'[t] = [d EXCEPT !.got = {}]
    BY <1>3, <1>g DEF StorePaths
  <2> HIDE DEF d
  <2>4. Same(d, call'[t]) /\ call'[t].pc = d.pc /\ call'[t].got = {}
    BY <2>2, <2>3 DEF Same, Calls
  <2> QED
    BY <2>1, <2>4 DEF d
<1>4. ASSUME Decide(t)
      PROVE  \/ call'[t] = Decided(call[t], call[t].build, FALSE) /\ foreign' = foreign
             \/ /\ Same(call[t], call'[t]) /\ call[t].count > 0
                /\ \/ /\ sums # Unknown /\ call'[t].pc = "compare" /\ call'[t].got = sums
                      /\ foreign' = foreign
                   \/ /\ sums = Unknown /\ app # {} /\ call'[t].pc = "fresh"
                      /\ call'[t].got = app
                      /\ Seen(t, {"sums"})
  <2>1. CASE Go(t, Decided(c, c.build, FALSE)) /\ foreign' = foreign
    BY <2>1, <1>g
  <2>2. CASE Comparable(c) /\ sums # Unknown /\ Go(t, [c EXCEPT !.pc = "compare", !.got = sums])
             /\ foreign' = foreign
    <3>1. call'[t] = [c EXCEPT !.pc = "compare", !.got = sums]
      BY <2>2, <1>t DEF Go
    <3>2. /\ Same(c, [c EXCEPT !.pc = "compare", !.got = sums])
          /\ [c EXCEPT !.pc = "compare", !.got = sums].got = sums
          /\ [c EXCEPT !.pc = "compare", !.got = sums].pc = "compare"
      BY <1>q
    <3>3. Same(call[t], call'[t]) /\ call'[t].pc = "compare" /\ call'[t].got = sums
      BY <3>1, <3>2
    <3> QED
      BY <2>2, <3>3 DEF Comparable
  <2>3. CASE /\ Comparable(c) /\ sums = Unknown /\ app # {}
             /\ Go(t, [c EXCEPT !.pc = "fresh", !.got = app])
             /\ Seen(t, {"sums"})
    <3>1. call'[t] = [c EXCEPT !.pc = "fresh", !.got = app]
      BY <2>3, <1>t DEF Go
    <3>2. /\ Same(c, [c EXCEPT !.pc = "fresh", !.got = app])
          /\ [c EXCEPT !.pc = "fresh", !.got = app].got = app
          /\ [c EXCEPT !.pc = "fresh", !.got = app].pc = "fresh"
      BY <1>q
    <3>3. Same(call[t], call'[t]) /\ call'[t].pc = "fresh" /\ call'[t].got = app
      BY <3>1, <3>2
    <3> QED
      BY <2>3, <3>3 DEF Comparable
  <2> QED
    BY <1>4, <2>1, <2>2, <2>3 DEF Decide
<1>5. ASSUME ComputeStaleApks(t)
      PROVE  call'[t] = Decided(call[t], Stale(call[t]), TRUE)
  BY <1>5, <1>t DEF ComputeStaleApks, Stale, Go
<1>6. Pop(t) => /\ Same(call[t], call'[t]) /\ call'[t].got = call[t].got
                /\ call[t].pc \in {"remove", "install"}
                /\ call'[t].pc = IF call[t].pc = "remove" THEN "removing" ELSE "installing"
  <2> DEFINE p == IF c.pc = "remove" THEN "removing" ELSE "installing"
  <2>1. Pop(t) => call'[t] = [c EXCEPT !.pc = p] /\ c.pc \in {"remove", "install"}
    BY <1>t DEF Pop, Go
  <2>2. /\ Same(c, [c EXCEPT !.pc = p]) /\ [c EXCEPT !.pc = p].got = c.got
        /\ [c EXCEPT !.pc = p].pc = p
    BY <1>s
  <2> QED
    BY <2>1, <2>2
<1>7. Run(t) => /\ Same(call[t], call'[t]) /\ call'[t].got = call[t].got
                /\ \/ /\ call[t].pc = "removing" /\ app' = system
                      /\ call'[t].pc = IF call[t].inner THEN "install" ELSE "gone"
                   \/ /\ call[t].pc = "installing" /\ app' = Result(call[t])
                      /\ call'[t].pc = "grant"
  <2> DEFINE p == IF c.inner THEN "install" ELSE "gone"
  <2>1. Run(t) => \/ c.pc = "removing" /\ app' = system /\ call'[t] = [c EXCEPT !.pc = p]
                  \/ /\ c.pc = "installing" /\ app' = Result(c)
                     /\ call'[t] = [c EXCEPT !.pc = "grant"]
    BY <1>t DEF Run, Go
  <2>2. /\ Same(c, [c EXCEPT !.pc = p]) /\ [c EXCEPT !.pc = p].got = c.got
        /\ [c EXCEPT !.pc = p].pc = p
    BY <1>s
  <2>3. /\ Same(c, [c EXCEPT !.pc = "grant"]) /\ [c EXCEPT !.pc = "grant"].got = c.got
        /\ [c EXCEPT !.pc = "grant"].pc = "grant"
    BY <1>s
  <2> QED
    BY <2>1, <2>2, <2>3
<1>8. StartReboot(t) => Same(call[t], call'[t]) /\ call'[t].pc = "wait"
                        /\ call[t].pc = "reboot" /\ call'[t].got = call[t].got
  <2>1. StartReboot(t) => call'[t] = [c EXCEPT !.pc = "wait"] /\ c.pc = "reboot"
    BY <1>t DEF StartReboot, Go
  <2>2. /\ Same(c, [c EXCEPT !.pc = "wait"]) /\ [c EXCEPT !.pc = "wait"].got = c.got
        /\ [c EXCEPT !.pc = "wait"].pc = "wait"
    BY <1>s
  <2> QED
    BY <2>1, <2>2
<1>9. Return(t) => call'[t] = Idle
  BY <1>t DEF Return
<1>10. Refused(t) \/ CommandFails(t) \/ TokenFails(t) =>
           call'[t] = IF t = "late" THEN Idle ELSE Again(call[t])
  BY <1>r DEF Refused, CommandFails, TokenFails
<1>11. ChecksumsFail(t) => call'[t] = Decided(call[t], call[t].build, FALSE)
  BY <1>g DEF ChecksumsFail
<1> QED
  BY <1>1, <1>2, <1>2m, <1>3, <1>4, <1>5, <1>6, <1>7, <1>8, <1>9, <1>10, <1>11

Live == call["live"]
Late == call["late"]

--------------------------------------------------------------------------------
(* What a call knows of itself: only Install has apks, decides and compares;    *)
(* what is to be installed are apks of the build, and all of them when the app  *)
(* goes first.                                                                  *)
Shaped(c) ==
    /\ c.pc \in {"decide", "fresh", "compare", "install", "installing", "grant"} \/ c.inner
         => c.op = "install"
    /\ c.pc \in {"remove", "removing"} => c.op # "install" \/ c.inner
    /\ c.pc = "gone" => c.op # "install"
    /\ c.op = "install" => c.build \in Builds
    /\ c.op # "install" => c.build = {} /\ c.todo = {}
    /\ c.pc \in {"idle", "reboot", "wait"} => c.count = 0 /\ ~c.known
    /\ c.pc \in {"fresh", "compare"} => c.count > 0
    /\ c.todo \subseteq c.build
    /\ c.inner => c.todo = c.build \/ c.pc = "grant"

Shape == \A t \in CallThreads : Shaped(call[t])

(* Each way in which a call goes on keeps its shape.                            *)
LEMMA ShapedIdle == Shaped(Idle)
BY DEF Shaped, Idle

LEMMA ShapedAgain == \A c \in Calls : Shaped(c) => Shaped(Again(c))
<1> SUFFICES ASSUME NEW c \in Calls, Shaped(c) PROVE Shaped(Again(c))
  OBVIOUS
<1> DEFINE a == Again(c)
<1>1. /\ a.pc \in {"idle", "reboot", "lookup"} /\ ~a.inner /\ a.count = 0 /\ a.todo = {}
      /\ ~a.known
      /\ a = Idle \/ (a.op = c.op /\ a.build = c.build)
  BY AgainFields
<1> HIDE DEF a
<1>2. CASE a = Idle
  BY <1>2, ShapedIdle DEF a
<1>3. CASE a.op = c.op /\ a.build = c.build
  <2>1. Shaped(a)
    BY <1>1, <1>3 DEF Shaped
  <2> QED
    BY <2>1 DEF a
<1> QED
  BY <1>1, <1>2, <1>3

LEMMA ShapedFound == \A c \in Calls, n \in 0..Cardinality(Apks) :
    Shaped(c) /\ c.pc \in {"lookup", "store"} => Shaped(Found(c, n))
<1> SUFFICES ASSUME NEW c \in Calls, NEW n \in 0..Cardinality(Apks), Shaped(c),
                    c.pc \in {"lookup", "store"}
             PROVE  Shaped(Found(c, n))
  OBVIOUS
<1> DEFINE d == Found(c, n)
<1>1. /\ d.count = n
      /\ d.pc = IF c.op = "install" /\ ~c.inner THEN "decide"
                ELSE IF n > 0 THEN "remove" ELSE IF c.inner THEN "install" ELSE "gone"
      /\ d.op = c.op /\ d.build = c.build /\ d.inner = c.inner /\ d.todo = c.todo
      /\ d.known = c.known
  BY FoundFields
<1> HIDE DEF d
<1>2. Shaped(d)
  BY <1>1 DEF Shaped
<1> QED
  BY <1>2 DEF d

LEMMA ShapedDecided == \A c \in Calls, todo \in SUBSET Apks, known \in BOOLEAN :
    Shaped(c) /\ c.op = "install" /\ todo \subseteq c.build
    /\ (todo = {} \/ todo = c.build \/ ~(c.count > 0 /\ ~c.reinstall))
        => Shaped(Decided(c, todo, known))
<1> SUFFICES ASSUME NEW c \in Calls, NEW todo \in SUBSET Apks, NEW known \in BOOLEAN, Shaped(c),
                    c.op = "install", todo \subseteq c.build,
                    todo = {} \/ todo = c.build \/ ~(c.count > 0 /\ ~c.reinstall)
             PROVE  Shaped(Decided(c, todo, known))
  OBVIOUS
<1> DEFINE d == Decided(c, todo, known)
<1>1. /\ d.todo = todo /\ d.inner = (c.count > 0 /\ ~c.reinstall)
      /\ d.pc = IF todo = {} THEN "grant"
                ELSE IF c.count > 0 /\ ~c.reinstall THEN "lookup" ELSE "install"
      /\ d.op = c.op /\ d.build = c.build /\ d.count = c.count
  BY DecidedFields
<1> HIDE DEF d
<1>2. Shaped(d)
  BY <1>1 DEF Shaped
<1> QED
  BY <1>2 DEF d

LEMMA ShapedSame ==
  ASSUME NEW c, NEW d, Shaped(c), Same(c, d),
         \/ c.pc = "lookup" /\ d.pc = "store"
         \/ c.pc = "decide" /\ d.pc \in {"fresh", "compare"} /\ c.count > 0 /\ c.op = "install"
         \/ c.pc = "remove" /\ d.pc = "removing"
         \/ c.pc = "install" /\ d.pc = "installing"
         \/ c.pc = "removing" /\ d.pc = IF c.inner THEN "install" ELSE "gone"
         \/ c.pc = "installing" /\ d.pc = "grant"
         \/ c.pc = "reboot" /\ d.pc = "wait"
  PROVE  Shaped(d)
BY DEF Shaped, Same

(* So does every step of its thread.                                            *)
LEMMA ShapedActs ==
  ASSUME AppsTypeOK, Shape, NEW t \in CallThreads, Acts(t)
  PROVE  Shaped(call'[t])
<1> DEFINE c == call[t]
<1>t. /\ c \in Calls /\ Shaped(c) /\ c.got \in SUBSET Apks /\ c.build \in SUBSET Apks
      /\ c.count \in 0..Cardinality(Apks) /\ c.reinstall \in BOOLEAN
  BY CallFields DEF AppsTypeOK, Shape
<1>1. CASE LookupCached(t)
  BY <1>1, <1>t, OwnCall, ShapedFound DEF LookupCached
<1>2. CASE LookupDevice(t)
  BY <1>2, <1>t, OwnCall, ShapedSame DEF LookupDevice, PmPath
<1>2m. CASE LookupIsMute(t)
  BY <1>2m, <1>t, OwnCall, ShapedSame DEF LookupIsMute, PmPath
<1>3. CASE StorePaths(t)
  <2> DEFINE n == Cardinality(c.got)
             d == Found(c, n)
  <2>1. c.pc = "store" /\ n \in 0..Cardinality(Apks)
    BY <1>3, OwnCall DEF StorePaths
  <2>2. Shaped(d)
    BY <1>t, <2>1, ShapedFound
  <2>3. Same(d, call'[t]) /\ call'[t].pc = d.pc
    BY <1>3, OwnCall
  <2> HIDE DEF d
  <2> QED
    BY <2>2, <2>3 DEF Shaped, Same
<1>4. CASE Decide(t)
  <2>1. c.pc = "decide" /\ c.op = "install"
    BY <1>4, <1>t DEF Decide, Shaped
  <2>2. Shaped(Decided(c, c.build, FALSE))
    BY <1>t, <2>1, ShapedDecided
  <2>3. CASE call'[t] = Decided(c, c.build, FALSE)
    BY <2>2, <2>3
  <2>4. CASE Same(c, call'[t]) /\ c.count > 0 /\ call'[t].pc \in {"fresh", "compare"}
    BY <1>t, <2>1, <2>4, ShapedSame
  <2> QED
    BY <1>4, OwnCall, <2>3, <2>4
<1>5. CASE ComputeStaleApks(t)
  <2>1. c.op = "install"
    BY <1>5, <1>t DEF ComputeStaleApks, Shaped
  <2>2. /\ Stale(c) \subseteq c.build /\ Stale(c) \in SUBSET Apks
        /\ Stale(c) = {} \/ Stale(c) = c.build \/ ~(c.count > 0 /\ ~c.reinstall)
    BY <1>t DEF Stale
  <2>3. Shaped(Decided(c, Stale(c), TRUE))
    BY <1>t, <2>1, <2>2, ShapedDecided
  <2> QED
    BY <1>5, <2>3, OwnCall
<1>6. CASE Pop(t)
  BY <1>6, <1>t, OwnCall, ShapedSame
<1>7. CASE Run(t)
  BY <1>7, <1>t, OwnCall, ShapedSame
<1>8. CASE StartReboot(t)
  BY <1>8, <1>t, OwnCall, ShapedSame
<1>9. CASE Return(t) \/ Refused(t) \/ CommandFails(t) \/ TokenFails(t)
  BY <1>9, <1>t, OwnCall, ShapedIdle, ShapedAgain
<1>10. CASE ChecksumsFail(t)
  <2>1. c.op = "install"
    BY <1>10, <1>t DEF ChecksumsFail, Shaped
  <2>2. Shaped(Decided(c, c.build, FALSE))
    BY <1>t, <2>1, ShapedDecided
  <2> QED
    BY <1>10, <2>2, OwnCall
<1> QED
  BY <1>1, <1>2, <1>2m, <1>3, <1>4, <1>5, <1>6, <1>7, <1>8, <1>9, <1>10 DEF Acts, Step

(* A call that begins.                                                          *)
LEMMA BeginCall ==
  ASSUME AppsTypeOK,
         Uninstall \/ Reboot \/ \E b \in Builds, reinstall \in BOOLEAN : Install(b, reinstall)
  PROVE  /\ Shaped(Live') /\ Live'.pc \in {"lookup", "reboot"} /\ Live'.count = 0
         /\ ~Live'.known
         /\ Free /\ Late' = Late
         /\ UNCHANGED <<device, marks, token, cached, saved, foreign>>
<1> DEFINE Goal == /\ Shaped(Live') /\ Live'.pc \in {"lookup", "reboot"} /\ Live'.count = 0
                   /\ ~Live'.known
                   /\ Free /\ Late' = Late
                   /\ UNCHANGED <<device, marks, token, cached, saved, foreign>>
<1>t. call \in [CallThreads -> Calls] /\ "live" \in CallThreads /\ "late" \in CallThreads
  BY DEF AppsTypeOK, CallThreads
<1>b. ASSUME NEW d, Begin(d), Shaped(d), d.pc \in {"lookup", "reboot"}, d.count = 0,
             d.known = FALSE
      PROVE  Goal
  BY <1>b, <1>t DEF Begin, Live, Late
<1> HIDE DEF Goal
<1>1. ASSUME Uninstall PROVE Goal
  <2> DEFINE d == [Idle EXCEPT !.op = "uninstall", !.pc = "lookup"]
  <2>1. /\ Shaped(d) /\ d.pc = "lookup" /\ d.count = 0 /\ d.known = FALSE /\ Begin(d)
    BY <1>1 DEF Idle, Uninstall, Shaped
  <2> HIDE DEF d
  <2> QED
    BY <1>b, <2>1
<1>2. ASSUME Reboot PROVE Goal
  <2> DEFINE d == [Idle EXCEPT !.op = "reboot", !.pc = "reboot"]
  <2>1. /\ Shaped(d) /\ d.pc = "reboot" /\ d.count = 0 /\ d.known = FALSE /\ Begin(d)
    BY <1>2 DEF Idle, Reboot, Shaped
  <2> HIDE DEF d
  <2> QED
    BY <1>b, <2>1
<1>3. ASSUME NEW b \in Builds, NEW reinstall \in BOOLEAN, Install(b, reinstall) PROVE Goal
  <2> DEFINE d == [Idle EXCEPT !.op = "install", !.pc = "lookup", !.build = b, !.reinstall = reinstall]
  <2>1. /\ d.pc = "lookup" /\ d.count = 0 /\ d.known = FALSE /\ d.op = "install" /\ d.build = b
        /\ d.inner = FALSE /\ d.todo = {}
    BY DEF Idle
  <2>2. Begin(d)
    BY <1>3 DEF Install
  <2> HIDE DEF d
  <2>3. Shaped(d)
    BY <2>1 DEF Shaped
  <2> QED
    BY <1>b, <2>1, <2>2, <2>3
<1>4. Goal
  BY <1>1, <1>2, <1>3
<1> QED
  BY <1>4 DEF Goal

(* And every other step.                                                        *)
LEMMA ShapeStep == ASSUME AppsTypeOK, Shape, AppsNext PROVE Shape'
<1>l. "live" # "late" /\ CallThreads = {"live", "late"}
  BY DEF CallThreads
<1>t. call \in [CallThreads -> Calls] /\ Live \in Calls /\ Shaped(Live) /\ Shaped(Late)
  BY <1>l DEF AppsTypeOK, Shape, Live, Late
<1>s. ASSUME Shaped(Live'), Shaped(Late') PROVE Shape'
  BY <1>s, <1>l DEF Shape, Live, Late
<1>u. ASSUME UNCHANGED call PROVE Shape'
  BY <1>u DEF Shape
<1>1. ASSUME \/ Uninstall \/ Reboot
             \/ \E b \in Builds, reinstall \in BOOLEAN : Install(b, reinstall)
      PROVE  Shape'
  BY <1>1, <1>t, <1>s, BeginCall
<1>2. ASSUME NewSession PROVE Shape'
  BY <1>2, <1>l, <1>s, ShapedIdle DEF NewSession, Live, Late
<1>3. ASSUME TimeOut PROVE Shape'
  <2>1. Live' = Again(Live) /\ Late' = Live
    BY <1>3 DEF TimeOut, Live, Late
  <2> QED
    BY <2>1, <1>t, <1>s, ShapedAgain
<1>4. ASSUME NEW t \in CallThreads, Acts(t) PROVE Shape'
  <2>1. Shaped(call'[t]) /\ \A u \in CallThreads \ {t} : call'[u] = call[u]
    BY <1>4, ShapedActs, OtherCalls
  <2> QED
    BY <2>1 DEF Shape
<1>5. ASSUME LoadCacheData \/ DumpCacheData \/ OtherChange
      PROVE  UNCHANGED call
  BY <1>5 DEF LoadCacheData, DumpCacheData, OtherChange
<1> QED
  BY <1>u, <1>1, <1>2, <1>3, <1>4, <1>5 DEF AppsNext, Acts

--------------------------------------------------------------------------------
(* A dump that the token does not make stale agrees with the device, unless     *)
(* something was changed behind it.                                             *)
DumpAgrees ==
    "dump" \in marks /\ ~dumpForeign =>
        /\ dump.paths # Unknown => dump.paths = Cardinality(app)
        /\ dump.sums # Unknown => dump.sums \subseteq app

(* A dump stays right, or is marked, or its token is gone from the device.      *)
LEMMA DumpStep ==
  ASSUME AppsTypeOK, AppCacheAgrees, DumpAgrees, AppsNext
  PROVE  DumpAgrees'
<1>u. ASSUME UNCHANGED <<app, dump, dumpForeign>>, marks' \subseteq marks PROVE DumpAgrees'
  BY <1>u DEF DumpAgrees
<1>e. ASSUME EnsureToken, UNCHANGED <<app, dump>> PROVE DumpAgrees'
  BY <1>e, <1>u DEF EnsureToken, DumpAgrees
<1>f. ASSUME dumpForeign' = ("dump" \in marks), UNCHANGED marks PROVE DumpAgrees'
  BY <1>f DEF DumpAgrees
<1>1. ASSUME LoadCacheData PROVE DumpAgrees'
  BY <1>1, <1>e DEF LoadCacheData, device
<1>2. ASSUME NewSession PROVE DumpAgrees'
  BY <1>2, <1>u DEF NewSession, ClearCache, device, saved
<1>3. ASSUME DumpCacheData PROVE DumpAgrees'
  <2>1. /\ dump'.paths = paths /\ dump'.sums = sums /\ app' = app
        /\ dumpForeign' = (marks' # {} /\ foreign \cap {"paths", "sums"} # {})
    BY <1>3 DEF DumpCacheData, device
  <2>2. SUFFICES ASSUME "dump" \in marks', ~dumpForeign' 
                 PROVE  /\ paths # Unknown => paths = Cardinality(app)
                        /\ sums # Unknown => sums \subseteq app
    BY <2>1 DEF DumpAgrees
  <2>3. "paths" \notin foreign /\ "sums" \notin foreign
    BY <2>1, <2>2
  <2> QED
    BY <2>3 DEF AppCacheAgrees
<1>4. ASSUME OtherChange PROVE DumpAgrees'
  BY <1>4, <1>f DEF OtherChange, DumpAgrees
<1>5. ASSUME TimeOut \/ Uninstall \/ Reboot PROVE DumpAgrees'
  BY <1>5, <1>u DEF TimeOut, Uninstall, Reboot, Begin, device, saved
<1>6. ASSUME NEW b, NEW reinstall, Install(b, reinstall) PROVE DumpAgrees'
  BY <1>6, <1>u DEF Install, Begin, device, saved
<1>7. ASSUME NEW t \in CallThreads, LookupIsMute(t) PROVE DumpAgrees'
  BY <1>7, <1>e DEF LookupIsMute, PmPath, device
<1>8. ASSUME NEW t \in CallThreads, TokenFails(t) PROVE DumpAgrees'
  <2>1. app' = app /\ dump' = dump
    BY <1>8 DEF TokenFails, device
  <2>2. CASE marks' = {}
    BY <2>2 DEF DumpAgrees
  <2>3. CASE marks' = marks /\ marks # {}
    <3>1. dumpForeign' = dumpForeign
      BY <1>8, <2>3 DEF TokenFails, AppsTypeOK
    <3> QED
      BY <2>1, <2>3, <3>1, <1>u
  <2> QED
    BY <1>8, <2>2, <2>3 DEF TokenFails
<1>9. ASSUME NEW t \in CallThreads, Step(t) PROVE DumpAgrees'
  <2>1. ASSUME \/ LookupCached(t) \/ StorePaths(t) \/ ComputeStaleApks(t)
               \/ Refused(t) \/ Return(t)
        PROVE  DumpAgrees'
    BY <2>1, <1>u DEF LookupCached, StorePaths, ComputeStaleApks, Refused, Return, device, saved
  <2>2. ASSUME LookupDevice(t) \/ Pop(t) PROVE DumpAgrees'
    BY <2>2, <1>e, <1>u DEF LookupDevice, PmPath, Pop, device
  <2>3. ASSUME Decide(t) PROVE DumpAgrees'
    BY <2>3, <1>u, <1>e DEF Decide, device, saved
  <2>4. ASSUME Run(t) PROVE DumpAgrees'
    BY <2>4, <1>f DEF Run
  <2>5. ASSUME StartReboot(t) PROVE DumpAgrees'
    BY <2>5, <1>u DEF StartReboot, ClearCache, device, saved
  <2> QED
    BY <1>9, <2>1, <2>2, <2>3, <2>4, <2>5 DEF Step
<1>10. ASSUME NEW t \in CallThreads, CommandFails(t) PROVE DumpAgrees'
  <2>1. CASE app' = app
    BY <1>10, <1>u, <2>1 DEF CommandFails
  <2>2. CASE app' # app
    BY <1>10, <1>f, <2>2 DEF CommandFails
  <2> QED
    BY <2>1, <2>2
<1>11. ASSUME NEW t \in CallThreads, ChecksumsFail(t) PROVE DumpAgrees'
  BY <1>11, <1>u DEF ChecksumsFail, device, saved
<1> QED
  BY <1>1, <1>2, <1>3, <1>4, <1>5, <1>6, <1>7, <1>8, <1>9, <1>10, <1>11 DEF AppsNext

(* What the live thread has read, and what it may still rely on: the apks it    *)
(* saw, until others change them; that the entries it dropped are not there     *)
(* while it changes the app; and the apks beside which it installs the rest.    *)
Stored   == Live.pc = "store" =>
                IF foreign \cap {"now", "mute"} # {} THEN "paths" \in foreign ELSE Live.got = app
Compared == Live.pc \in {"fresh", "compare"} /\ "sums" \notin foreign =>
                Live.got \subseteq app
Changing == Live.pc \in {"removing", "installing"} =>
                /\ paths = Unknown \/ "paths" \in foreign
                /\ sums = Unknown \/ "sums" \in foreign
Beside   == Live.pc \in {"install", "installing"} /\ "now" \notin foreign /\ "sums" \notin foreign =>
                Live.build \ Live.todo \subseteq app
Granted  == Live.pc = "grant" /\ "now" \notin foreign /\ "sums" \notin foreign =>
                Live.build \subseteq app
Removed  == Live.pc = "gone" => app \subseteq system \/ "paths" \in foreign \/ "now" \in foreign

LiveSees == Stored /\ Compared /\ Changing /\ Beside /\ Granted /\ Removed

(* Each step keeps the cache right, or puts what it makes wrong in the history. *)
LEMMA CacheStep ==
  ASSUME AppsTypeOK, Shape, AppCacheAgrees, DumpAgrees, LiveSees, AppsNext
  PROVE  AppCacheAgrees'
<1> DEFINE P == paths' # Unknown /\ "paths" \notin foreign' => paths' = Cardinality(app')
           S == sums' # Unknown /\ "sums" \notin foreign' => sums' \subseteq app'
<1>l. "live" # "late" /\ CallThreads = {"live", "late"}
  BY DEF CallThreads
<1>g. P /\ S => AppCacheAgrees'
  BY DEF AppCacheAgrees
<1>p. ASSUME app' = app, paths' = paths, "paths" \in foreign => "paths" \in foreign' PROVE P
  BY <1>p DEF AppCacheAgrees
<1>s. ASSUME app' = app, sums' = sums, "sums" \in foreign => "sums" \in foreign' PROVE S
  BY <1>s DEF AppCacheAgrees
<1>q. /\ paths' = Unknown \/ "paths" \in foreign' => P
      /\ sums' = Unknown \/ "sums" \in foreign' => S
  OBVIOUS
<1> HIDE DEF P, S
<1>1. ASSUME LoadCacheData PROVE P /\ S
  <2>1. app' = app
    BY <1>1 DEF LoadCacheData, device
  <2>2. CASE "dump" \in marks
    <3>1. paths' = dump.paths /\ sums' = dump.sums
          /\ foreign' = IF dumpForeign THEN {"paths", "sums", "loaded"} ELSE {}
      BY <1>1, <2>2 DEF LoadCacheData
    <3>2. CASE dumpForeign
      BY <3>1, <3>2, <1>q
    <3>3. CASE ~dumpForeign
      BY <2>1, <2>2, <3>1, <3>3 DEF DumpAgrees, P, S
    <3> QED
      BY <3>2, <3>3
  <2>3. CASE "dump" \notin marks
    BY <1>1, <1>p, <1>s, <2>1, <2>3 DEF LoadCacheData, cached
  <2> QED
    BY <2>2, <2>3
<1>2. ASSUME NewSession PROVE P /\ S
  BY <1>2, <1>q DEF NewSession, ClearCache
<1>3. ASSUME DumpCacheData \/ TimeOut \/ Uninstall \/ Reboot PROVE P /\ S
  BY <1>3, <1>p, <1>s DEF DumpCacheData, TimeOut, Uninstall, Reboot, Begin, device, cached
<1>4. ASSUME OtherChange PROVE P /\ S
  BY <1>4, <1>q DEF OtherChange
<1>6. ASSUME NEW b, NEW reinstall, Install(b, reinstall) PROVE P /\ S
  BY <1>6, <1>p, <1>s DEF Install, Begin, device, cached
<1>7. ASSUME NEW t \in CallThreads, LookupIsMute(t) PROVE P /\ S
  BY <1>7, <1>p, <1>s, <1>q DEF LookupIsMute, PmPath, device
<1>8. ASSUME NEW t \in CallThreads, TokenFails(t) PROVE P /\ S
  BY <1>8, <1>p, <1>s, <1>q DEF TokenFails, PopCache, Popped, device, cached
<1>9. ASSUME NEW t \in CallThreads, Step(t) PROVE P /\ S
  <2>1. ASSUME LookupCached(t) \/ Refused(t) PROVE P /\ S
    BY <2>1, <1>p, <1>s DEF LookupCached, Refused, device, cached
  <2>2. ASSUME LookupDevice(t) PROVE P /\ S
    BY <2>2, <1>p, <1>s, <1>q DEF LookupDevice, PmPath, Seen, device
  <2>3. ASSUME StorePaths(t) PROVE P /\ S
    <3>1. /\ app' = app /\ sums' = sums /\ paths' = Cardinality(call[t].got)
          /\ call[t].pc = "store"
      BY <2>3 DEF StorePaths, device
    <3>2. S
      BY <2>3, <3>1, <1>s DEF StorePaths
    <3>3. CASE t = "live"
      <4>1. CASE foreign \cap {"now", "mute"} # {}
        <5>1. "paths" \in foreign
          BY <3>1, <3>3, <4>1 DEF LiveSees, Stored, Live
        <5> QED
          BY <2>3, <3>2, <3>3, <4>1, <5>1, <1>q DEF StorePaths
      <4>2. CASE foreign \cap {"now", "mute"} = {}
        BY <3>1, <3>2, <3>3, <4>2 DEF LiveSees, Stored, Live, P
      <4> QED
        BY <4>1, <4>2
    <3>4. CASE t = "late"
      <4>1. CASE paths = Cardinality(call[t].got)
        BY <2>3, <3>1, <3>2, <3>4, <4>1, <1>l, <1>p DEF StorePaths
      <4>2. CASE paths # Cardinality(call[t].got)
        BY <2>3, <3>2, <3>4, <4>2, <1>l, <1>q DEF StorePaths
      <4> QED
        BY <4>1, <4>2
    <3> QED
      BY <1>l, <3>3, <3>4
  <2>4. ASSUME Decide(t) PROVE P /\ S
    <3>1. app' = app /\ paths' = paths /\ sums' = sums
      BY <2>4 DEF Decide, device, cached
    <3>2. P
      BY <2>4, <3>1, <1>p DEF Decide, Seen
    <3>3. CASE sums = Unknown
      BY <3>1, <3>2, <3>3, <1>q
    <3>4. CASE sums # Unknown
      BY <2>4, <3>1, <3>2, <3>4, <1>s DEF Decide
    <3> QED
      BY <3>3, <3>4
  <2>5. ASSUME ComputeStaleApks(t) PROVE P /\ S
    <3>1. app' = app /\ paths' = paths /\ call[t].pc \in {"fresh", "compare"}
          /\ sums' = IF call[t].pc = "fresh" THEN call[t].got ELSE sums
      BY <2>5 DEF ComputeStaleApks, device
    <3>2. P
      BY <2>5, <3>1, <1>p DEF ComputeStaleApks, Behind
    <3>3. CASE sums' = sums
      BY <2>5, <3>1, <3>2, <3>3, <1>s DEF ComputeStaleApks, Behind
    <3>4. CASE sums' # sums /\ t = "live"
      <4>1. foreign' = foreign /\ sums' = Live.got /\ Live.pc = "fresh"
        BY <2>5, <3>1, <3>4 DEF ComputeStaleApks, Behind, Live
      <4> QED
        BY <3>1, <3>2, <4>1 DEF LiveSees, Compared, S
    <3>5. CASE sums' # sums /\ t = "late"
      <4>1. "sums" \in foreign'
        BY <2>5, <3>1, <3>5, <1>l DEF ComputeStaleApks, Behind
      <4> QED
        BY <3>2, <4>1, <1>q
    <3> QED
      BY <1>l, <3>3, <3>4, <3>5
  <2>6. ASSUME Pop(t) PROVE P /\ S
    BY <2>6, <1>q DEF Pop, PopCache, Popped
  <2>7. ASSUME Run(t) PROVE P /\ S
    <3>1. CASE t = "live"
      <4>1. /\ foreign' = foreign /\ paths' = paths /\ sums' = sums
            /\ Live.pc \in {"removing", "installing"}
        BY <2>7, <3>1 DEF Run, Behind, cached, Live
      <4> QED
        BY <4>1, <1>q DEF LiveSees, Changing
    <3>2. CASE t = "late"
      BY <2>7, <3>2, <1>l, <1>q DEF Run, Behind
    <3> QED
      BY <1>l, <3>1, <3>2
  <2>8. ASSUME Return(t) PROVE P /\ S
    <3>1. app' = app /\ paths' = paths
      BY <2>8 DEF Return, device
    <3>2. P
      BY <2>8, <3>1, <1>p DEF Return
    <3>3. CASE sums' = sums
      BY <2>8, <3>1, <3>2, <3>3, <1>s DEF Return
    <3>4. CASE sums' # sums /\ (t = "late" \/ "now" \in foreign)
      BY <2>8, <3>2, <3>4, <1>q DEF Return
    <3>5. CASE sums' # sums /\ t = "live" /\ "now" \notin foreign
      <4>1. foreign' = foreign /\ sums' = Live.build /\ Live.op = "install" /\ Live.known
            /\ Live.pc \in {"grant", "gone", "wait"}
        BY <2>8, <3>5, <1>l DEF Return, Live
      <4>2. Live.pc = "grant"
        BY <4>1, <1>l DEF Shape, Shaped, Live
      <4> QED
        BY <3>1, <3>2, <3>5, <4>1, <4>2 DEF LiveSees, Granted, S
    <3> QED
      BY <1>l, <3>3, <3>4, <3>5
  <2>9. ASSUME StartReboot(t) PROVE P /\ S
    BY <2>9, <1>q DEF StartReboot, ClearCache
  <2> QED
    BY <1>9, <2>1, <2>2, <2>3, <2>4, <2>5, <2>6, <2>7, <2>8, <2>9 DEF Step
<1>10. ASSUME NEW t \in CallThreads, CommandFails(t) PROVE P /\ S
  <2>1. CASE app' = app
    BY <1>10, <2>1, <1>p, <1>s DEF CommandFails, cached
  <2>2. CASE app' # app /\ t = "live"
    <3>1. /\ foreign' = foreign /\ paths' = paths /\ sums' = sums
          /\ Live.pc \in {"removing", "installing"}
      BY <1>10, <2>2 DEF CommandFails, Behind, cached, Live
    <3> QED
      BY <3>1, <1>q DEF LiveSees, Changing
  <2>3. CASE app' # app /\ t = "late"
    BY <1>10, <2>3, <1>l, <1>q DEF CommandFails, Behind
  <2> QED
    BY <1>l, <2>1, <2>2, <2>3
<1>11. ASSUME NEW t \in CallThreads, ChecksumsFail(t) PROVE P /\ S
  BY <1>11, <1>p, <1>s DEF ChecksumsFail, device, cached
<1>12. P /\ S
  BY <1>1, <1>2, <1>3, <1>4, <1>6, <1>7, <1>8, <1>9, <1>10, <1>11 DEF AppsNext
<1> QED
  BY <1>12, <1>g

(* What others do, the late thread among them, leaves the live thread what it   *)
(* relies on, or is in the history.                                             *)
LEMMA LiveKept ==
  ASSUME LiveSees, Live' = Live, app' = app, system' = system,
         "now" \in foreign' <=> "now" \in foreign, "mute" \in foreign' <=> "mute" \in foreign,
         "paths" \in foreign => "paths" \in foreign', "sums" \in foreign => "sums" \in foreign',
         paths' = paths \/ paths' = Unknown \/ "paths" \in foreign',
         sums' = sums \/ sums' = Unknown \/ "sums" \in foreign'
  PROVE  LiveSees'
BY DEF LiveSees, Stored, Compared, Changing, Beside, Granted, Removed

LEMMA LiveBehind ==
  ASSUME LiveSees, Live' = Live, "now" \in foreign', "paths" \in foreign', "sums" \in foreign'
  PROVE  LiveSees'
BY DEF LiveSees, Stored, Compared, Changing, Beside, Granted, Removed

LEMMA LiveFresh ==
  ASSUME Live'.pc \in {"idle", "lookup", "reboot", "wait", "decide", "remove"}
  PROVE  LiveSees'
BY DEF LiveSees, Stored, Compared, Changing, Beside, Granted, Removed

(* Installed beside what is there, or in its place, a build is complete.        *)
LEMMA ResultHas ==
  ASSUME NEW c \in Calls, Shaped(c), c.op = "install",
         Partial(c) => c.build \ c.todo \subseteq app
  PROVE  c.build \subseteq Result(c)
<1>1. CASE ~Partial(c)
  BY <1>1 DEF Partial, Result
<1>2. CASE Partial(c)
  <2> SUFFICES ASSUME NEW b \in c.build, b \notin c.todo PROVE b \in Result(c)
    BY <1>2 DEF Result
  <2>1. b \in app /\ c.todo \subseteq c.build /\ c.build \in Builds
    BY <1>2 DEF Shaped
  <2>2. \A x \in c.todo : x[1] # b[1]
    BY <2>1, AppsAssumption
  <2> QED
    BY <1>2, <2>1, <2>2 DEF Result
<1> QED
  BY <1>1, <1>2

(* Each step keeps what the live thread relies on.                              *)
LEMMA LiveStep ==
  ASSUME AppsTypeOK, Shape, AppCacheAgrees, LiveSees, AppsNext
  PROVE  LiveSees'
<1>l. "live" # "late" /\ CallThreads = {"live", "late"}
  BY DEF CallThreads
<1>t. /\ Live \in Calls /\ Shaped(Live) /\ app \in SUBSET Apks
      /\ Live.build \in SUBSET Apks /\ Live.got \in SUBSET Apks
  BY <1>l, CallFields DEF AppsTypeOK, Shape, Live
<1>i. Live.op = "install" => Live.build # {}
  BY <1>t, AppsAssumption DEF Shaped
<1>1. ASSUME LoadCacheData PROVE LiveSees'
  BY <1>1, <1>l, LiveFresh DEF LoadCacheData, Free, Idle, Live
<1>2. ASSUME NewSession PROVE LiveSees'
  BY <1>2, <1>l, LiveFresh DEF NewSession, Idle, Live
<1>3. ASSUME DumpCacheData PROVE LiveSees'
  BY <1>3, LiveFresh DEF DumpCacheData, Free, Idle, Live
<1>4. ASSUME OtherChange PROVE LiveSees'
  BY <1>4, LiveBehind DEF OtherChange, Live
<1>6. ASSUME \/ Uninstall \/ Reboot
             \/ \E b \in Builds, reinstall \in BOOLEAN : Install(b, reinstall)
      PROVE  LiveSees'
  BY <1>6, BeginCall, LiveFresh
<1>9. ASSUME TimeOut PROVE LiveSees'
  <2>1. Live' = Again(Live)
    BY <1>9 DEF TimeOut, Live
  <2> QED
    BY <2>1, <1>t, AgainFields, LiveFresh
<1>10. ASSUME Acts("late") PROVE LiveSees'
  <2> DEFINE t == "late"
  <2>0. Live' = Live
    BY <1>10, <1>l, OtherCalls DEF Live
  <2>1. ASSUME LookupCached(t) \/ Refused(t) \/ ChecksumsFail(t) PROVE LiveSees'
    BY <2>1, <2>0, LiveKept DEF LookupCached, Refused, ChecksumsFail, device, cached
  <2>2. ASSUME LookupDevice(t) \/ LookupIsMute(t) PROVE LiveSees'
    BY <2>2, <2>0, LiveKept DEF LookupDevice, LookupIsMute, PmPath, Seen, device
  <2>3. ASSUME StorePaths(t) PROVE LiveSees'
    <3>1. CASE paths = Cardinality(call[t].got)
      BY <2>3, <2>0, <3>1, LiveKept DEF StorePaths, device
    <3>2. CASE paths # Cardinality(call[t].got)
      BY <2>3, <2>0, <3>2, LiveKept DEF StorePaths, device
    <3> QED
      BY <3>1, <3>2
  <2>4. ASSUME Decide(t) PROVE LiveSees'
    BY <2>4, <2>0, LiveKept DEF Decide, Seen, device, cached
  <2>5. ASSUME ComputeStaleApks(t) PROVE LiveSees'
    BY <2>5, <2>0, LiveKept DEF ComputeStaleApks, Behind, device
  <2>6. ASSUME Pop(t) PROVE LiveSees'
    BY <2>6, <2>0, LiveKept DEF Pop, PopCache, Popped, device
  <2>7. ASSUME Run(t) PROVE LiveSees'
    BY <2>7, <2>0, LiveBehind DEF Run, Behind
  <2>8. ASSUME Return(t) PROVE LiveSees'
    BY <2>8, <2>0, LiveKept DEF Return, device
  <2>9. ASSUME StartReboot(t) PROVE LiveSees'
    BY <2>9, <2>0, LiveKept DEF StartReboot, Seen, ClearCache, device
  <2>10. ASSUME CommandFails(t) PROVE LiveSees'
    <3>1. CASE app' = app
      BY <2>10, <2>0, <3>1, LiveKept DEF CommandFails, cached, device
    <3>2. CASE app' # app
      BY <2>10, <2>0, <3>2, LiveBehind DEF CommandFails, Behind
    <3> QED
      BY <3>1, <3>2
  <2>11. ASSUME TokenFails(t) PROVE LiveSees'
    BY <2>11, <2>0, LiveKept DEF TokenFails, PopCache, Popped, device, cached
  <2> QED
    BY <1>10, <2>1, <2>2, <2>3, <2>4, <2>5, <2>6, <2>7, <2>8, <2>9, <2>10, <2>11 DEF Acts, Step
<1>11. ASSUME Acts("live") PROVE LiveSees'
  <2> DEFINE t == "live"
  <2>l. t \in CallThreads /\ call[t] = Live /\ call'[t] = Live'
    BY <1>l DEF Live
  <2>d. ASSUME NEW todo \in SUBSET Apks, NEW known \in BOOLEAN,
               Live' = Decided(Live, todo, known),
               todo = {} /\ "sums" \notin foreign' => Live.build \subseteq app',
               todo # {} /\ "sums" \notin foreign' => Live.build \ todo \subseteq app'
        PROVE  LiveSees'
    <3>1. /\ Live'.todo = todo /\ Live'.build = Live.build
          /\ Live'.pc \in {"grant", "lookup", "install"} /\ (Live'.pc = "grant" <=> todo = {})
      BY <1>t, <2>d, DecidedFields
    <3> QED
      BY <2>d, <3>1 DEF LiveSees, Stored, Compared, Changing, Beside, Granted, Removed
  <2>1. ASSUME LookupCached(t) PROVE LiveSees'
    <3>1. /\ paths \in 0..Cardinality(Apks) /\ Live' = Found(Live, paths) /\ paths # Unknown
          /\ Live.pc = "lookup" /\ app' = app /\ foreign' = foreign
      BY <2>1, <2>l, OwnCall DEF LookupCached, device
    <3>2. /\ Live'.pc = IF Live.op = "install" /\ ~Live.inner THEN "decide"
                        ELSE IF paths > 0 THEN "remove" ELSE IF Live.inner THEN "install" ELSE "gone"
          /\ Live'.build = Live.build /\ Live'.todo = Live.todo
      BY <1>t, <3>1, FoundFields
    <3>3. CASE Live'.pc \in {"decide", "remove"}
      BY <3>3, LiveFresh
    <3>4. CASE Live'.pc = "install"
      <4>1. Live.inner /\ Live.todo = Live.build
        BY <1>t, <3>1, <3>2, <3>4 DEF Shaped
      <4> QED
        BY <3>2, <3>4, <4>1 DEF LiveSees, Stored, Compared, Changing, Beside, Granted, Removed
    <3>5. CASE Live'.pc = "gone"
      <4>1. paths = 0
        BY <3>1, <3>2, <3>5
      <4>2. app' = {} \/ "paths" \in foreign
        BY <1>t, <3>1, <4>1, CardApks DEF AppCacheAgrees
      <4> QED
        BY <3>1, <3>5, <4>2 DEF LiveSees, Stored, Compared, Changing, Beside, Granted, Removed
    <3> QED
      BY <3>2, <3>3, <3>4, <3>5
  <2>2. ASSUME LookupDevice(t) PROVE LiveSees'
    <3>1. Live'.pc = "store" /\ Live'.got = app /\ app' = app /\ foreign' \cap {"now", "mute"} = {}
      BY <2>2, <2>l, OwnCall DEF LookupDevice, PmPath, Seen, device
    <3> QED
      BY <3>1 DEF LiveSees, Stored, Compared, Changing, Beside, Granted, Removed
  <2>2m. ASSUME LookupIsMute(t) PROVE LiveSees'
    <3>1. Live'.pc = "store" /\ "paths" \in foreign' /\ "mute" \in foreign'
      BY <2>2m, <2>l, OwnCall DEF LookupIsMute
    <3> QED
      BY <3>1 DEF LiveSees, Stored, Compared, Changing, Beside, Granted, Removed
  <2>3. ASSUME StorePaths(t) PROVE LiveSees'
    <3> DEFINE n == Cardinality(Live.got)
               d == Found(Live, n)
    <3>1. /\ n \in 0..Cardinality(Apks) /\ Same(d, Live') /\ Live'.pc = d.pc
          /\ Live.pc = "store"
          /\ app' = app
          /\ foreign' = IF foreign \cap {"now", "mute"} # {} THEN foreign
                        ELSE foreign \ {"paths"}
      BY <2>3, <2>l, OwnCall DEF StorePaths, device
    <3>2. /\ Live'.pc = IF Live.op = "install" /\ ~Live.inner THEN "decide"
                        ELSE IF n > 0 THEN "remove" ELSE IF Live.inner THEN "install" ELSE "gone"
          /\ Live'.build = Live.build /\ Live'.todo = Live.todo
      BY <1>t, <3>1, FoundFields DEF Same
    <3>3. CASE Live'.pc \in {"decide", "remove"}
      BY <3>3, LiveFresh
    <3>4. CASE Live'.pc = "install"
      <4>1. Live.inner /\ Live.todo = Live.build
        BY <1>t, <3>1, <3>2, <3>4 DEF Shaped
      <4> QED
        BY <3>2, <3>4, <4>1 DEF LiveSees, Stored, Compared, Changing, Beside, Granted, Removed
    <3>5. CASE Live'.pc = "gone"
      <4>1. n = 0
        BY <3>1, <3>2, <3>5
      <4>2. Live.got = {}
        BY <1>t, <4>1, CardApks
      <4>3. app' = {} \/ "paths" \in foreign'
        BY <3>1, <4>2 DEF LiveSees, Stored
      <4> QED
        BY <3>1, <3>5, <4>3 DEF LiveSees, Stored, Compared, Changing, Beside, Granted, Removed
    <3> QED
      BY <3>2, <3>3, <3>4, <3>5
  <2>4. ASSUME Decide(t) PROVE LiveSees'
    <3>1. Live.pc = "decide" /\ app' = app /\ Live.op = "install"
      BY <2>4, <2>l, <1>t DEF Decide, device, Shaped
    <3>2. CASE Live' = Decided(Live, Live.build, FALSE)
      BY <1>t, <1>i, <2>d, <3>1, <3>2
    <3>3. CASE Live'.pc = "compare" /\ Live'.got = sums /\ sums # Unknown /\ foreign' = foreign
      BY <3>1, <3>3
      DEF AppCacheAgrees, LiveSees, Stored, Compared, Changing, Beside, Granted, Removed
    <3>4. CASE Live'.pc = "fresh" /\ Live'.got = app
      BY <3>1, <3>4 DEF LiveSees, Stored, Compared, Changing, Beside, Granted, Removed
    <3> QED
      BY <2>4, <2>l, <3>2, <3>3, <3>4, OwnCall
  <2>5. ASSUME ComputeStaleApks(t) PROVE LiveSees'
    <3>1. /\ Live.pc \in {"fresh", "compare"} /\ app' = app /\ foreign' = foreign
          /\ Live' = Decided(Live, Stale(Live), TRUE) /\ Live.op = "install"
      BY <2>5, <2>l, <1>t, OwnCall DEF ComputeStaleApks, device, Behind, Shaped
    <3>2. "sums" \notin foreign => Live.got \subseteq app
      BY <3>1 DEF LiveSees, Compared
    <3>3. Stale(Live) \in SUBSET Apks /\ (Stale(Live) = {} => Live.build \subseteq Live.got)
          /\ Live.build \ Stale(Live) \subseteq Live.got
      BY <1>t, <1>i, <3>1 DEF Stale
    <3> HIDE DEF t
    <3> QED
      BY <2>d, <3>1, <3>2, <3>3
  <2>6. ASSUME Pop(t) PROVE LiveSees'
    <3>1. /\ Same(Live, Live') /\ Live.pc \in {"remove", "install"} /\ app' = app
          /\ Live'.pc = IF Live.pc = "remove" THEN "removing" ELSE "installing"
          /\ paths' = Unknown /\ sums' = Unknown
          /\ foreign' = (foreign \ {"paths", "sums", "loaded"}) \cup
                        (IF "sums" \in foreign /\ Partial(Live) THEN {"now"} ELSE {})
      BY <2>6, <2>l, <1>l, OwnCall DEF Pop, PopCache, Popped, device
    <3>2. CASE Live.pc = "remove"
      BY <3>1, <3>2 DEF LiveSees, Stored, Compared, Changing, Beside, Granted, Removed
    <3>3. CASE Live.pc = "install"
      <4>1. "now" \notin foreign' => Live.build \ Live.todo \subseteq app
        BY <3>1, <3>3 DEF LiveSees, Beside, Partial
      <4> QED
        BY <3>1, <3>3, <4>1
        DEF Same, LiveSees, Stored, Compared, Changing, Beside, Granted, Removed
    <3> QED
      BY <3>1, <3>2, <3>3
  <2>7. ASSUME Run(t) PROVE LiveSees'
    <3>1. foreign' = foreign /\ Same(Live, Live')
      BY <2>7, <2>l, OwnCall DEF Run, Behind
    <3>2. CASE /\ Live.pc = "removing" /\ app' = system /\ system' = system
               /\ Live'.pc = IF Live.inner THEN "install" ELSE "gone"
      <4>1. Live.inner => Live.todo = Live.build
        BY <1>t, <3>2 DEF Shaped
      <4> QED
        BY <3>1, <3>2, <4>1
        DEF Same, LiveSees, Stored, Compared, Changing, Beside, Granted, Removed
    <3>3. CASE Live.pc = "installing" /\ app' = Result(Live) /\ Live'.pc = "grant"
      <4>1. "now" \notin foreign /\ "sums" \notin foreign => Live.build \subseteq Result(Live)
        <5>1. "now" \notin foreign /\ "sums" \notin foreign
                => Live.build \ Live.todo \subseteq app
          BY <3>3 DEF LiveSees, Beside
        <5>2. Live.op = "install"
          BY <1>t, <3>3 DEF Shaped
        <5> QED
          BY <1>t, <5>1, <5>2, ResultHas
      <4> QED
        BY <3>1, <3>3, <4>1
        DEF Same, LiveSees, Stored, Compared, Changing, Beside, Granted, Removed
    <3> QED
      BY <2>7, <2>l, <3>2, <3>3, OwnCall DEF Run
  <2>8. ASSUME Refused(t) \/ CommandFails(t) \/ TokenFails(t) PROVE LiveSees'
    <3>1. Live' = Again(Live)
      BY <2>8, <2>l, <1>l, OwnCall
    <3> QED
      BY <1>t, <3>1, AgainFields, LiveFresh
  <2>9. ASSUME Return(t) PROVE LiveSees'
    <3>1. Live' = Idle
      BY <2>9, <2>l, OwnCall
    <3>2. Idle.pc = "idle"
      BY DEF Idle
    <3> QED
      BY <3>1, <3>2, LiveFresh
  <2>10. ASSUME StartReboot(t) PROVE LiveSees'
    BY <2>10, <2>l, OwnCall, LiveFresh
  <2>11. ASSUME ChecksumsFail(t) PROVE LiveSees'
    <3>1. Live.op = "install" /\ Live' = Decided(Live, Live.build, FALSE)
      BY <2>11, <2>l, <1>t, OwnCall DEF ChecksumsFail, Shaped
    <3> QED
      BY <1>t, <1>i, <2>d, <3>1
  <2> QED
    BY <1>11, <2>1, <2>2, <2>2m, <2>3, <2>4, <2>5, <2>6, <2>7, <2>8, <2>9, <2>10, <2>11
    DEF Acts, Step
<1> QED
  BY <1>1, <1>2, <1>3, <1>4, <1>6, <1>9, <1>10, <1>11, <1>l DEF AppsNext, Acts

AppsInv == Shape /\ AppCacheAgrees /\ DumpAgrees /\ LiveSees

(* The inductive invariant of the caches.                                       *)
LEMMA AppsInvariance == AppsSpec => []AppsInv
<1>1. AppsInit => AppsInv
  <2> SUFFICES ASSUME AppsInit PROVE AppsInv
    OBVIOUS
  <2>1. Shape
    BY ShapedIdle DEF AppsInit, Shape
  <2>2. Live.pc = "idle"
    BY DEF AppsInit, Live, Idle, CallThreads
  <2> QED
    BY <2>1, <2>2 DEF AppsInit, AppsInv, AppCacheAgrees, DumpAgrees, LiveSees, Stored, Compared,
                      Changing, Beside, Granted, Removed
<1>2. AppsTypeOK /\ AppsInv /\ [AppsNext]_appsVars => AppsInv'
  <2> SUFFICES ASSUME AppsTypeOK, AppsInv, [AppsNext]_appsVars PROVE AppsInv'
    OBVIOUS
  <2>1. CASE AppsNext
    BY <2>1, ShapeStep, CacheStep, DumpStep, LiveStep DEF AppsInv
  <2>2. CASE UNCHANGED appsVars
    BY <2>2
    DEF appsVars, device, cached, saved, AppsInv, Shape, AppCacheAgrees, DumpAgrees, LiveSees,
                Stored, Compared, Changing, Beside, Granted, Removed, Live
  <2> QED
    BY <2>1, <2>2
<1> QED
  BY <1>1, <1>2, AppsTypeCorrect, PTL DEF AppsSpec

(* package_apk_paths and package_apk_checksums are those of apks on the device, *)
(* unless the app was changed behind the cache (by others, or by a try that was *)
(* given up), or behind a dump whose token does not tell; or, of the paths,     *)
(* "pm path" failed without a word when they were looked up.                    *)
THEOREM AppCacheIsRight == AppsSpec => []AppCacheAgrees
<1>1. AppsInv => AppCacheAgrees
  BY DEF AppsInv
<1> QED
  BY <1>1, AppsInvariance, PTL

--------------------------------------------------------------------------------
(* Paths loaded from a dump behind which the app was changed.  They are         *)
(* verified before anything relies on them; once they are trusted, either the   *)
(* app is there under some paths, or nobody knows its checksums.                *)
Begun(c) == c.pc \in {"idle", "lookup", "reboot", "wait"} /\ c.count = 0 /\ ~c.known

LooksInstalled == /\ "now" \notin foreign /\ app = {} /\ ~verify
                  /\ paths \notin {Unknown, 0} \/ Live.count > 0
NoSums == /\ sums = Unknown
          /\ ~Live.known /\ Live.pc \notin {"fresh", "compare", "grant"}
          /\ Late.pc \notin {"fresh", "compare"}
          /\ Late.known => Late.pc = "store" /\ Late.got = {}

DumpTrusted ==
    /\ Live.pc \notin {"store", "removing", "installing"}
    /\ verify => Begun(Live)
    /\ Live.count > 0 => paths # 0
    /\ Live.pc = "grant" => Live.count > 0
    /\ LooksInstalled => NoSums

FromDump == "loaded" \in foreign => DumpTrusted

(* Each step keeps what is known of a stale dump.                               *)
LEMMA TrustedStep ==
  ASSUME AppsTypeOK, Shape, FromDump, AppsNext
  PROVE  FromDump'
<1> SUFFICES ASSUME "loaded" \in foreign' PROVE DumpTrusted'
  BY DEF FromDump
<1>l. "live" # "late" /\ CallThreads = {"live", "late"}
  BY DEF CallThreads
<1>n. Unknown # 0
  BY AppsAssumption
<1>t. /\ Live \in Calls /\ Shaped(Live) /\ Late \in Calls /\ Shaped(Late)
      /\ Live.build \in SUBSET Apks /\ Live.got \in SUBSET Apks
      /\ Late.build \in SUBSET Apks /\ Late.got \in SUBSET Apks
      /\ verify \in BOOLEAN /\ paths \in 0..Cardinality(Apks) \cup {Unknown}
  BY <1>l, CallFields DEF AppsTypeOK, Shape, Live, Late
<1>c. Live.count \in Nat /\ Cardinality(Apks) \in Nat
  BY <1>t, CallFields, CardApks
<1>i. /\ Live.op = "install" => Live.build # {}
      /\ Late.op = "install" => Late.build # {}
  BY <1>t, AppsAssumption DEF Shaped
<1>d. ASSUME NEW c \in Calls, NEW todo \in SUBSET Apks, NEW known \in BOOLEAN
      PROVE  /\ Decided(c, todo, known).known = known /\ Decided(c, todo, known).count = c.count
             /\ Decided(c, todo, known).pc \in {"grant", "lookup", "install"}
             /\ Decided(c, todo, known).pc = "grant" <=> todo = {}
  BY DecidedFields
<1>1. ASSUME LoadCacheData PROVE DumpTrusted'
  <2>1. Live' = Idle /\ Late' = Late /\ app' = app
    BY <1>1 DEF LoadCacheData, Free, Live, Late, device
  <2>2. CASE "dump" \in marks
    <3>1. ~verify' => paths' = Unknown
      BY <1>1, <2>2 DEF LoadCacheData
    <3>2. Live'.pc = "idle" /\ Live'.count = 0 /\ ~Live'.known
      BY <2>1 DEF Idle
    <3> QED
      BY <3>1, <3>2 DEF DumpTrusted, LooksInstalled, Begun
  <2>3. CASE "dump" \notin marks
    <3>1. /\ foreign' = foreign /\ verify' = verify /\ paths' = paths /\ sums' = sums
          /\ Live' = Live
      BY <1>1, <2>3 DEF LoadCacheData, cached, Live
    <3> QED
      BY <2>1, <3>1 DEF FromDump, DumpTrusted, LooksInstalled, NoSums, Begun
  <2> QED
    BY <2>2, <2>3
<1>2. ASSUME NewSession PROVE FALSE
  BY <1>2 DEF NewSession
<1>k. ASSUME DumpTrusted, UNCHANGED <<app, verify, paths, sums, call>>,
             "now" \in foreign => "now" \in foreign'
      PROVE  DumpTrusted'
  BY <1>k DEF DumpTrusted, LooksInstalled, NoSums, Begun, Live, Late
<1>3. ASSUME DumpCacheData PROVE DumpTrusted'
  BY <1>3, <1>k DEF DumpCacheData, FromDump, device, cached
<1>7. ASSUME OtherChange PROVE DumpTrusted'
  BY <1>7 DEF OtherChange, FromDump, DumpTrusted, LooksInstalled, Begun, cached, Live
<1>8. ASSUME \/ Uninstall \/ Reboot
             \/ \E b \in Builds, reinstall \in BOOLEAN : Install(b, reinstall)
      PROVE  DumpTrusted'
  <2>1. /\ Live'.pc \in {"lookup", "reboot"} /\ Live'.count = 0 /\ ~Live'.known /\ Late' = Late
        /\ UNCHANGED <<app, verify, paths, sums, foreign>>
    BY <1>8, BeginCall DEF device, cached
  <2> QED
    BY <2>1 DEF FromDump, DumpTrusted, LooksInstalled, NoSums, Begun
<1>a. ASSUME DumpTrusted, Live'.pc \in {"idle", "lookup", "reboot"}, Live'.count = 0,
             ~Live'.known,
             UNCHANGED <<app, verify, paths>>, LooksInstalled => sums' = sums,
             "now" \in foreign => "now" \in foreign', Late' \in {Live, Late, Idle}
      PROVE  DumpTrusted'
  BY <1>a DEF DumpTrusted, LooksInstalled, NoSums, Begun, Idle
<1>9. ASSUME TimeOut PROVE DumpTrusted'
  <2>1. Live' = Again(Live) /\ Late' = Live /\ UNCHANGED <<app, verify, paths, sums, foreign>>
    BY <1>9 DEF TimeOut, Live, Late, device, cached
  <2>2. Live'.pc \in {"idle", "lookup", "reboot"} /\ Live'.count = 0 /\ ~Live'.known
    BY <2>1, <1>t, AgainFields
  <2> QED
    BY <2>1, <2>2, <1>a DEF FromDump
<1>10. ASSUME Acts("late") PROVE DumpTrusted'
  <2> DEFINE t == "late"
  <2>0. Live' = Live /\ t \in CallThreads /\ call[t] = Late /\ call'[t] = Late'
    BY <1>10, <1>l, OtherCalls DEF Live, Late
  (* The live thread is left where it is, and what it counted. *)
  <2>k. ASSUME DumpTrusted, UNCHANGED <<verify, paths>>,
               "now" \in foreign => "now" \in foreign',
               LooksInstalled /\ LooksInstalled' =>
                   /\ sums' = sums \/ sums' = Unknown
                   /\ Late'.pc \notin {"fresh", "compare"}
                   /\ Late'.known => Late'.pc = "store" /\ Late'.got = {},
               "now" \in foreign' \/ app' = app
        PROVE  DumpTrusted'
    BY <2>0, <2>k DEF DumpTrusted, LooksInstalled, NoSums, Begun
  <2>1. ASSUME LookupCached(t) PROVE DumpTrusted'
    <3>1. /\ paths \in 0..Cardinality(Apks) /\ Late' = Found(Late, paths) /\ Late.pc = "lookup"
          /\ TRUE \in Trusted /\ verify' = FALSE /\ UNCHANGED <<app, paths, sums, foreign>>
      BY <2>0, <2>1, OwnCall DEF LookupCached, device
    <3>2. /\ Late'.known = Late.known /\ Late'.pc \notin {"fresh", "compare"}
      BY <1>t, <3>1, FoundFields
    <3>3. app = {} => ~verify \/ paths = 0
      BY <3>1 DEF Trusted, PathExists
    <3> QED
      BY <2>0, <3>1, <3>2, <3>3, <1>c DEF FromDump, DumpTrusted, LooksInstalled, NoSums, Begun
  <2>2. ASSUME LookupDevice(t) \/ LookupIsMute(t) PROVE DumpTrusted'
    <3>1. /\ Late'.pc = "store" /\ UNCHANGED <<app, paths, foreign>>
          /\ app = {} => Late'.got = {}
          /\ (UNCHANGED <<verify, sums>>) \/ (verify' = FALSE /\ sums' = Unknown)
      BY <2>0, <2>2, <1>l, OwnCall DEF LookupDevice, LookupIsMute, PmPath, Seen, device
    <3> QED
      BY <2>0, <3>1, <1>c DEF FromDump, DumpTrusted, LooksInstalled, NoSums, Begun
  <2>3. ASSUME StorePaths(t) PROVE DumpTrusted'
    <3> DEFINE n == Cardinality(Late.got)
    <3>0. /\ paths' = n /\ Late.pc = "store" /\ UNCHANGED <<app, verify, sums>>
          /\ foreign' = IF paths = n THEN foreign ELSE (foreign \ {"loaded"}) \cup {"paths", "sums"}
      BY <2>0, <2>3 DEF StorePaths, device
    <3>1. /\ paths' = n /\ paths = n /\ Late.pc = "store"
          /\ UNCHANGED <<app, verify, sums, foreign>>
      BY <3>0
    <3>2. /\ Late'.known = Late.known /\ Late'.pc \notin {"fresh", "compare"}
      <4> DEFINE d == Found(Late, n)
      <4>1. n \in 0..Cardinality(Apks) /\ Same(d, Late') /\ Late'.pc = d.pc
        BY <2>0, <2>3, OwnCall
      <4>2. d.known = Late.known /\ d.pc \in {"decide", "remove", "install", "gone"}
        BY <1>t, <4>1, FoundFields
      <4> HIDE DEF d
      <4> QED
        BY <4>1, <4>2 DEF Same
    <3>3. LooksInstalled => ~Late.known
      <4>1. SUFFICES ASSUME LooksInstalled, Late.known PROVE FALSE
        OBVIOUS
      <4>2. Late.got = {} /\ Live.count > 0 => paths # 0
        BY <3>1, <4>1 DEF FromDump, DumpTrusted, NoSums
      <4>3. n = 0
        BY <3>1, <4>1, <1>t, CardApks DEF FromDump, DumpTrusted, NoSums
      <4> QED
        BY <3>1, <4>1, <4>3 DEF FromDump, DumpTrusted, LooksInstalled
    <3> QED
      BY <2>k, <3>1, <3>2, <3>3 DEF FromDump
  <2>4. ASSUME Decide(t) PROVE DumpTrusted'
    <3>1. UNCHANGED <<app, verify, paths, sums, foreign>> /\ Late.op = "install"
      BY <2>0, <2>4, <1>l, <1>t DEF Decide, Seen, device, cached, Shaped
    <3>2. /\ ~Decided(Late, Late.build, FALSE).known
          /\ Decided(Late, Late.build, FALSE).pc \in {"lookup", "install"}
      BY <1>t, <1>i, <1>d, <3>1
    <3>3. LooksInstalled => sums = Unknown /\ app = {}
      BY <3>1 DEF FromDump, DumpTrusted, LooksInstalled, NoSums
    <3>4. LooksInstalled => Late' = Decided(Late, Late.build, FALSE)
      BY <2>0, <2>4, <3>3, OwnCall
    <3> QED
      BY <2>k, <3>1, <3>2, <3>4 DEF FromDump
  <2>5. ASSUME ComputeStaleApks(t) PROVE DumpTrusted'
    <3>1. /\ Late.pc \in {"fresh", "compare"} /\ UNCHANGED <<app, verify, paths>>
          /\ "loaded" \in foreign /\ ("now" \in foreign => "now" \in foreign')
      BY <2>0, <2>5 DEF ComputeStaleApks, Behind, device
    <3>2. ~LooksInstalled
      BY <3>1 DEF FromDump, DumpTrusted, NoSums
    <3> QED
      BY <2>k, <3>1, <3>2 DEF FromDump
  <2>6. ASSUME Pop(t) PROVE DumpTrusted'
    <3>1. /\ Same(Late, Late') /\ Late.pc \in {"remove", "install"}
          /\ Late'.pc \in {"removing", "installing"}
          /\ paths' = Unknown /\ sums' = Unknown /\ UNCHANGED <<app, verify>>
          /\ "loaded" \in foreign /\ ("now" \in foreign => "now" \in foreign')
      BY <2>0, <2>6, <1>l, OwnCall DEF Pop, PopCache, Popped, device
    <3> QED
      BY <2>0, <3>1, <1>n DEF FromDump, DumpTrusted, LooksInstalled, NoSums, Begun, Same
  <2>7. ASSUME Run(t) PROVE DumpTrusted'
    <3>1. "now" \in foreign' /\ "loaded" \in foreign /\ UNCHANGED <<verify, paths>>
      BY <2>7, <1>l DEF Run, Behind, cached
    <3> QED
      BY <2>k, <3>1 DEF FromDump, LooksInstalled
  <2>8. ASSUME Return(t) PROVE DumpTrusted'
    <3>1. /\ Late' = Idle /\ Late.pc \in {"grant", "gone", "wait"}
          /\ UNCHANGED <<app, verify, paths>>
          /\ "loaded" \in foreign /\ ("now" \in foreign => "now" \in foreign')
          /\ ~Late.known => sums' = sums
      BY <2>0, <2>8, OwnCall DEF Return, device
    <3>2. LooksInstalled => ~Late.known
      BY <3>1 DEF FromDump, DumpTrusted, NoSums
    <3> QED
      BY <2>k, <3>1, <3>2 DEF FromDump, Idle
  <2>9. ASSUME StartReboot(t) PROVE DumpTrusted'
    <3>1. /\ Same(Late, Late') /\ Late.pc = "reboot" /\ Late'.pc = "wait" /\ verify' = FALSE
          /\ paths' = Unknown /\ sums' = Unknown /\ UNCHANGED <<app, foreign>>
      BY <2>0, <2>9, <1>l, OwnCall DEF StartReboot, Seen, ClearCache, device
    <3>2. ~Late'.known
      BY <3>1, <1>t DEF Shaped, Same
    <3> QED
      BY <2>0, <3>1, <3>2, <1>n, <1>c DEF FromDump, DumpTrusted, LooksInstalled, NoSums, Begun
  <2>10. ASSUME Refused(t) PROVE DumpTrusted'
    <3>1. Late' = Idle /\ UNCHANGED <<app, verify, paths, sums, foreign>>
      BY <2>0, <2>10, OwnCall DEF Refused, device, cached
    <3> QED
      BY <2>k, <3>1 DEF FromDump, Idle
  <2>11. ASSUME CommandFails(t) PROVE DumpTrusted'
    <3>1. /\ Late' = Idle /\ UNCHANGED <<verify, paths, sums>> /\ "loaded" \in foreign
          /\ "now" \in foreign => "now" \in foreign'
          /\ "now" \in foreign' \/ app' = app
      BY <2>0, <2>11, <1>l, OwnCall DEF CommandFails, Behind, cached
    <3> QED
      BY <2>k, <3>1 DEF FromDump, Idle
  <2>12. ASSUME ChecksumsFail(t) PROVE DumpTrusted'
    <3>1. Late.pc = "fresh" /\ UNCHANGED <<app, verify, paths, sums, foreign>>
      BY <2>0, <2>12 DEF ChecksumsFail, device, cached
    <3>2. ~LooksInstalled
      BY <3>1 DEF FromDump, DumpTrusted, NoSums
    <3> QED
      BY <2>k, <3>1, <3>2 DEF FromDump
  <2>13. ASSUME TokenFails(t) PROVE DumpTrusted'
    <3>1. /\ Late' = Idle /\ UNCHANGED <<app, verify>> /\ "loaded" \in foreign
          /\ "now" \in foreign => "now" \in foreign'
          /\ UNCHANGED <<paths, sums>> \/ (paths' = Unknown /\ sums' = Unknown)
      BY <2>0, <2>13, <1>l, OwnCall DEF TokenFails, PopCache, Popped, device, cached
    <3>2. CASE UNCHANGED <<paths, sums>>
      BY <2>k, <3>1, <3>2 DEF FromDump, Idle
    <3>3. CASE paths' = Unknown /\ sums' = Unknown
      BY <2>0, <3>1, <3>3, <1>n
      DEF FromDump, DumpTrusted, LooksInstalled, NoSums, Begun, Idle
    <3> QED
      BY <3>1, <3>2, <3>3
  <2> QED
    BY <1>10, <2>1, <2>2, <2>3, <2>4, <2>5, <2>6, <2>7, <2>8, <2>9, <2>10, <2>11, <2>12, <2>13
    DEF Acts, Step
<1>11. ASSUME Acts("live") PROVE DumpTrusted'
  <2> DEFINE t == "live"
  <2>l. t \in CallThreads /\ call[t] = Live /\ call'[t] = Live' /\ Late' = Late
    BY <1>11, <1>l, OtherCalls DEF Live, Late
  <2>1. ASSUME LookupCached(t) PROVE DumpTrusted'
    <3>1. /\ paths \in 0..Cardinality(Apks) /\ Live' = Found(Live, paths) /\ Live.pc = "lookup"
          /\ paths # Unknown /\ TRUE \in Trusted /\ verify' = FALSE
          /\ UNCHANGED <<app, paths, sums, foreign>>
      BY <2>1, <2>l, OwnCall DEF LookupCached, device
    <3>2. /\ Live'.known = Live.known /\ Live'.count = paths
          /\ Live'.pc \in {"decide", "remove", "install", "gone"}
      BY <1>t, <3>1, FoundFields
    <3>3. app = {} => ~verify \/ paths = 0
      BY <3>1 DEF Trusted, PathExists
    <3> QED
      BY <2>l, <3>1, <3>2, <3>3, <1>c DEF FromDump, DumpTrusted, LooksInstalled, NoSums, Begun
  <2>2. ASSUME LookupDevice(t) \/ LookupIsMute(t) PROVE FALSE
    BY <2>2 DEF LookupDevice, LookupIsMute, Seen
  <2>3. ASSUME StorePaths(t) PROVE FALSE
    <3>1. Live.pc = "store" /\ "loaded" \in foreign
      BY <2>3, <2>l DEF StorePaths
    <3> QED
      BY <3>1 DEF FromDump, DumpTrusted
  <2>4. ASSUME Decide(t) PROVE DumpTrusted'
    <3>1. /\ Live.pc = "decide" /\ Live.op = "install" /\ UNCHANGED <<app, verify, paths, sums>>
          /\ "loaded" \in foreign /\ ("now" \in foreign => "now" \in foreign')
      BY <2>l, <2>4, <1>l, <1>t DEF Decide, Seen, device, cached, Shaped
    <3>2. ~verify
      BY <3>1 DEF FromDump, DumpTrusted, Begun
    <3>3. CASE Live' = Decided(Live, Live.build, FALSE)
      <4>1. Live'.pc \in {"lookup", "install"} /\ ~Live'.known /\ Live'.count = Live.count
        BY <1>t, <1>i, <1>d, <3>1, <3>3
      <4> QED
        BY <2>l, <3>1, <3>2, <4>1 DEF FromDump, DumpTrusted, LooksInstalled, NoSums, Begun
    <3>4. CASE /\ Same(Live, Live') /\ Live'.pc \in {"fresh", "compare"}
               /\ sums # Unknown \/ app # {}
      BY <2>l, <3>1, <3>2, <3>4 DEF FromDump, DumpTrusted, LooksInstalled, NoSums, Begun, Same
    <3> QED
      BY <2>4, <2>l, <3>3, <3>4, OwnCall
  <2>5. ASSUME ComputeStaleApks(t) PROVE DumpTrusted'
    <3>1. /\ Live.pc \in {"fresh", "compare"} /\ UNCHANGED <<app, verify, paths, foreign>>
          /\ Live' = Decided(Live, Stale(Live), TRUE)
      BY <2>l, <2>5, OwnCall DEF ComputeStaleApks, Behind, device
    <3>2. Stale(Live) \in SUBSET Apks
      BY <1>t DEF Stale
    <3>3. /\ Live'.pc \in {"grant", "lookup", "install"} /\ Live'.count = Live.count
      BY <1>t, <1>d, <3>1, <3>2
    <3>4. ~verify /\ Live.count > 0
      BY <1>t, <3>1 DEF FromDump, DumpTrusted, Begun, Shaped
    <3> QED
      BY <2>l, <3>1, <3>3, <3>4 DEF FromDump, DumpTrusted, LooksInstalled, NoSums, Begun
  <2>6. ASSUME Pop(t) PROVE FALSE
    BY <2>6, <1>l DEF Pop, PopCache
  <2>7. ASSUME Run(t) PROVE FALSE
    <3>1. Live.pc \in {"removing", "installing"} /\ "loaded" \in foreign
      BY <2>7, <2>l DEF Run, Behind
    <3> QED
      BY <3>1 DEF FromDump, DumpTrusted
  <2>8. ASSUME Refused(t) \/ CommandFails(t) \/ TokenFails(t) PROVE DumpTrusted'
    <3>1. Live' = Again(Live)
      BY <2>8, <2>l, <1>l, OwnCall
    <3>2. /\ "loaded" \in foreign /\ foreign' = foreign
          /\ app' = app \/ Live.pc \in {"removing", "installing"}
          /\ UNCHANGED <<verify, paths, sums>>
      BY <2>8, <2>l, <1>l DEF Refused, CommandFails, TokenFails, PopCache, Behind, device, cached
    <3>3. app' = app /\ DumpTrusted
      BY <3>2 DEF FromDump, DumpTrusted
    <3>4. Live'.pc \in {"idle", "lookup", "reboot"} /\ Live'.count = 0 /\ ~Live'.known
      BY <3>1, <1>t, AgainFields
    <3> QED
      BY <2>l, <3>2, <3>3, <3>4, <1>a
  <2>9. ASSUME Return(t) PROVE DumpTrusted'
    <3>1. /\ Live' = Idle /\ UNCHANGED <<app, verify, paths>>
          /\ "loaded" \in foreign /\ ("now" \in foreign => "now" \in foreign')
          /\ ~Live.known => sums' = sums
      BY <2>l, <2>9, OwnCall DEF Return, device
    <3>2. LooksInstalled => ~Live.known
      BY <3>1 DEF FromDump, DumpTrusted, NoSums
    <3>3. Live'.pc = "idle" /\ Live'.count = 0 /\ ~Live'.known
      BY <3>1 DEF Idle
    <3> QED
      BY <2>l, <3>1, <3>2, <3>3, <1>a DEF FromDump
  <2>10. ASSUME StartReboot(t) PROVE DumpTrusted'
    <3>1. /\ Same(Live, Live') /\ Live.pc = "reboot" /\ Live'.pc = "wait" /\ verify' = FALSE
          /\ paths' = Unknown
      BY <2>l, <2>10, OwnCall DEF StartReboot, ClearCache
    <3>2. Live'.count = 0
      BY <3>1, <1>t DEF Shaped, Same
    <3> QED
      BY <3>1, <3>2 DEF DumpTrusted, LooksInstalled
  <2>11. ASSUME ChecksumsFail(t) PROVE DumpTrusted'
    <3>1. /\ Live.pc = "fresh" /\ Live.op = "install"
          /\ UNCHANGED <<app, verify, paths, foreign>>
          /\ Live' = Decided(Live, Live.build, FALSE)
      BY <2>l, <2>11, <1>t, OwnCall DEF ChecksumsFail, device, cached, Shaped
    <3>2. Live'.pc \in {"lookup", "install"} /\ Live'.count = Live.count
      BY <1>t, <1>i, <1>d, <3>1
    <3> QED
      BY <3>1, <3>2 DEF FromDump, DumpTrusted, LooksInstalled, NoSums, Begun
  <2> QED
    BY <1>11, <2>1, <2>2, <2>3, <2>4, <2>5, <2>6, <2>7, <2>8, <2>9, <2>10, <2>11 DEF Acts, Step
<1> QED
  BY <1>1, <1>2, <1>3, <1>7, <1>8, <1>9, <1>10, <1>11, <1>l DEF AppsNext, Acts

(* When Install is over, the device has the apks, or the app at least though it *)
(* was uninstalled by hand between two sessions; when Uninstall is over,        *)
(* nothing is left but what the system image holds.  Excepted is an app that    *)
(* was changed behind the cache, and for Uninstall one that "pm path" failed to *)
(* name without a word.                                                         *)
THEOREM InstallsAreThere == AppsSpec => []InstalledIsThere
<1>1. AppsInit => FromDump
  BY DEF AppsInit, FromDump
<1>2. AppsTypeOK /\ Shape /\ FromDump /\ [AppsNext]_appsVars => FromDump'
  <2> SUFFICES ASSUME AppsTypeOK, Shape, FromDump, [AppsNext]_appsVars PROVE FromDump'
    OBVIOUS
  <2>1. CASE UNCHANGED appsVars
    BY <2>1
    DEF appsVars, device, cached, saved, FromDump, DumpTrusted, LooksInstalled, NoSums, Begun,
        Live, Late
  <2> QED
    BY <2>1, TrustedStep
<1>3. AppsInv /\ FromDump => InstalledIsThere
  <2> SUFFICES ASSUME AppsInv, FromDump PROVE InstalledIsThere
    OBVIOUS
  <2>1. Live.pc = "grant" /\ "now" \notin foreign /\ "loaded" \in foreign => app # {}
    BY DEF FromDump, DumpTrusted, LooksInstalled, NoSums, Begun
  <2> QED
    BY <2>1 DEF AppsInv, LiveSees, Granted, Removed, InstalledIsThere, Live
<1>4. AppsInv => Shape
  BY DEF AppsInv
<1> QED
  BY <1>1, <1>2, <1>3, <1>4, AppsInvariance, AppsTypeCorrect, PTL DEF AppsSpec

--------------------------------------------------------------------------------
(* LogcatMonitor.                                                               *)

(* _record_file_lock is held by the client that copies or a thread that writes; *)
(* a thread that writes has a line.                                             *)
LockInv ==
    /\ holder = Client <=> client = "copied"
    /\ \A t \in Threads : holder = t => state[t] = "writing"
    /\ \A t \in Threads : state[t] = "writing" => data[t] \in Lines

(* Threads that were not started do nothing.                                    *)
Unstarted == \A t \in Threads : t > started => state[t] = "new"

(* Where the client is in Stop tells whether it refers to a thread.             *)
Stopping ==
    /\ client \in {"joining", "joined"} => ref # None
    /\ client \in {"copying", "copied"} => ref = None
    /\ stopped = "returned" => client = "idle" /\ ref = None

(* No join timed out: the recorder referred to is the only one, and joined it   *)
(* is over.                                                                     *)
OneRecorder == abandoned = {} =>
    /\ \A t \in Threads : Alive(t) => t = ref
    /\ client = "joined" => ~Alive(ref)

IInv ==
    /\ TypeOK
    /\ LockInv
    /\ Unstarted
    /\ Stopping
    /\ OneRecorder
    /\ CopyIsConsistent
    /\ StopIsComplete

--------------------------------------------------------------------------------
USE BoundsAssumption DEF Threads, Lines, None, Client

LEMMA InitInv == Init => IInv
<1> SUFFICES ASSUME Init PROVE IInv
  OBVIOUS
<1>1. TypeOK
  <2>1. stopEvent \in BOOLEAN /\ file \in BOOLEAN
    BY DEF Init
  <2> QED
    BY <2>1 DEF Init, TypeOK
<1>2. LockInv /\ Unstarted /\ Stopping /\ OneRecorder /\ CopyIsConsistent /\ StopIsComplete
  BY DEF Init, LockInv, Unstarted, Stopping, OneRecorder, CopyIsConsistent, StopIsComplete, Alive
<1> QED
  BY <1>1, <1>2 DEF IInv

(* Each action keeps the types; a line that is written is one.                  *)
LEMMA StepType == TypeOK /\ LockInv /\ Stopping /\ [Next]_vars => TypeOK'
<1> SUFFICES ASSUME TypeOK, LockInv, Stopping, [Next]_vars PROVE TypeOK'
  OBVIOUS
<1> USE DEF TypeOK, recorder
<1>1. ASSUME NEW clear \in BOOLEAN, Start(clear) PROVE TypeOK'
  <2>0. file' \in BOOLEAN /\ stopEvent' \in BOOLEAN
    BY <1>1 DEF Start
  <2>1. oldest' \in 1..(MaxLines + 1)
    BY <1>1 DEF Start
  <2>2. /\ ref' \in Threads \cup {None} /\ started' \in 0..MaxThreads
        /\ state' \in [Threads -> {"new", "reading", "yielded", "writing", "returned", "raised"}]
        /\ next' \in [Threads -> 1..(MaxLines + 1)]
    <3>1. CASE ref = None
      <4>1. started + 1 \in Threads
        BY <1>1, <3>1 DEF Start
      <4>2. /\ ref' = started + 1 /\ started' = started + 1
            /\ state' = [state EXCEPT ![started + 1] = "reading"]
            /\ next' = [next EXCEPT ![started + 1] = oldest']
        BY <1>1, <3>1 DEF Start
      <4>3. ref' \in Threads \cup {None} /\ started' \in 0..MaxThreads
        BY <4>1, <4>2
      <4>4. state' \in [Threads -> {"new", "reading", "yielded", "writing", "returned", "raised"}]
        BY <4>1, <4>2
      <4>5. next' \in [Threads -> 1..(MaxLines + 1)]
        BY <2>1, <4>1, <4>2
      <4> QED
        BY <4>3, <4>4, <4>5
    <3>2. CASE ref # None
      BY <1>1, <3>2 DEF Start
    <3> QED
      BY <3>1, <3>2
  <2> QED
    BY <1>1, <2>0, <2>1, <2>2 DEF Start
<1>2. CASE Stop
  BY <1>2 DEF Stop
<1>3. CASE Join
  <2>1. abandoned' \subseteq Threads
    BY <1>3 DEF Join, Stopping
  <2> QED
    BY <1>3, <2>1 DEF Join
<1>4. CASE StopRecordingEnds
  BY <1>4 DEF StopRecordingEnds
<1>5. CASE CopyBegins
  BY <1>5 DEF CopyBegins
<1>6. CASE CopyEnds
  BY <1>6 DEF CopyEnds
<1>7. CASE Close
  BY <1>7 DEF Close
<1>8. CASE DeviceLogs
  BY <1>8 DEF DeviceLogs
<1>9. ASSUME NEW t \in Threads, Yield(t) PROVE TypeOK'
  <2>1. /\ data' \in [Threads -> Lines \cup {None}]
        /\ next' \in [Threads -> 1..(MaxLines + 1)]
    <3>1. CASE next[t] <= logged /\ data' = [data EXCEPT ![t] = next[t]]
                 /\ next' = [next EXCEPT ![t] = next[t] + 1]
      <4>1. next[t] \in Lines
        BY <3>1
      <4> QED
        BY <3>1, <4>1
    <3>2. CASE UNCHANGED <<data, next>>
      BY <3>2
    <3> QED
      BY <1>9, <3>1, <3>2 DEF Yield
  <2> QED
    BY <1>9, <2>1 DEF Yield
<1>10. ASSUME NEW t \in Threads, LogcatFails(t) PROVE TypeOK'
  BY <1>10 DEF LogcatFails
<1>11. ASSUME NEW t \in Threads, TestStop(t) PROVE TypeOK'
  BY <1>11 DEF TestStop
<1>12. ASSUME NEW t \in Threads, Lock(t) PROVE TypeOK'
  BY <1>12 DEF Lock
<1>13. ASSUME NEW t \in Threads, Write(t) PROVE TypeOK'
  BY <1>13 DEF Write, LockInv
<1>14. CASE UNCHANGED vars
  BY <1>14 DEF vars
<1> QED
  BY <1>1, <1>2, <1>3, <1>4, <1>5, <1>6, <1>7, <1>8, <1>9, <1>10, <1>11, <1>12, <1>13, <1>14
  DEF Next, ClientStep, Recorder

(* Each action keeps the rest.                                                  *)
LEMMA StepInv == IInv /\ [Next]_vars => IInv'
<1> SUFFICES ASSUME IInv, [Next]_vars PROVE IInv'
  OBVIOUS
<1> DEFINE Rest == LockInv /\ Unstarted /\ Stopping /\ OneRecorder /\ CopyIsConsistent /\ StopIsComplete
<1>t. /\ state \in [Threads -> {"new", "reading", "yielded", "writing", "returned", "raised"}]
      /\ data \in [Threads -> Lines \cup {None}] /\ ref \in Threads \cup {None}
      /\ started \in 0..MaxThreads /\ abandoned \subseteq Threads
      /\ holder \in Threads \cup {None, Client}
  BY DEF IInv, TypeOK
<1> USE <1>t DEF IInv, recorder, LockInv, Unstarted, Stopping, OneRecorder,
                 CopyIsConsistent, StopIsComplete, Alive
<1>1. ASSUME NEW clear \in BOOLEAN, Start(clear) PROVE Rest'
  <2>1. CASE ref = None
    <3>1. /\ started + 1 \in Threads /\ ref' = started + 1
          /\ state' = [state EXCEPT ![started + 1] = "reading"]
          /\ client = "idle" /\ stopped' = "no" /\ started' = started + 1
          /\ UNCHANGED <<client, data, holder, abandoned>>
      BY <1>1, <2>1 DEF Start
    <3>2. LockInv' /\ Unstarted'
      BY <3>1
    <3>3. Stopping'
      BY <2>1, <3>1
    <3>4. OneRecorder'
      BY <2>1, <3>1
    <3> QED
      BY <3>1, <3>2, <3>3, <3>4
  <2>2. CASE ref # None
    BY <1>1, <2>2 DEF Start
  <2> QED
    BY <2>1, <2>2
<1>2. ASSUME Stop PROVE Rest'
  BY <1>2 DEF Stop
<1>3. ASSUME Join PROVE Rest'
  BY <1>3 DEF Join
<1>4. ASSUME StopRecordingEnds PROVE Rest'
  BY <1>4 DEF StopRecordingEnds
<1>5. ASSUME CopyBegins PROVE Rest'
  BY <1>5 DEF CopyBegins
<1>6. ASSUME CopyEnds PROVE Rest'
  BY <1>6 DEF CopyEnds
<1>7. ASSUME Close PROVE Rest'
  BY <1>7 DEF Close
<1>8. ASSUME DeviceLogs PROVE Rest'
  BY <1>8 DEF DeviceLogs
<1>9. ASSUME NEW t \in Threads, Yield(t) PROVE Rest'
  BY <1>9 DEF Yield
<1>10. ASSUME NEW t \in Threads, LogcatFails(t) PROVE Rest'
  BY <1>10 DEF LogcatFails
<1>11. ASSUME NEW t \in Threads, TestStop(t) PROVE Rest'
  BY <1>11 DEF TestStop
<1>12. ASSUME NEW t \in Threads, Lock(t) PROVE Rest'
  BY <1>12 DEF Lock
<1>13. ASSUME NEW t \in Threads, Write(t) PROVE Rest'
  BY <1>13 DEF Write
<1>14. ASSUME UNCHANGED vars PROVE Rest'
  BY <1>14 DEF vars
<1> QED
  <2>1. Rest'
    BY <1>1, <1>2, <1>3, <1>4, <1>5, <1>6, <1>7, <1>8, <1>9, <1>10, <1>11, <1>12, <1>13, <1>14
    DEF Next, ClientStep, Recorder
  <2> QED
    BY <2>1, StepType

LEMMA Invariance == Spec => []IInv
BY InitInv, StepInv, PTL DEF Spec

--------------------------------------------------------------------------------
(* Monitors, files and recorders always are of the kinds they should be.        *)
THEOREM TypeCorrect == Spec => []TypeOK
<1>1. IInv => TypeOK
  BY DEF IInv
<1> QED
  BY <1>1, Invariance, PTL

(* Stop copies the record file while nobody writes to it.                       *)
THEOREM CopiesAreConsistent == Spec => []CopyIsConsistent
<1>1. IInv => CopyIsConsistent
  BY DEF IInv
<1> QED
  BY <1>1, Invariance, PTL

(* A Stop that returned has copied all that was and will be recorded, unless a  *)
(* recorder outlived the five seconds it was waited for.                        *)
THEOREM StopsAreComplete == Spec => []StopIsComplete
<1>1. IInv => StopIsComplete
  BY DEF IInv
<1> QED
  BY <1>1, Invariance, PTL
--------------------------------------------------------------------------------
(* AutoClick.                                                                   *)
USE ClickAssumption

(* The position is off the screen only before the first start, or since then.   *)
OffScreen == isAutoClicking /\ ~onScreen => wentOff

(* Until it is started with a runnable still in the queue, there is at most one *)
(* runnable, and when it is due the interval has passed since the last click;   *)
(* so it has when there is none.                                                *)
OneRunnable == ~restarted =>
    /\ spaced
    /\ \A d \in 0..MaxInterval : queue[d] > 0 => queue[d] = 1 /\ sinceClick + d >= gap
    /\ \A d, e \in 0..MaxInterval : queue[d] > 0 /\ queue[e] > 0 => d = e
    /\ (\A d \in 0..MaxInterval : queue[d] = 0) => sinceClick >= gap

ClicksInv == ClickTypeOK /\ OffScreen /\ KeepsClicking /\ OneRunnable

(* Nothing is posted at first, and the last click is long past.                  *)
LEMMA ClicksInitInv == ClickInit => ClicksInv
<1> SUFFICES ASSUME ClickInit PROVE ClicksInv
  OBVIOUS
<1>1. 0 \in Delays /\ Nothing \in [Delays -> Nat]
      /\ \A d \in Delays : Nothing[d] = 0
  BY DEF Delays, Nothing
<1>2. ClickTypeOK
  <2>1. sinceClick \in Delays /\ gap \in Delays
    BY DEF ClickInit, Delays
  <2>2. queue \in [Delays -> Nat] /\ clickInterval \in 1..MaxInterval
    BY <1>1 DEF ClickInit
  <2>3. {connected, isAutoClicking, onScreen, spaced, restarted, wentOff} \subseteq BOOLEAN
    BY DEF ClickInit
  <2> QED
    BY <2>1, <2>2, <2>3 DEF ClickTypeOK, Delays
<1>3. OffScreen /\ KeepsClicking
  BY DEF ClickInit, OffScreen, KeepsClicking
<1>4. OneRunnable
  BY <1>1 DEF ClickInit, OneRunnable, Delays
<1> QED
  BY <1>2, <1>3, <1>4 DEF ClicksInv

(* Each callback and each tick keeps it; D are the delays of runnables.         *)
LEMMA ClicksStepInv == ClicksInv /\ [ClickNext]_clickVars => ClicksInv'
<1> SUFFICES ASSUME ClicksInv, [ClickNext]_clickVars PROVE ClicksInv'
  OBVIOUS
<1> DEFINE D == Delays
<1>0. /\ D = 0..MaxInterval /\ 0 \in D
      /\ queue \in [D -> Nat] /\ sinceClick \in D /\ gap \in D /\ clickInterval \in D
      /\ clickInterval \in 1..MaxInterval
      /\ connected \in BOOLEAN /\ isAutoClicking \in BOOLEAN /\ onScreen \in BOOLEAN
      /\ spaced \in BOOLEAN /\ restarted \in BOOLEAN /\ wentOff \in BOOLEAN
  BY DEF ClicksInv, ClickTypeOK, Delays
<1>e. ASSUME NEW q \in [D -> Nat] PROVE q = Nothing <=> \A d \in D : q[d] = 0
  BY DEF Nothing
<1>v. OffScreen /\ KeepsClicking /\ OneRunnable
  BY DEF ClicksInv
<1> HIDE DEF D
<1> USE DEF settings, clicks
<1>1. CASE onServiceConnected
  <2>1. /\ queue' = [queue EXCEPT ![0] = queue[0] + 1] /\ isAutoClicking' = TRUE /\ onScreen' = TRUE
        /\ connected' = TRUE
        /\ restarted' = (restarted \/ queue # Nothing) /\ wentOff' = FALSE
        /\ UNCHANGED <<clickInterval, sinceClick, gap, spaced>>
    BY <1>1 DEF onServiceConnected, startAutoClick, Post
  <2>2. /\ queue' \in [D -> Nat] /\ queue'[0] = queue[0] + 1
        /\ \A d \in D : d # 0 => queue'[d] = queue[d]
    BY <1>0, <2>1
  <2>3. queue' # Nothing
    BY <1>0, <2>2, <1>e
  <2>4. ClickTypeOK'
    BY <1>0, <2>1, <2>2 DEF ClickTypeOK, Delays
  <2>5. OffScreen' /\ KeepsClicking'
    BY <2>1, <2>3 DEF OffScreen, KeepsClicking
  <2>6. CASE restarted \/ queue # Nothing
    BY <2>1, <2>4, <2>5, <2>6 DEF ClicksInv, OneRunnable
  <2>7. CASE ~restarted /\ queue = Nothing
    <3>1. /\ queue'[0] = 1 /\ \A d \in D : d # 0 => queue'[d] = 0
          /\ sinceClick' + 0 >= gap' /\ spaced'
      BY <1>0, <1>e, <1>v, <2>1, <2>2, <2>7 DEF OneRunnable
    <3>2. \A d \in D : queue'[d] > 0 => d = 0
      BY <1>0, <2>2, <3>1
    <3>3. OneRunnable'
      BY <1>0, <2>3, <3>1, <3>2 DEF OneRunnable
    <3> QED
      BY <2>4, <2>5, <3>3 DEF ClicksInv
  <2> QED
    BY <2>6, <2>7
<1>2. CASE onInterrupt
  BY <1>2, <1>0, <1>v DEF onInterrupt, stopAutoClick, ClicksInv, ClickTypeOK, OffScreen,
    KeepsClicking, OneRunnable
<1>3. CASE setClickInterval
  BY <1>3, <1>0, <1>v DEF setClickInterval, ClicksInv, ClickTypeOK, OffScreen, 
    KeepsClicking, OneRunnable
<1>4. CASE setClickPosition
  BY <1>4, <1>0, <1>v DEF setClickPosition, ClicksInv, ClickTypeOK, OffScreen, 
    KeepsClicking, OneRunnable
<1>5. CASE autoClickRunnable
  <2>1. CASE isAutoClicking /\ onScreen
    <3>1. /\ queue' = [queue EXCEPT ![0] = queue[0] - 1, ![clickInterval] = @ + 1]
          /\ spaced' = (spaced /\ sinceClick >= gap) /\ sinceClick' = 0 /\ gap' = clickInterval
          /\ queue[0] > 0
          /\ UNCHANGED <<connected, isAutoClicking, onScreen, clickInterval, restarted, wentOff>>
      BY <1>5, <2>1 DEF autoClickRunnable
    <3>2. /\ queue' \in [D -> Nat] /\ queue'[0] = queue[0] - 1
          /\ queue'[clickInterval] = queue[clickInterval] + 1
          /\ \A d \in D : d # 0 /\ d # clickInterval => queue'[d] = queue[d]
      BY <1>0, <3>1
    <3>3. queue' # Nothing
      <4>1. clickInterval \in D /\ queue'[clickInterval] # 0
        BY <1>0, <3>2
      <4> QED
        BY <1>e, <3>2, <4>1
    <3>4. ClickTypeOK'
      BY <1>0, <3>1, <3>2 DEF ClickTypeOK, Delays
    <3>5. OffScreen' /\ KeepsClicking'
      BY <2>1, <3>1, <3>3 DEF OffScreen, KeepsClicking
    <3>6. OneRunnable'
      <4> SUFFICES ASSUME ~restarted PROVE OneRunnable'
        BY <3>1 DEF OneRunnable
      <4>1. /\ queue[0] = 1 /\ sinceClick >= gap /\ spaced
            /\ \A d \in D : d # 0 => queue[d] = 0
        BY <1>0, <1>v, <3>1 DEF OneRunnable
      <4>2. /\ queue'[clickInterval] = 1
            /\ \A d \in D : d # clickInterval => queue'[d] = 0
        BY <1>0, <3>2, <4>1
      <4>3. \A d \in D : queue'[d] > 0 => d = clickInterval
        BY <1>0, <3>2, <4>2
      <4>4. /\ spaced' /\ sinceClick' + clickInterval >= gap' /\ sinceClick' = 0
            /\ D = 0..MaxInterval /\ clickInterval \in D
        <5>1. spaced' = TRUE
          BY <3>1, <4>1
        <5>2. sinceClick' + clickInterval >= gap'
          BY <1>0, <3>1
        <5> QED
          BY <1>0, <3>1, <5>1, <5>2
      <4> QED
        BY <4>2, <4>3, <4>4 DEF OneRunnable
    <3> QED
      BY <3>4, <3>5, <3>6 DEF ClicksInv
  <2>2. CASE ~(isAutoClicking /\ onScreen)
    <3>1. /\ queue' = [queue EXCEPT ![0] = queue[0] - 1] /\ queue[0] > 0
          /\ UNCHANGED <<spaced, sinceClick, gap, connected, isAutoClicking, onScreen, clickInterval,
                         restarted, wentOff>>
      BY <1>5, <2>2 DEF autoClickRunnable
    <3>2. /\ queue' \in [D -> Nat] /\ queue'[0] = queue[0] - 1
          /\ \A d \in D : d # 0 => queue'[d] = queue[d]
      BY <1>0, <3>1
    <3>3. ClickTypeOK'
      BY <1>0, <3>1, <3>2 DEF ClickTypeOK, Delays
    <3>4. OffScreen' /\ KeepsClicking'
      BY <1>v, <2>2, <3>1 DEF OffScreen, KeepsClicking
    <3>5. OneRunnable'
      <4> SUFFICES ASSUME ~restarted PROVE OneRunnable'
        BY <3>1 DEF OneRunnable
      <4>1. /\ queue[0] = 1 /\ sinceClick >= gap /\ spaced
            /\ \A d \in D : d # 0 => queue[d] = 0
        BY <1>0, <1>v, <3>1 DEF OneRunnable
      <4>2. \A d \in D : queue'[d] = 0
        BY <1>0, <3>2, <4>1
      <4> QED
        BY <1>0, <3>1, <4>1, <4>2 DEF OneRunnable
    <3> QED
      BY <3>3, <3>4, <3>5 DEF ClicksInv
  <2> QED
    BY <2>1, <2>2
<1>6. CASE Tick
  <2>1. /\ queue' = [d \in D |-> (IF d < MaxInterval THEN queue[d + 1] ELSE 0)
                                + (IF d = 0 THEN queue[0] ELSE 0)]
        /\ sinceClick' = IF sinceClick < MaxInterval THEN sinceClick + 1 ELSE sinceClick
        /\ UNCHANGED <<connected, isAutoClicking, onScreen, clickInterval, gap, spaced, restarted,
                       wentOff>>
    BY <1>6 DEF Tick, D
  <2>2. /\ queue' \in [D -> Nat]
        /\ queue'[0] = queue[0] + queue[1]
        /\ \A d \in D : d # 0 /\ d + 1 \in D => queue'[d] = queue[d + 1]
        /\ queue'[MaxInterval] = 0
    <3>1. 1 \in D /\ MaxInterval \in D /\ \A d \in D : d < MaxInterval <=> d + 1 \in D
      BY <1>0
    <3> QED
      BY <1>0, <2>1, <3>1
  <2>3. ClickTypeOK'
    <3>1. sinceClick' \in D
      BY <1>0, <2>1
    <3> QED
      BY <1>0, <2>1, <2>2, <3>1 DEF ClickTypeOK, Delays
  <2>4. \A d \in D : queue[d] > 0 => queue'[IF d = 0 THEN 0 ELSE d - 1] > 0
    BY <1>0, <2>2
  <2>5. queue # Nothing => queue' # Nothing
    <3> SUFFICES ASSUME NEW d \in D, queue[d] # 0 PROVE \E e \in D : queue'[e] # 0
      BY <1>0, <1>e, <2>2
    <3>1. queue[d] > 0 /\ (IF d = 0 THEN 0 ELSE d - 1) \in D
      BY <1>0
    <3> QED
      BY <2>4, <3>1
  <2>6. OffScreen' /\ KeepsClicking'
    BY <1>v, <2>1, <2>5 DEF OffScreen, KeepsClicking
  <2>7. OneRunnable'
    <3> SUFFICES ASSUME ~restarted PROVE OneRunnable'
      BY <2>1 DEF OneRunnable
    <3>1. sinceClick' >= sinceClick /\ (sinceClick' = sinceClick + 1 \/ sinceClick' >= gap)
      BY <1>0, <2>1
    <3>2. CASE queue = Nothing
      <4>1. \A d \in D : queue'[d] = 0
        <5>1. \A d \in D : queue[d] = 0
          BY <1>0, <1>e, <3>2
        <5>2. 0 \in D /\ 1 \in D /\ \A d \in D : d < MaxInterval => d + 1 \in D
          BY <1>0
        <5> QED
          BY <2>1, <5>1, <5>2
      <4>2. sinceClick >= gap /\ spaced
        <5>1. \A d \in D : queue[d] = 0
          BY <1>0, <1>e, <3>2
        <5> QED
          BY <1>0, <1>v, <5>1 DEF OneRunnable
      <4>3. sinceClick' >= gap /\ spaced' /\ gap' = gap /\ D = 0..MaxInterval
        BY <1>0, <2>1, <3>1, <4>2
      <4> QED
        BY <4>1, <4>3 DEF OneRunnable
    <3>3. ASSUME NEW c \in D, queue[c] > 0 PROVE OneRunnable'
      <4>1. queue[c] = 1 /\ (\A d \in D : d # c => queue[d] = 0) /\ sinceClick + c >= gap
        BY <1>0, <1>v, <3>3 DEF OneRunnable
      <4>2. PICK e \in D : e = IF c = 0 THEN 0 ELSE c - 1
        BY <1>0
      <4>3. queue'[e] = 1 /\ \A d \in D : d # e => queue'[d] = 0
        BY <1>0, <2>2, <4>1, <4>2
      <4>4. sinceClick' + e >= gap
        <5>1. e = c - 1 \/ (e = 0 /\ c = 0)
          BY <1>0, <4>2
        <5> QED
          <6>1. c \in Nat /\ e \in Nat /\ sinceClick \in Nat /\ sinceClick' \in Nat /\ gap \in Nat
            BY <1>0, <2>1
          <6>2. CASE sinceClick' = sinceClick + 1
            BY <4>1, <5>1, <6>1, <6>2
          <6>3. CASE sinceClick' >= gap
            <7>1. \A x, y, z \in Nat : x >= y => x + z >= y
              OBVIOUS
            <7> QED
              BY <6>1, <6>3, <7>1
          <6> QED
            BY <3>1, <6>2, <6>3
      <4>5. queue' # Nothing
        BY <1>e, <2>2, <4>3
      <4> QED
        <5>1. spaced' /\ gap' = gap /\ D = 0..MaxInterval
          BY <1>0, <1>v, <2>1 DEF OneRunnable
        <5>2. \A d \in D : queue'[d] > 0 => d = e
          BY <1>0, <2>2, <4>3
        <5>3. ~\A d \in D : queue'[d] = 0
          BY <4>3
        <5> QED
          BY <4>3, <4>4, <5>1, <5>2, <5>3 DEF OneRunnable
    <3> QED
      BY <1>0, <1>e, <3>2, <3>3
  <2> QED
    BY <2>3, <2>6, <2>7 DEF ClicksInv
<1>7. CASE UNCHANGED clickVars
  BY <1>7, <1>v DEF clickVars, ClicksInv, ClickTypeOK, OffScreen, KeepsClicking, OneRunnable
<1> QED
  BY <1>1, <1>2, <1>3, <1>4, <1>5, <1>6, <1>7 DEF ClickNext

LEMMA ClicksInvariance == ClickSpec => []ClicksInv
BY ClicksInitInv, ClicksStepInv, PTL DEF ClickSpec

(* While it is on, with its position on the screen since it was started, the    *)
(* service has a click pending, for any longest interval.                       *)
THEOREM ClickingGoesOn == ClickSpec => []KeepsClicking
<1>1. ClicksInv => KeepsClicking
  BY DEF ClicksInv
<1> QED
  BY <1>1, ClicksInvariance, PTL

(* Until the service is started with a runnable in the queue, its clicks are at *)
(* least the interval apart, for any longest interval.                          *)
THEOREM ClicksAreSpaced == ClickSpec => []ClicksSpaced
<1>1. ClicksInv => ClicksSpaced
  BY DEF ClicksInv, OneRunnable, ClicksSpaced
<1> QED
  BY <1>1, ClicksInvariance, PTL
================================================================================
