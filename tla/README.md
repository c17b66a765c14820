# A verification development of android-script

android-script is a collection of Android tools. Most of its own lines are documents,
short scripts and exercises; the parts with state, concurrency and failure are

* the **systrace / catapult** tree under `adb/screencap/platform-tools/systrace/catapult`
  (called `CAT` below): the Python libraries that run device commands under timeouts and
  retries and keep what they learn about a device in caches (`devil`), the tracing session built on
  them (`systrace`), and the libraries that fetch binaries from cloud storage for them
  (`py_utils`, `dependency_manager`);
* the **AccessibilityServiceDemo** application under `code/` (called `JAVA`): a service that
  clicks at an interval, and a floating window.

This directory holds TLA+ models of the first, and of the clicking service, the TLC
configurations that check them, and TLAPS proofs of every safety property that is found to hold. `PROJECT.json`
says for every definition which lines it models, which runs and theorems there are, and which
hazards of the code they are for.

## 1. Inventory

| Component | State | Operations | Interacts with | What is hard |
|---|---|---|---|---|
| `devil.utils.timeout_retry.Run`, `watchdog_timer`, `reraiser_thread` | number of the try, its daemon thread and its result or exception, the watchdog's start | start a try, join in 0.1 s slices and 60 s periods, give up, retry, return, raise | everything that talks to a device; `py_utils.Timeout` | a thread given up is not stopped and overlaps the next try; the timeout must span several joins; late results |
| thread groups: `reraiser_thread`, `decorators`, `parallelizer` | owner of each thread, `blocked_parent_thread_group` of each group, who joins what | decorated call, `RunAsync`, `pMap`, `pFinish`, end of a join, end of a thread | `timeout_retry` looks for an enclosing timeout through the links | links are set and cleared by different threads; a missing one nests timeouts, a cyclic one hangs |
| `TracingController`, `SystraceRunner`, tracing agents | agents started, in progress, collection threads, results | start, clock sync, stop, collect, output | each agent call is a `timeout_retry.Run` without retries | agents that hang, raise, or finish after having been given up; what is then left tracing or lost |
| `LogcatMonitor` | record thread, stop event, record file and its lock, output file | `Start`, `Stop`, `Close`, `WaitFor`, the recorder thread | the `adb logcat` process | a recorder outlives the five seconds of its join; copy against write |
| `ports` | counter file, lock file | allocate, reset | processes on one host, test servers | a reset takes no lock; ports are given out before they are bound |
| `Forwarder` | per process: two maps and the initialized devices; shared: lock file with the owner's group, host daemon, device daemons | `Map`, `UnmapDevicePort`, `UnmapAllDevicePorts`, `KillHost`, `KillDevice` | processes on one host, daemons | commands that fail half way, processes that die, groups that take over |
| `AutoClickAccessibilityService` | switch, position, interval, runnables in the handler's queue | connect, interrupt, set interval and position, run | the main looper | runnables posted before a stop |
| `DeviceUtils`: pushing files | cache of checksums, token on the device, dumps; host and device files | `PushChangedFiles`, `LoadCacheData`, `DumpCacheData`, end of a session | `timeout_retry`, adb, other sessions and programs at the device | checksums stored before the push; tries given up that go on; dumps of an earlier session |
| `DeviceUtils`: apps and properties | caches of paths, checksums and properties; the same token | `Install`, `Uninstall`, `Reboot`, `GetProp`, `SetProp`, load and dump | the same | commands carried out though they fail; caches verified in part |
| `py_utils.cloud_storage` | global lock, a lock file per path, `.sha1`, `.fetchts`, the binary | `_FileLock`, `GetIfChanged` | processes of one machine, the bucket | the lock file is removed at each release; the time of a fetch is written before it |
| `dependency_manager`: fetching | table of entries merged from configs; download path, directory of an archive | `FetchPath`, download, unzip | `cloud_storage`, processes of one machine | unzipping takes no lock |
| `dependency_manager`: updating | config in memory and on disk, uploads pending, bucket | add a job, execute, upload, roll back | programs that share config and bucket | failures half way, nothing is locked |
| `FloatWindowManager` | position, drag flag, saved height | touch, move, mini/normal, show/hide | the window manager | a cancelled touch, clamping against the saved position |
| `device_denylist`, `flag_changer`, `py_trace_event` | files shared by processes, a stack of flags | read/extend/reset, push/restore, enable/disable | other processes, the device | unlocked read-modify-write, restoration after failure |
| device commands, other agents, web UI, vendored code, exercises, scripts | – | – | – | I/O, parsing, presentation |

What makes each correct is stated as the properties of its module (section 3). The last
three rows are not modelled: the program makes no `FloatWindowManager` (its only use is commented
out), the second row is planned, and the last is not worth a model; `PROJECT.json` lists each with
its reason.

## 2. How the modules fit together

```
RetriedCall            what timeout_retry.Run promises
   ^  refined by
TimeoutRetry           Run, JoinAll, watchdog, threads          <- DevilProofs
   .  its outcome (value, error, timeout with the thread left running) is what
   .  one agent call of TracingController and one link of ThreadGroups stand for
ThreadGroups           who covers whom with a timeout           <- DevilProofs
TracingController      a tracing session                        <- TracingControllerProofs
LogcatMonitor          one recorder and its client              <- AndroidProofs
PortAllocation         processes and a counter file             <- DevilProofs
Forwarder              processes, maps and daemons              <- MCForwarder (instances),
                                                                   DeviceStateProofs
AutoClick              one service and its handler queue        <- AndroidProofs
DeviceFiles            pushing files and the cache of checksums <- MCDeviceFiles, DeviceFilesProofs
DeviceApps             apps, reboots and their caches           <- MCDeviceUtils, AndroidProofs
DeviceProps            a property and the cache of properties   <- MCDeviceUtils,
                                                                   DeviceStateProofs
PathLock               what cloud_storage._FileLock promises
   ^  refined by
CloudStorage           the lock down to inodes, GetIfChanged    <- MCCloudStorage,
                                                                   CloudStorageProofs
   .  within the lock a download is one step of
Dependencies           merging of configs, download, unzipping  <- MCDependencies,
                                                                   DependenciesProofs
ConfigUpdate           uploads, rollback, the config file       <- MCConfigUpdate,
                                                                   ConfigUpdateProofs
```

`TracingController` uses the abstract view of a call on purpose: with `Retries = 0` a
`RetriedCall` either returns, raises, or raises `TimeoutError`, which `TimeoutDeco` turns into
`False`. What `RetriedCall` hides, that the thread of a call given up goes on, is put back in
`TracingController` as the state `thread`, since that is where the interesting behaviour is.

`DeviceFiles`, `DeviceApps` and `DeviceProps` use the view of a call in the same way: a try that times out is made
again, and its thread goes on as the `late` one; how many tries there are and when is `TimeoutRetry`'s
matter. `Dependencies` takes `GetIfHashChanged` as one step, which `CloudStorage` justifies: it runs
within the lock, and replaces the file by a move.

Components that are proved in one module are extended by it, so their names differ: `GroupsInit`,
`GroupsSpec` and `groupsVars` in `ThreadGroups`, `PortsInit` in `PortAllocation`, `AppsInit` in
`DeviceApps`, `PropsInit` in `DeviceProps` (with `hasToken`, `attempt`, `PropRetries` for `token`, `try`, `Retries`), `ClickInit` in `AutoClick`, and so on for what other modules call `Init`, `Next`, `Spec`, `vars` and `TypeOK`.

Mutants stand beside the definitions they change (`HandleBareExcept` before `Handle`); they are
used by no specification.

## 3. Modules, properties and runs

### TimeoutRetry (and RetriedCall)

`pc` is the place of the calling thread in `Run`: `start` creates the try's thread group,
`loop` is the head of the `while` of `_JoinAll` with the watchdog test, `join` is inside
`thread.join(0.1)`, `dump` the stack dump of `JoinAll`, `reraise` and `check` are what follows the loop in
`_JoinAll` and in `Run`. `Handle` is both `except` clauses and the increment after them; it is told who
raised (`raiser`): the thread of the try, the watchdog, the dump (a thread that ends just then has no frame
to dump, and a `KeyError` replaces the timeout), or a signal handler, which may raise anything in the
calling thread anywhere (`Interrupt`). One tick is a 0.1 s slice. The
clocks saturate, since only "expired" and "not expired" are ever asked. A thread may end at any
time, also long after its try was given up.

* `TriesInOrder`, `OnlyOutsidersAbandon`, `OutcomeOfLastTry`: how tries follow and overlap each
  other (only the watchdog and signals leave a try running), and that no late result leaks into the
  outcome.
* `BoundedWait`, `RunEnds`: the caller's wait is bounded and the call ends although every
  function may hang. `Tick` assumes that the caller is not descheduled for a whole JoinAll
  period (60 s) at once; otherwise a JoinAll could end without a look at the watchdog.
* `ImplementsRetriedCall`: refinement of `RetriedCall`.

Run `TimeoutRetry`: timeout of 3 slices against a period of 2, so that a timeout spans two
JoinAll calls; 2 retries, so that a first, a middle and a last try exist; every error
retryable.

Fairness: `WF(Caller)`, the calling thread is scheduled. Nothing is assumed of the functions.

### ThreadGroups

One action per way of creating or leaving a group; `kind` tells the groups of `timeout_retry`,
`RunAsync` and `pMap` apart. A thread acts only when it is running and not in a join.
`TimeoutGroupFrom` is the search of `CurrentTimeoutThreadGroup`.

* `LinksDescend`: links lead to older groups, so the search terminates.
* `NoNestedTimeouts`: nobody waits under a timeout of his own inside an outer one, `pMap` aside.
  It holds although the link of a timeout group is cleared after the first 60 s: the group whose
  link is lost is itself a timeout group, where every search ends.

Run `ThreadGroups`: four threads and three groups, enough for a decorated call inside a
`RunAsync` or a `pMap` inside a decorated call, with a second thread in one of them.

### TracingController

The main thread (`pc`, `call`, `todo`) goes through the session; the threads of agent calls and
the collection threads run beside it. `Begin` and `End` are `TimeoutDeco`: an `End("timeout")`
may come at any time, also for a thread that has just ended. A method may also return False of itself, with its
target tracing or not, as the cgroup agent does without root and the process-dump agent when it cannot pull its
data (`Failed`): the controller treats that as it treats a timeout. The echo by which atrace writes its
marker may fail unnoticed (`unmarked`).

* `PhasesInOrder`: an agent is stopped, and asked for results, only after the phases before it
  succeeded.
* `TracesAreSynced`: a collected trace holds its marker, but for an echo that failed.
* `NothingSilentlyLost`, `OrphansOnlyFromRefusals`: in a session that ends well, a missing result
  and a target left tracing are due to a call that timed out or returned False.
* `SessionEnds`: with timeouts the session ends, whatever hangs.

Run `TracingController`: one agent with and one without a collection thread, both with clock
sync, so that every path of a call occurs for each kind, in both orders of the loops; HTML output
(with `--json` a result without data is written like any other).

Fairness: `WF(Main)`, the main thread runs and its timeouts expire; `WF(Marking)`, a clock sync
marker, which is written under no timeout, does not hang. Agents may.

### LogcatMonitor

The client is sequential, as its callers are; recorder threads read, test the event, take the
lock and write. `Join` may end with the recorder alive (five seconds are over) or not. `WaitFor`
and `FindAll` change nothing and are left out.

* `CopyIsConsistent`, `StopIsComplete`: the copy meets no write and misses no line.
* `StopEnds`: also when logcat hangs.

Run `LogcatMonitor`: two recorders and two lines, so that an abandoned recorder meets its
successor with different lines in hand.

Fairness: the client finishes its Stop, the recorder processes a line it holds. Nothing is
assumed of logcat.

### PortAllocation

Every access to the counter file is a step of its own, and so is every probe of a port. Processes
bind what they were given some time later, or find it taken; servers end, other programs bind and release
ports, and processes die anywhere, also between emptying the counter file and writing it. Errors are caught:
where the file cannot be opened or read, or is empty, the answer is 0 (`OpenFails`, `Read`); where the probe or
the write of the counter fails, it is the port that was reached, with the counter where it was
(`ProbeOrWriteFails`; `unrecorded` remembers such ports, `logged` that a result came with an exception). Any
process may reset the counter at any time; `reset` remembers that one did.

* `GivenPortsDistinct`, `CounterPastGiven`: until a reset allocation is process-safe, and why, but for
  `unrecorded`.
* `ZeroMeansExhausted`: until a reset, 0 without an exception is returned only after every port from the
  counter on was found in use.
* `AllocationEnds`: the lock is released, resets, errors and deaths or not.

Run `PortAllocation`: two processes, three ports, two operations each, a counter file that is missing, empty or
holds any counter, and any set of busy ports: the range is exhausted from both sides, and a reset falls between
any two steps of an allocation. Fairness: the holder of the lock runs.

### Forwarder

Methods run under the lock, a step for each command they run and each change of the maps in
between. `Map` goes on to another pair of `port_pairs` or leaves. A command is done, or fails, or
times out with or without having been carried out. Processes and groups end at any step, and others
take their place; `group` is set by the first call of a process. Two history variables let the
properties say "but for failures" exactly: `excused` holds the keys that a failed command, a
`KillHost` or the end of their process was about, until they are mapped or unmapped again, and
`displaced` the processes whose group lost the daemon to a live group.

* `MapsAreInverse`: no unmap can raise `KeyError` as long as host ports are not shared.
* `LeaksOnlyFromFailures`, `ForwardsHold`: maps and daemon agree but for failures; in particular a
  sibling that comes up does not kill the daemon of its group.
* `InitializedRuns`: a device believed initialized has its forwarder, also after a refused map.
* `CallsEnd`: the lock is always released.

Run `Forwarder`: a process with two ports of a device, which calls every method, and one that
comes and goes, in the same or in another group, and calls `KillHost`. The second forwards nothing
itself: maps are private, daemons hold a forward per key, and the ends of a process that holds
forwards are those of the first. No two requests share a host port. Instances inherited over a fork are not modelled; nor are device ports assigned dynamically.
Fairness: every command has a timeout, so the holder goes on, and the list of a `Map` is finite
(`SF` on its last `Record`).

### AutoClick

All callbacks run on the main thread, so the state is the switch, the position, the interval and the
posted runnables: how many there are for each time left. A tick never skips a runnable that is due, but it
may run late. `restarted` remembers a start with a runnable still queued, `wentOff` a position off
the screen since the last start.

* `KeepsClicking`: the chain is not lost by a stop in between or a change of the interval.
* `ClicksSpaced`: until it is restarted so, clicks keep their interval.
* `Drains`: switched off, the queue empties.

Run `AutoClick`: intervals of up to three ticks and up to three runnables queued, so that runnables of
two starts meet at every distance. Fairness: the looper runs what is due, time passes.

### DeviceFiles

`PushChangedFiles` on a directory, step by step: listing the device (`GetDeviceNodes`), checksums of
what is on both sides (`CalculateChecksums`, which may fail), comparing and storing them
(`GetChangedFiles`), removing stale files, choosing how to push (`PushFilesImpl`: one by one, or in an archive of
the files as they are then), pushing, and committing the host's checksums to the cache. md5sum prints no line
for a file that is gone or that it cannot read; the lines there are go to paths in an order that then need not
be theirs (`Md5Sums`). When the checksums fail, what is pushed is the directory itself, which adb puts below
the one on the device (`astray`), or an archive, which has the files in their places. The host's files change
at any time (`Edit`). The thread of a try that timed out goes on as `late` beside the next one. The token is
modelled by whom it belongs to (`marks`): this session, the last dump, or neither. Sessions end
anywhere; others write to the device with and without a token of their own. Checksums are
contents. Four history variables say what the cache cannot know: `doubt` holds the files changed with
no record of it in this cache (a failed push, a late thread, another program, a commit of sums that
are not those of what was pushed), `dumpDoubt` the same of the dump as long as the token does not tell, `raced` the
files of the device changed behind the live call, and `edited` those of the host changed, or with sums that may
be others', within it.

* `CacheAgrees`: a cached checksum is that of the file on the device, but for `doubt`; so what a
  session with a token of its own did in between two others is never taken over unnoticed.
* `PushedIsThere`: when a push ends, its files are there, but for `raced`, `edited` and, with the cache,
  `doubt`, and for a directory that went astray.

Run `DeviceFiles`: two files, two contents, one retry, two events
(timeouts, failures, edits, silent md5sums, foreign writes, ends of sessions): a dump that is loaded takes one,
for the session after it, and leaves one for a write in between.

### DeviceApps

`Install` and `InstallSplitApk` are one call with the set of apks as its argument. Its steps are those
of `_InstallInternal`: the paths from the cache, verified if they were loaded, or from `pm path` and
then stored; the checksums from the cache or the device; what is stale; the `Uninstall` of what is there
unless it is a reinstall; dropping the caches; `adb install`, which may fail, or fail and be done;
granting permissions and storing the checksums. A partial install adds to what is there. `pm path`, whose exit
status is not looked at from Lollipop on, may fail without a word, and then the app is taken not to be there
(`LookupIsMute`). The package may be part of the system image (`system`): it then takes over when the app is
uninstalled, and cannot be removed itself. A late thread goes on as in `DeviceFiles`. `foreign` remembers which
entries others, late threads or a mute `pm path` may have made wrong.

* `AppCacheAgrees`: cached paths and checksums are those of the app on the device, but for `foreign`.
* `InstalledIsThere`: when `Install` is over the device has the apks, and when `Uninstall` is over nothing
  but what the system image holds; an app removed by hand between two sessions is noticed. A late try that stores
  the paths it found is one of the exceptions: with three events it makes the session trust what a stale dump said.
  So is, for `Uninstall`, a mute `pm path`.

Run `DeviceUtils`, with `DeviceProps`: an app without splits and two versions of one with
a split, one retry, two events: an event and what it does to a later one. The run does not need more of a
session than one call at a time, since devices are not shared by the threads of one `DeviceUtils`.

### DeviceProps

One property of the device and what the session knows of it. The cache is filled with all properties when it is
initialised: under `_cache_lock` the device is asked (`Read`), what it said is stored (`Fill`) and the token is set
(`SetToken`), while `SetProp` takes no lock. `GetProp(cache=False)` reads and stores; `SetProp` sets, drops the
property from the cache, and may check; `Reboot` clears the cache while the device is about to reboot. All are
retried calls: a try given up goes on as `late`, reads or sets late, and stores later still. A `setprop` may be
without effect. `source` says where the answer of the cache comes from: it was read and the property was not
changed since but by calls that ended well, it was dropped, or it is in doubt.

* `PropAnswersAgree`: between calls, what `GetProp(cache=True)` would answer is the property as it is if it was
  read, and empty if it was dropped; in doubt are a value read before another program, the device or a late
  thread changed the property, and one that a `SetProp` or `Reboot` that failed or timed out may have changed.

Run `DeviceUtils`, with `DeviceApps`, as the two share no state: a behaviour is about one of them, with the other
at rest. Two values and none, one retry, four events: a call that sets the property, one that is given up, and two
more around them.

### CloudStorage (and PathLock)

`_FileLock` down to inodes: an attempt takes the flock on the global file (`TakeGlobal`), opens the lock
file at the path, creating it if it is not there (`OpenPseudo`), and tries its flock (`LockPseudo`); a
release takes the global lock again, unlocks (`Unlock`) and removes the file (`Remove`). An attempt that
fails is made again until ten seconds are over (`TimeOut`), and a process may die at any step, which
closes its files. Within the lock `GetIfChanged` reads `.sha1`, compares its time with the one in
`.fetchts`, writes that, and compares, downloads and verifies the binary. `owed` remembers that the call
that wrote `.fetchts` did not fetch what `.sha1` says.

* `ImplementsPathLock`: refinement of `PathLock`, one process at a time, whichever dies.
* `HeldIsAtPath`: the lock that is held is the one at the path, so nobody removes another's lock file.
* `StampIsTrue`: between calls a fetch later than `.sha1` vouches for the binary, but for `owed`.

Run `CloudStorage`: three processes, as in the interleaving that a comment in `_FileLock` describes; four
inodes, one more than can be in use; two contents; five edits, failures, timeouts and deaths.

### Dependencies

Each process has its own list of configs, merged as `DependencyManager` merges them (`Table`: the paths
of a later config come after those of an earlier one, in groups of their own, unless they are there
already), and asks
for the platform with an OS version and then without, as `BinaryManager` does, or prefetches what
is for the latter, as `devil_env` does: with one try, and without a last look at the file. A path is a local
one that exists or is downloaded and, if it is an archive, unzipped: the directories of all versions go file by
file, and any of them may stay (`RemoveStale`, `StaleRemoved`: rmtree ignores errors), the archive is opened, its
members are extracted one by one, and what was extracted goes if that fails, unless that fails too
(`Abandoned`). What is downloaded is not hashed (`WrongDownload`). On a `mac` it is ditto that extracts, and
nobody looks at its exit status (`DittoFails`). `spoilt` remembers the platforms and versions that processes
disturbed for each other, or that were left in part: removed half-way, downloaded wrong, or not extracted to
the end by one that died, by ditto, or before a RemoveDir that failed. It is cleared by who finds itself alone and has
removed every dependency.

* `ReturnedIsWhole`: a downloaded path that is returned holds the whole version its config names,
  but for `spoilt` and for an extraction that is under way.
* `LocalPathsInOrder`: a local path that is returned is the first that exists in the first config that
  has one.

Run `Dependencies`: two processes out of four lists of configs with two versions, local paths, a default
and a versioned platform; an archive of two members; two events. With ditto the lists are those of which no first
config names the versioned platform (`DittoForArchives`): which platform an archive is for is the same with
either program. Processes are symmetric. Deadlock is checked.

### ConfigUpdate

Programs that open one config for writing, set versions and paths, and execute: each pending upload looks
whether the name is taken, backs up what is there if it is forced, and inserts the local file, which may have
changed since it was hashed (`Stores`); then the config is emptied and written, and the uploads are forgotten
(`ClearPending`). Any exception, an interrupt included and up to that very step (`Fails`), rolls the uploads back,
last to first; a rollback may fail too. The bucket is modelled by its names, of which a version, its backup,
and `None` matter; under a name that no config has there may be anything. `before` is the bucket at the start of an
attempt. `doubt` holds the versions that two programs upload at a time or that are uploaded again by uploaders
that hold on to an earlier attempt; `unkept` those under which other content was uploaded, and those whose uploads an interrupt rolled back after the config was written.

* `NamedIsStored`: a config that can be loaded names only what the bucket holds, but for `doubt` and `unkept`.
* `RollbackRestores`: a rollback that went through restores the names of its uploads, but for `doubt`, for
  an upload that was done though it seemed to fail, and for an object that two uploads of one attempt replaced,
  since they share one backup (`Overwritten`).

Run `ConfigUpdate`: two platforms and two versions. Two programs have two pending uploads, so that both go to one
name, and one event: a failure, an interrupt, a changed file or a death; a program alone has three uploads and two
events, so that a second attempt after a failed rollback fails too (`OneOrFew`). A torn config stops everybody, so
the run allows deadlock.

## 4. Bounds

Every bound is a constant: `MaxGroups`, `MaxLines`, `MaxThreads`, `MaxOps`, `MaxPosts`, `MaxInterval`,
`MaxEvents` and `MaxPropEvents` (what happens around the calls: failures, deaths, edits), `MaxJobs`. Two runs have a
constraint on top (`DittoForArchives`, `OneOrFew`), given with the run. `Inodes` must only exceed the
number of files in use at a time.
`Timeout`, `Retries`, `N`, `First`, `Last` and the sets are parameters of the code itself. Runs in which
a bound ends the behaviour do not check for deadlock; the systems modelled do end.

## 5. Proofs

Each proof module states its inductive invariant at its head, as named parts; TLC checked it as an invariant
of the component's run before it was proved. The theorems hold for every value of the constants that
satisfies the assumptions of the module (numbers are naturals, the names for "nobody" and "nothing" are none of
the values), so without the bounds of section 4: any numbers of processes, threads, agents, files,
retries, failures. Where a theorem needs more, that is a hypothesis of the theorem, given below with its
reason.

| Module | Of | Theorems | Property or result |
|---|---|---|---|
| `DevilProofs` | `TimeoutRetry` | `TypeCorrect`, `TriesAreInOrder`, `OnlyOutsidersLeaveThreads`, `LastTryDecides`, `WaitIsBounded`, `RunImplementsRetriedCall` | `TypeOK`, `TriesInOrder`, `OnlyOutsidersAbandon`, `OutcomeOfLastTry`, `BoundedWait`, safety part of the refinement of `RetriedCall` |
| | `ThreadGroups` | `GroupsTypeCorrect`, `SearchDescends`, `TimeoutsAreNotNested` | `GroupsTypeOK`, `LinksDescend`, `NoNestedTimeouts` |
| | `PortAllocation` | `PortsTypeCorrect`, `CounterIsPast`, `ProcessSafe`, `ZeroIsExhaustion` | `PortsTypeOK`, `CounterPastGiven`, `GivenPortsDistinct`, `ZeroMeansExhausted` |
| `TracingControllerProofs` | `TracingController` | `TypeCorrect`, `OrderOfPhases`, `SyncedTraces`, `NothingLost`, `OrphansAreRefusals`, `ResultOrRefusal` | `TypeOK`, `PhasesInOrder`, `TracesAreSynced`, `NothingSilentlyLost`, `OrphansOnlyFromRefusals` |
| `AndroidProofs` | `LogcatMonitor` | `TypeCorrect`, `CopiesAreConsistent`, `StopsAreComplete` | `TypeOK`, `CopyIsConsistent`, `StopIsComplete` |
| | `AutoClick` | `ClickingGoesOn`, `ClicksAreSpaced` | `KeepsClicking`, `ClicksSpaced` |
| | `DeviceApps` | `AppsTypeCorrect`, `AppCacheIsRight`, `InstallsAreThere` | `AppsTypeOK`, `AppCacheAgrees`, `InstalledIsThere` |
| `DeviceStateProofs` | `Forwarder` | `TypeCorrect`, `InverseMaps`, `LeaksAreExcused`, `RunningDevices`, `ForwardsAreHeld` | `TypeOK`, `MapsAreInverse`, `LeaksOnlyFromFailures`, `InitializedRuns`, `ForwardsHold` |
| | `DeviceProps` | `PropsTypeCorrect`, `PropAnswers` | `PropsTypeOK`, `PropAnswersAgree` |
| `DeviceFilesProofs` | `DeviceFiles` | `TypeCorrect`, `CacheAgreement`, `PushedArrives` | `TypeOK`, `CacheAgrees`, `PushedIsThere` |
| `CloudStorageProofs` | `CloudStorage` | `TypeCorrect`, `HeldAtPath`, `StampsAreTrue`, `FileLockImplementsPathLock` | `TypeOK`, `HeldIsAtPath`, `StampIsTrue`, `ImplementsPathLock` |
| `DependenciesProofs` | `Dependencies` | `TypeCorrect`, `ReturnedWholes`, `LocalPathsKeepOrder` | `TypeOK`, `ReturnedIsWhole`, `LocalPathsInOrder` |
| `ConfigUpdateProofs` | `ConfigUpdate` | `TypeCorrect`, `NamedFilesAreStored`, `RollbacksRestore` | `TypeOK`, `NamedIsStored`, `RollbackRestores` |

In modules that prove about several components, the parts below are named with the component's prefix
(`GroupsIInv`, `PortsIInv`, `AppsInv`, `PropsInv`, `ClicksInv`).

`TimeoutRetry`. `IInv` adds to the properties what they rest on: the state of the current try at each `pc`
(`CurrentTry`), that an empty `alive_threads` means an ended thread (`JoinedIsOver`), that `raised` follows
a caught exception (`RaisedByLastTry`), and that the slices counted are covered by the elapsed time at each
`pc` (`SlicesWatched`), without which `BoundedWait` is not inductive. Of the refinement of `RetriedCall` the
safety part is proved: initial states map to initial states and every step to a step or a stutter.

`ThreadGroups`. The loop of `CurrentTimeoutThreadGroup` is a recursive function, whose equation is not for
free: `SearchEquation` proves it from the descent of the links (`LinksDescend`), a group at which it failed
being impossible as there would be a least one. `NoNestedTimeouts` then rests on two facts: a group of
`RunAsync` is linked to the group of its creator as long as that one waits for it (`GroupsInv`), so that
the search finds whatever timeout covers a thread (`SearchFinds`); and covers only shrink while nobody
begins to wait (`CoverShrinks`), which needs that a thread waits for groups of its own (`JoinInv`).

`TracingController`. `IInv` says of each phase which calls have been made, which came to True, and which are
still to make, so that at the end of a phase the agents that are missing are those of which a call timed out or returned
False (`StartInv`, `StopInv`, `CollectInv`, `ResultsInv`); what the threads given up may still do is confined to
`CallInv` and `TracingInv`. `SyncInv` says that an agent whose marker was issued is either marked or one whose echo
failed. `NothingLost` and `OrphansAreRefusals` have the hypothesis `~WriteJson`: with
`--json` a result without data is accepted (section 6), and both are false; the run has `WriteJson = FALSE`
too. `ResultOrRefusal` is what is left with either output.

`AutoClick`. `ClicksInv` says that the position is off the screen only until the first start or since then
(`OffScreen`), without which `KeepsClicking` is not inductive, and that until it is started with a runnable in
the queue there is at most one (`OneRunnable`), due when the interval since the last click is over.

`LogcatMonitor`. `IInv` says who holds `_record_file_lock` (`LockInv`), which thread the client refers to where in
`Stop` (`Stopping`), and that without a join that timed out no recorder but that one is alive
(`OneRecorder`), which makes `StopIsComplete` inductive.

`PortAllocation`. `PortsIInv` adds mutual exclusion (`Exclusion`), what a process in the critical section knows
(`Progress`), and that until a reset the counter never falls behind the search, which found all that it passed in
use (`CounterGrows`). Ports may be released at any time, so `ZeroMeansExhausted` is about what the search found
(`tried`), not about what is free when it ends; and the ports returned after an error, which the counter does not
record (`unrecorded`), are the exception of the other two.

`Forwarder`. `BaseInv` (the call under way, what a process holds it asked for, the daemon between a command and
the maps that follow it) holds of any calls. Two rules on `Requests` are hypotheses. `OnePortEach`: a process
gives each device port a host port of its own, and no two the same; each of the maps has room for one entry per
port, so without it `MapsAreInverse` fails, and an unmap that raises leaves its forward (section 6). `OwnDevices`:
but for `KillHost`, two processes are not about one device; the maps are private to a process while
`UnmapAllDevicePorts` of another kills the device forwarder and removes the forwards, so without it
`InitializedRuns` and `ForwardsHold` fail. `InverseMaps` and `LeaksAreExcused` assume the first,
`RunningDevices` the second, `ForwardsAreHeld` both; the requests of the run keep both rules.
`ForwardsHold` needs `OwnerInv`: a process with an instance is of the group that the lock file names, or its
daemon was taken from it.

`DeviceFiles`. `CacheAgrees` speaks of sessions with the cache, and is not inductive: a dump may be taken by
a session without it and loaded by one that has it. `CacheInv` therefore holds of either, `DumpInv` says the same of
the dump as long as the token says that it may be loaded. `PushedIsThere` follows the call: which files were listed
(`ListInv`), which checksums were found (`FoundInv`), which are already as on the host (`PushInv`), each but
for files that others, the late try included, change behind it (`RacedInv`). What it knows of the host (`HostInv`)
it knows but for the files that are edited on the way; `Excepted` is all three exceptions of `PushedIsThere`.

`DeviceApps`. `Shape` is what a call knows of itself: only an install has apks, what it is to install is a
part of its build, and all of it when the app goes first. `AppCacheAgrees` rests on `DumpAgrees`, the same of a
dump as long as the token says that it may be loaded, and on `LiveSees`, what the live call may still rely on: the
apks it saw (`Stored`, `Compared`), that the entries it dropped are not there while it changes the app
(`Changing`), the apks beside which it installs the rest (`Beside`), and what it did (`Granted`, `Removed`). `InstalledIsThere` is about a stale dump
too: its paths are verified before anything relies on them, so that once they are trusted either the app
is there or nobody knows its checksums (`DumpTrusted`). It is assumed that a build has apks, of distinct
names, and that there are finitely many: their number stands for the answer of `pm path`.

`DeviceProps`. `PropAnswersAgree` speaks of the time between calls; `ReadIsIt` says the same within them, but
where the live thread is about to drop what it has. What makes it inductive is that a thread which has just
read and not yet stored got the property as it is (`FreshIsIt`), and that while a reboot is awaited nothing that
was read is in the cache and no reboot is to come (`NoneAwaited`). `CallsOnCourse` and `DroppedIsEmpty` are what a
call is about where, and that what was dropped is not there.

`CloudStorage`. `LockInv` follows the pseudo lock down to inodes: the global lock is held by the process
that enters or has left (`GlobalHolder`), an inode just opened is the one at the path (`Opened`), a process within
the lock has the flock of that one (`Held`), and nobody is within while the file is about to be removed
(`Removing`). Exclusion follows, and with it `FileLockImplementsPathLock`: every step is one of `PathLock`
or a stutter under `inside <- Inside`. `StampInv` adds that from the stamp to the verified download the call owes
its fetch.

`Dependencies`. The table merges config after config, which is a recursive function again: `MergedEquation`
proves its equation, and `TableStands` that an entry stands for those of the configs: it is there if one of them
is, and its first existing path is that of the first config that has one. Both argue by a least counterexample.
`LocalPathsInOrder` follows, as the step that returns a local path reads the entry of the place that was looked
up. For `ReturnedIsWhole`, `SpotInv` says of each platform and version that is not `spoilt`: a call that got
the file has it until it opens or returns it (`FileInv`); a call that extracts has a
directory of which it fills what is left (`ExtractInv`); and a directory at which nobody extracts lacks the
dependency or is whole, and is whole for those that found the dependency there (`DirInv`), which is what the test
for one member of the archive relies on. Whatever would break that, a removal that stops half-way, a wrong download or an
extraction left unfinished, makes the version `spoilt`. It is assumed that `None` and the answer `"remote"` are no path, and that at least one platform is asked for.

`ConfigUpdate`. What a rollback restores depends on how far `Upload` had come with each of the pending uploads,
two of which may go to one version: `Progress` says that per upload, `Restorable` that a rollback from
here on would leave a version as it was at the start of the attempt (`before`), whatever that was: the first
upload of one that was not there is the one that deletes it, every other has a backup, of what was there. `Restores`
is that for every version that is not in doubt nor `Excused` (an upload done though its command failed, or two
that share a backup), and implies `RollbackRestores` once all are undone. It needs that two programs do not work at
a version without its being in doubt (`Exclusive`). `NamedIsStored` is not inductive: `NamedStays` adds what
configs in memory name but for what they have yet to upload and write, and that nobody's rollback would take it
away (`LeavesIt`), `doubt` and `unkept` excepted. It is assumed that no version is named like a backup.

Every module states its types (`TypeOK`, or with the component's prefix). The runs do not check them, as a
violation would not say anything about the code that the other properties do not; they are proved instead.

Model-checked only: liveness (`RunEnds`, `SessionEnds`, `StopEnds`, `AllocationEnds`, `CallsEnd`, `Drains`, and the
liveness part of `ImplementsRetriedCall`), as the proof system does not reason about fairness and `ENABLED`. The
bounds that the models themselves put on counters are proved as far as they are types; that the uploads
pending in `ConfigUpdate` are at most `MaxJobs` is a sum over programs, and left out.

## 6. Findings

What the code does and its documentation, or its reader, would not expect. The models behave in the same
way, and the properties name these cases as their exceptions. The first four contradict what a docstring
or a comment says.

* When the checksums of a directory cannot be had, the directory itself is pushed, and adb puts it
  below the one that is there (`device_utils.py:2018`); the docstring says that all files in it are pushed to the
  device as needed (1832).
* A `pm path` that fails without output is stored as "not installed" (`device_utils.py:816`,
  836), so that `Uninstall` leaves the app where it is (1340); its docstring says "Remove the app".
* After `SetProp(check=False)`, `GetProp(cache=True)` answers `''` (`device_utils.py:2951`), not "the value of the
  device's property" (2893).
* An interrupt between the writing of the config and the next line (`base_config.py:301`) rolls
  back the uploads that the config on disk already names; a comment (303) promises a rollback "in any instance of
  failure, even user interrupt".

The others:

* `pMap` starts its threads without a link to the thread that will wait for them, so their decorated
  calls run under timeouts of their own (`parallelizer.py:179`; `decorators.py:53` says "Don't wrap if
  there's already an outer timeout thread").
* A recorder that raised makes `Stop` raise before it copies the log, and again every time
  (`logcat_monitor.py:215`).
* A reset of the port counter, which takes no lock, makes an allocation return 0 with ports free
  (`ports.py:36`); so does a counter file left empty by a process that died (`ports.py:65`). An error after the
  port is found is logged and the port returned, with the counter where it was (`ports.py:60`), so that another
  process is given the same.
* An echo of the clock-sync marker that fails goes unnoticed (`atrace_agent.py:240`).
* A thread that ends just before its stack is dumped makes a `KeyError` of the timeout
  (`reraiser_thread.py:31`).
* Auto-clicking stopped and started again within an interval clicks twice as often
  (`AutoClickAccessibilityService.java:65`).
* Two devices forwarded to one host port: unmapping the second raises `KeyError` and leaves the forward
  (`forwarder.py:323`).
* Pushing an empty directory without `delete_device_stale` raises, as `current_device_nodes` is not set
  (`device_utils.py:1975`).
* The thread of a `GetProp` that was given up stores what it read when it comes to it
  (`device_utils.py:2915`), also after a `SetProp` or a `Reboot`.
* A session without the files cache that loads a dump, pushes and dumps again leaves old checksums under a
  valid token (`device_utils.py:3525`).
* When md5sum prints no line for one file, the sums of those after it go to the wrong paths (`md5sum.py:131`).
* A host file edited between its checksum (`device_utils.py:1989`) and its push leaves the old checksum in the
  cache for the new content (2041).
* The thread of an install that was given up stores the paths it found when it comes to it
  (`device_utils.py:836`), also when the app has been removed since; as only paths of a dump are verified, and once,
  the session then believes that it is there. `InstalledIsThere` has the exception since its proof asked for
  it: the two events of the run are too few to show it.
* A loaded package is taken off the list of those to verify before `pm path` answered
  (`device_utils.py:803`).
* `GetIfChanged` writes the time of the fetch before it: after a download that failed the old binary is up
  to date (`cloud_storage.py:519`).
* Of processes that unzip at a time one may return what another is removing (`archive_info.py:51`); and
  the file whose existence stands for the whole archive may be there without the rest. So may it after an `rmtree`,
  which ignores errors, that stopped half-way (`archive_info.py:51`), or a ditto that failed
  (`dependency_manager_util.py:98`).
* What `GetIfHashChanged` downloads is not compared with the hash it was asked for (`cloud_storage.py:472`).
* Two forced uploads of one attempt to one name share one backup, and the second overwrites the original's
  (`uploader.py:60`). A file changed between its hash (`base_config.py:254`) and its upload (`uploader.py:70`) is
  stored under the hash of what it was.
* The `break` in `PrefetchPaths` makes `cloud_storage_retries` ineffective (`manager.py:184`).
* `ExecuteUpdateJobs` of a dirty config without pending uploads does not write it and returns True
  (`base_config.py:294`); the docstring says "Write all config changes to the config_path".
* An uploader that was rolled back keeps `_backed_up` and has `None` for a backup name (`uploader.py:95`).

Also: a timeout of 0 disables the watchdog
(`watchdog_timer.py:34`); a group's link is lost after 60 s (`reraiser_thread.py:173`, harmless, see
above); the decorated calls of a thread that was given up run under no timeout (`timeout_retry.py:64`);
an agent whose start timed out may start later and is left tracing (`py_utils/__init__.py:104`), and
one that raises aborts the session although the controller agent had started
(`tracing_controller.py:155`); missing trace data go unnoticed with `--json` (`atrace_agent.py:297`);
`WaitFor` accepts a recorder that has ended (`logcat_monitor.py:101`); an abandoned recorder writes
beside its successor (`logcat_monitor.py:214`).

## 7. Plan

Done: the modules above, in that order: every device command and every tracing session rests on
`timeout_retry`, what is remembered of a device on the caches, and the binaries on the fetching.

Next models:

1. `Denylist`: processes extending and resetting the denylist file without a lock between them.
2. `WaitFor` of `timeout_retry` and `py_utils`, within a timeout group: it never sleeps past the timeout.
3. `FlagChanger`: a stack of flag states, restored after failures; `TraceLog`: the trace log of
   `py_trace_event` shared by forked processes.
4. `Parallelizer` as a component that composes with `ThreadGroups`.

Next proofs: with the models above. Of the present ones every safety property of a run is proved; their
liveness is left to TLC (section 5).

Not modelled, with the reason, is listed in `PROJECT.json` under `components`.
