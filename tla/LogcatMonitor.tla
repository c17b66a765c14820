----------------------------- MODULE LogcatMonitor -----------------------------
(* devil.android.logcat_monitor: a client starts, stops and closes a monitor;   *)
(* each recording thread copies the lines of one `adb logcat` process to the    *)
(* record file, under a lock, until it sees the stop event.  Stopping waits for *)
(* the thread only five seconds.                                                *)
EXTENDS Naturals, FiniteSets

CONSTANTS
    MaxThreads,     \* bound on the recording threads started
    MaxLines        \* bound on the lines the device logs

ASSUME BoundsAssumption == MaxThreads \in Nat /\ MaxLines \in Nat

Threads == 1..MaxThreads
Lines   == 1..MaxLines
None    == 0                \* no thread, no file, no holder of the lock
Client  == MaxThreads + 1   \* as holder of _record_file_lock

VARIABLES
    client,         \* what the client is doing
    logged,         \* lines logged by the device so far
    oldest,         \* first line still in the device's log buffer
    ref,            \* _record_thread
    started,        \* recording threads started so far
    state,          \* per thread
    next,           \* per thread: the line its logcat process delivers next
    data,           \* per thread: the line it holds, or None
    stopEvent,      \* _stop_recording_event
    holder,         \* holder of _record_file_lock
    file,           \* _record_file is open
    recorded,       \* lines in the record file
    output,         \* lines in the output file
    abandoned,      \* threads whose join timed out (history)
    stopped         \* how the last Stop ended, with nothing done since (history)

vars == <<client, logged, oldest, ref, started, state, next, data, stopEvent,
          holder, file, recorded, output, abandoned, stopped>>

recorder == <<state, next, data>>

TypeOK ==
    /\ client \in {"idle", "joining", "joined", "copying", "copied"}
    /\ logged \in 0..MaxLines
    /\ oldest \in 1..(MaxLines + 1)
    /\ ref \in Threads \cup {None}
    /\ started \in 0..MaxThreads
    /\ state \in [Threads -> {"new", "reading", "yielded", "writing", "returned", "raised"}]
    /\ next \in [Threads -> 1..(MaxLines + 1)]
    /\ data \in [Threads -> Lines \cup {None}]
    /\ stopEvent \in BOOLEAN
    /\ holder \in Threads \cup {None, Client}
    /\ file \in BOOLEAN
    /\ recorded \subseteq Lines
    /\ output \subseteq Lines
    /\ abandoned \subseteq Threads
    /\ stopped \in {"no", "returned", "raised"}

Init ==
    /\ client = "idle"
    /\ logged = 0
    /\ oldest = 1
    /\ ref = None
    /\ started = 0
    /\ state = [t \in Threads |-> "new"]
    /\ next = [t \in Threads |-> 1]
    /\ data = [t \in Threads |-> None]
    /\ stopEvent = FALSE
    /\ holder = None
    /\ file = FALSE
    /\ recorded = {}
    /\ output = {}
    /\ abandoned = {}
    /\ stopped = "no"

Alive(t) == state[t] \in {"reading", "yielded", "writing"}

--------------------------------------------------------------------------------
(* The client.                                                                  *)

(* Start, with clear or not.  _StartRecording takes any thread object it still  *)
(* refers to for a recording one. *)
Start(clear) ==
    /\ client = "idle"
    /\ ref = None => started < MaxThreads
    /\ oldest' = IF clear THEN logged + 1 ELSE oldest
    /\ file' = TRUE
    /\ recorded' = IF file THEN recorded ELSE {}
    /\ stopEvent' = FALSE
    /\ IF ref = None
       THEN /\ ref' = started + 1
            /\ started' = started + 1
            /\ state' = [state EXCEPT ![started + 1] = "reading"]
            /\ next' = [next EXCEPT ![started + 1] = oldest']
       ELSE UNCHANGED <<ref, started, state, next>>
    /\ stopped' = "no"
    /\ UNCHANGED <<client, logged, data, holder, output, abandoned>>

Stop ==
    /\ client = "idle"
    /\ IF ref # None
       THEN stopEvent' = TRUE /\ client' = "joining"
       ELSE client' = "copying" /\ UNCHANGED stopEvent
    /\ stopped' = "no"
    /\ UNCHANGED <<logged, oldest, ref, started, recorder, holder, file,
                   recorded, output, abandoned>>

(* Mutants of Join: none at all; one without a timeout. *)
NoJoin ==
    /\ client = "joining"
    /\ client' = "joined"
    /\ UNCHANGED <<logged, oldest, ref, started, recorder, stopEvent, holder, file,
                   recorded, output, abandoned, stopped>>

JoinForever ==
    /\ client = "joining"
    /\ ~Alive(ref)
    /\ client' = "joined"
    /\ UNCHANGED <<logged, oldest, ref, started, recorder, stopEvent, holder, file,
                   recorded, output, abandoned, stopped>>

(* join(timeout=5.0): the thread is over, or five seconds are. *)
Join ==
    /\ client = "joining"
    /\ client' = "joined"
    /\ abandoned' = IF Alive(ref) THEN abandoned \cup {ref} ELSE abandoned
    /\ UNCHANGED <<logged, oldest, ref, started, recorder, stopEvent, holder, file,
                   recorded, output, stopped>>

(* ReraiseIfException comes before the reference is dropped. *)
StopRecordingEnds ==
    /\ client = "joined"
    /\ IF state[ref] = "raised"
       THEN client' = "idle" /\ stopped' = "raised" /\ UNCHANGED ref
       ELSE client' = "copying" /\ ref' = None /\ UNCHANGED stopped
    /\ UNCHANGED <<logged, oldest, started, recorder, stopEvent, holder, file,
                   recorded, output, abandoned>>

(* Under the lock: the copy begins, and ends. *)
CopyBegins ==
    /\ client = "copying"
    /\ holder = None
    /\ holder' = Client
    /\ client' = "copied"
    /\ output' = IF file THEN recorded ELSE output
    /\ UNCHANGED <<logged, oldest, ref, started, recorder, stopEvent, file,
                   recorded, abandoned, stopped>>

CopyEnds ==
    /\ client = "copied"
    /\ holder' = None
    /\ stopped' = "returned"
    /\ client' = "idle"
    /\ UNCHANGED <<logged, oldest, ref, started, recorder, stopEvent, file, recorded,
                   output, abandoned>>

Close ==
    /\ client = "idle"
    /\ holder = None
    /\ file' = FALSE
    /\ stopped' = "no"
    /\ UNCHANGED <<client, logged, oldest, ref, started, recorder, stopEvent, holder,
                   recorded, output, abandoned>>

ClientStep ==
    \/ \E clear \in BOOLEAN: Start(clear)
    \/ Stop \/ Join \/ StopRecordingEnds \/ CopyBegins \/ CopyEnds \/ Close

--------------------------------------------------------------------------------
(* record_to_file, on thread t.                                                 *)

(* The logcat process delivers a line, or None after iter_timeout. *)
Yield(t) ==
    /\ state[t] = "reading"
    /\ state' = [state EXCEPT ![t] = "yielded"]
    /\ \/ /\ next[t] <= logged
          /\ data' = [data EXCEPT ![t] = next[t]]
          /\ next' = [next EXCEPT ![t] = next[t] + 1]
       \/ UNCHANGED <<data, next>>
    /\ UNCHANGED <<client, logged, oldest, ref, started, stopEvent, holder, file,
                   recorded, output, abandoned, stopped>>

(* The logcat process fails (check_error), or the device is gone. *)
LogcatFails(t) ==
    /\ state[t] = "reading"
    /\ state' = [state EXCEPT ![t] = "raised"]
    /\ UNCHANGED <<client, logged, oldest, ref, started, next, data, stopEvent, holder,
                   file, recorded, output, abandoned, stopped>>

(* Return on the stop event, skip a None, or take the lock for a line. *)
TestStop(t) ==
    /\ state[t] = "yielded"
    /\ state' = [state EXCEPT ![t] =
            IF stopEvent THEN "returned" ELSE IF data[t] = None THEN "reading" ELSE "writing"]
    /\ UNCHANGED <<client, logged, oldest, ref, started, next, data, stopEvent, holder, file,
                   recorded, output, abandoned, stopped>>

(* Mutant of Lock: the file is written without it. *)
NoLock(t) ==
    /\ state[t] = "writing"
    /\ holder # t
    /\ holder' = t
    /\ UNCHANGED <<client, logged, oldest, ref, started, recorder, stopEvent, file,
                   recorded, output, abandoned, stopped>>

Lock(t) ==
    /\ state[t] = "writing"
    /\ holder = None
    /\ holder' = t
    /\ UNCHANGED <<client, logged, oldest, ref, started, recorder, stopEvent, file,
                   recorded, output, abandoned, stopped>>

Write(t) ==
    /\ state[t] = "writing"
    /\ holder = t
    /\ holder' = None
    /\ recorded' = IF file THEN recorded \cup {data[t]} ELSE recorded
    /\ state' = [state EXCEPT ![t] = "reading"]
    /\ data' = [data EXCEPT ![t] = None]
    /\ UNCHANGED <<client, logged, oldest, ref, started, next, stopEvent, file,
                   output, abandoned, stopped>>

Recorder(t) == Yield(t) \/ TestStop(t) \/ Lock(t) \/ Write(t)

DeviceLogs ==
    /\ logged < MaxLines
    /\ logged' = logged + 1
    /\ UNCHANGED <<client, oldest, ref, started, recorder, stopEvent, holder, file,
                   recorded, output, abandoned, stopped>>

Next ==
    \/ ClientStep
    \/ DeviceLogs
    \/ \E t \in Threads: Recorder(t) \/ LogcatFails(t)

(* The client and the recorders run; a logcat process may deliver nothing. *)
Spec ==
    /\ Init /\ [][Next]_vars
    /\ WF_vars(Join \/ StopRecordingEnds \/ CopyBegins \/ CopyEnds)
    /\ \A t \in Threads: WF_vars(TestStop(t) \/ Lock(t) \/ Write(t))

--------------------------------------------------------------------------------
(* No line is written while the record file is copied.                          *)
CopyIsConsistent == client = "copied" /\ file => output = recorded

(* Once Stop has returned, the output file holds all that was and will be       *)
(* recorded, unless a recorder outlived its Stop.                               *)
StopIsComplete ==
    stopped = "returned" /\ file /\ abandoned = {} =>
        output = recorded /\ \A t \in Threads: ~Alive(t)

(* Stop ends, whatever its recorder is stuck in.                                *)
StopEnds == client = "joining" ~> client = "idle"
================================================================================
