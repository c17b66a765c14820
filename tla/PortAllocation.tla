----------------------------- MODULE PortAllocation -----------------------------
(* devil.android.ports: processes on one host take test server ports from a     *)
(* counter kept in a file.  Allocation holds a lock on another file;            *)
(* ResetTestServerPortAllocation truncates and rewrites the counter without it. *)
(* An allocation that meets an error logs it and returns the port it has got to, *)
(* 0 before it read the counter.                                                *)
EXTENDS Integers, FiniteSets

CONSTANTS
    Procs,          \* processes sharing the host
    First, Last,    \* _TEST_SERVER_PORT_FIRST, _TEST_SERVER_PORT_LAST
    MaxOps          \* bound on the allocations and resets a process begins

ASSUME PortsAssumption == First \in Nat \ {0} /\ Last \in Nat /\ First <= Last
ASSUME MaxOpsAssumption == MaxOps \in Nat

Absent == 0                 \* no counter file
Empty  == -1                \* a counter file truncated and not written yet
Nobody == "nobody"

ASSUME ProcsAssumption == Nobody \notin Procs

VARIABLES
    file,           \* the counter file
    lock,           \* holder of the lock file
    stage,          \* per process: what it is doing
    port,           \* per process: the local `port` of AllocateTestServerPort
    tried,          \* per process: the ports of `ports_tried` found in use
    bound,          \* per process: ports its servers are bound to
    given,          \* per process: the last result of AllocateTestServerPort not
                    \* yet bound, or None (history)
    logged,         \* per process: that result came with an exception (history)
    busy,           \* ports bound by programs of no concern
    ops,            \* operations begun per process
    reset,          \* ResetTestServerPortAllocation was ever called (history)
    unrecorded      \* ports returned with the counter not moved past them (history)

portsVars == <<file, lock, stage, port, tried, bound, given, logged, busy, ops, reset, unrecorded>>

None    == -1
Ports   == First..Last
Counter == First..(Last + 1)
InLock  == {"locked", "creating", "opened", "probing", "chosen"}

PortsTypeOK ==
    /\ file \in {Absent, Empty} \cup Counter
    /\ lock \in Procs \cup {Nobody}
    /\ stage \in [Procs -> InLock \cup {"idle", "resetting"}]
    /\ port \in [Procs -> {0} \cup Counter]
    /\ tried \in [Procs -> SUBSET Ports]
    /\ bound \in [Procs -> SUBSET Ports]
    /\ given \in [Procs -> {None, 0} \cup Counter]
    /\ logged \in [Procs -> BOOLEAN]
    /\ busy \subseteq Ports
    /\ ops \in [Procs -> 0..MaxOps]
    /\ reset \in BOOLEAN
    /\ unrecorded \subseteq Counter

(* The file may be left by an earlier run, with any counter, or empty. *)
PortsInit ==
    /\ file \in {Absent, Empty} \cup Counter
    /\ lock = Nobody
    /\ stage = [p \in Procs |-> "idle"]
    /\ port = [p \in Procs |-> 0]
    /\ tried = [p \in Procs |-> {}]
    /\ bound = [p \in Procs |-> {}]
    /\ given = [p \in Procs |-> None]
    /\ logged = [p \in Procs |-> FALSE]
    /\ busy \in SUBSET Ports
    /\ ops = [p \in Procs |-> 0]
    /\ reset = FALSE
    /\ unrecorded = {}

(* socket.bind succeeds on a port nobody is bound to. *)
IsHostPortAvailable(n) == n \notin busy \cup UNION {bound[p]: p \in Procs}

--------------------------------------------------------------------------------
(* AllocateTestServerPort                                                       *)

(* Mutant of Lock: no flock. *)
NoLock(p) ==
    /\ stage[p] = "idle" /\ given[p] = None
    /\ ops[p] < MaxOps
    /\ lock' = p
    /\ stage' = [stage EXCEPT ![p] = "locked"]
    /\ ops' = [ops EXCEPT ![p] = @ + 1]
    /\ UNCHANGED <<file, port, tried, bound, given, logged, busy, reset, unrecorded>>

Lock(p) ==
    /\ stage[p] = "idle" /\ given[p] = None
    /\ ops[p] < MaxOps
    /\ lock = Nobody
    /\ lock' = p
    /\ stage' = [stage EXCEPT ![p] = "locked"]
    /\ ops' = [ops EXCEPT ![p] = @ + 1]
    /\ UNCHANGED <<file, port, tried, bound, given, logged, busy, reset, unrecorded>>

(* Without a counter file, the allocating process itself resets it. *)
Open(p) ==
    /\ stage[p] = "locked"
    /\ IF file = Absent
       THEN file' = Empty /\ stage' = [stage EXCEPT ![p] = "creating"]
       ELSE stage' = [stage EXCEPT ![p] = "opened"] /\ UNCHANGED file
    /\ UNCHANGED <<lock, port, tried, bound, given, logged, busy, ops, reset, unrecorded>>

(* A reset that cannot write returns False, which is not looked at. *)
Create(p) ==
    /\ stage[p] = "creating"
    /\ file' \in {First, file}
    /\ stage' = [stage EXCEPT ![p] = "opened"]
    /\ UNCHANGED <<lock, port, tried, bound, given, logged, busy, ops, reset, unrecorded>>

(* Unlock and return n, after an exception or without; the locals are gone. *)
Unlock(p, n, exception) ==
    /\ lock' = Nobody
    /\ stage' = [stage EXCEPT ![p] = "idle"]
    /\ port' = [port EXCEPT ![p] = 0]
    /\ tried' = [tried EXCEPT ![p] = {}]
    /\ given' = [given EXCEPT ![p] = n]
    /\ logged' = [logged EXCEPT ![p] = exception]

(* The file cannot be opened or read. *)
OpenFails(p) ==
    /\ stage[p] \in {"locked", "opened"}
    /\ Unlock(p, 0, TRUE)
    /\ UNCHANGED <<file, bound, busy, ops, reset, unrecorded>>

(* int(fp.read()): an empty file is no number. *)
Read(p) ==
    /\ stage[p] = "opened"
    /\ IF file = Empty
       THEN Unlock(p, 0, TRUE)
       ELSE /\ port' = [port EXCEPT ![p] = file]
            /\ stage' = [stage EXCEPT ![p] = "probing"]
            /\ UNCHANGED <<lock, tried, given, logged>>
    /\ UNCHANGED <<file, bound, busy, ops, reset, unrecorded>>

(* The while loop, one probe at a time.  Ports past Last stand for one, not busy. *)
Probe(p) ==
    /\ stage[p] = "probing"
    /\ IF IsHostPortAvailable(port[p])
       THEN stage' = [stage EXCEPT ![p] = "chosen"] /\ UNCHANGED <<port, tried>>
       ELSE /\ port' = [port EXCEPT ![p] = @ + 1]
            /\ tried' = [tried EXCEPT ![p] = @ \cup {port[p]}]
            /\ UNCHANGED stage
    /\ UNCHANGED <<file, lock, bound, given, logged, busy, ops, reset, unrecorded>>

(* Mutants of AdvanceCounter: the port itself written back; the last port taken  *)
(* for one past the range; no unlock on that path.                              *)
CounterNotAdvanced(p) ==
    /\ stage[p] = "chosen"
    /\ IF port[p] > Last
       THEN Unlock(p, 0, FALSE) /\ UNCHANGED file
       ELSE Unlock(p, port[p], FALSE) /\ file' = port[p]
    /\ UNCHANGED <<bound, busy, ops, reset, unrecorded>>

LastTakenForPastLast(p) ==
    /\ stage[p] = "chosen"
    /\ IF port[p] >= Last
       THEN Unlock(p, 0, FALSE) /\ UNCHANGED file
       ELSE Unlock(p, port[p], FALSE) /\ file' = port[p] + 1
    /\ UNCHANGED <<bound, busy, ops, reset, unrecorded>>

UnlockForgotten(p) ==
    /\ stage[p] = "chosen"
    /\ IF port[p] > Last
       THEN /\ stage' = [stage EXCEPT ![p] = "idle"]
            /\ given' = [given EXCEPT ![p] = 0]
            /\ UNCHANGED <<lock, file, port, tried, logged>>
       ELSE Unlock(p, port[p], FALSE) /\ file' = port[p] + 1
    /\ UNCHANGED <<bound, busy, ops, reset, unrecorded>>

AdvanceCounter(p) ==
    /\ stage[p] = "chosen"
    /\ IF port[p] > Last
       THEN Unlock(p, 0, FALSE) /\ UNCHANGED file
       ELSE Unlock(p, port[p], FALSE) /\ file' = port[p] + 1
    /\ UNCHANGED <<bound, busy, ops, reset, unrecorded>>

(* No socket to probe with, or a write or flush that fails: the port is returned *)
(* all the same, though it may be in use, and the counter stays where it is.    *)
ProbeOrWriteFails(p) ==
    /\ stage[p] = "probing" \/ (stage[p] = "chosen" /\ port[p] <= Last)
    /\ Unlock(p, port[p], TRUE)
    /\ unrecorded' = unrecorded \cup {port[p]}
    /\ UNCHANGED <<file, bound, busy, ops, reset>>

--------------------------------------------------------------------------------
(* ResetTestServerPortAllocation: open for writing truncates; no lock.          *)

Truncate(p) ==
    /\ stage[p] = "idle"
    /\ ops[p] < MaxOps
    /\ file' = Empty
    /\ stage' = [stage EXCEPT ![p] = "resetting"]
    /\ reset' = TRUE
    /\ ops' = [ops EXCEPT ![p] = @ + 1]
    /\ UNCHANGED <<lock, port, tried, bound, given, logged, busy, unrecorded>>

(* A write that fails leaves the file as it is. *)
WriteFirst(p) ==
    /\ stage[p] = "resetting"
    /\ file' \in {First, file}
    /\ stage' = [stage EXCEPT ![p] = "idle"]
    /\ UNCHANGED <<lock, port, tried, bound, given, logged, busy, ops, reset, unrecorded>>

--------------------------------------------------------------------------------
(* Around it: the callers start a server on the port they got, or give up, and   *)
(* stop it; other programs bind and release ports; processes die.               *)

Bind(p) ==
    /\ stage[p] = "idle" /\ given[p] \in Ports
    /\ bound' = IF IsHostPortAvailable(given[p])
                THEN [bound EXCEPT ![p] = @ \cup {given[p]}]
                ELSE bound
    /\ given' = [given EXCEPT ![p] = None]
    /\ logged' = [logged EXCEPT ![p] = FALSE]
    /\ UNCHANGED <<file, lock, stage, port, tried, busy, ops, reset, unrecorded>>

GiveUp(p) ==
    /\ stage[p] = "idle" /\ given[p] \in {0, Last + 1}
    /\ given' = [given EXCEPT ![p] = None]
    /\ logged' = [logged EXCEPT ![p] = FALSE]
    /\ UNCHANGED <<file, lock, stage, port, tried, bound, busy, ops, reset, unrecorded>>

StopServer(p, n) ==
    /\ n \in bound[p]
    /\ bound' = [bound EXCEPT ![p] = @ \ {n}]
    /\ UNCHANGED <<file, lock, stage, port, tried, given, logged, busy, ops, reset, unrecorded>>

OtherProgram(n) ==
    /\ \A p \in Procs: n \notin bound[p]
    /\ busy' = IF n \in busy THEN busy \ {n} ELSE busy \cup {n}
    /\ UNCHANGED <<file, lock, stage, port, tried, bound, given, logged, ops, reset, unrecorded>>

(* The kernel drops the lock and the sockets; what was written to the file stays. *)
Die(p) ==
    /\ lock' = IF lock = p THEN Nobody ELSE lock
    /\ stage' = [stage EXCEPT ![p] = "idle"]
    /\ port' = [port EXCEPT ![p] = 0]
    /\ tried' = [tried EXCEPT ![p] = {}]
    /\ bound' = [bound EXCEPT ![p] = {}]
    /\ given' = [given EXCEPT ![p] = None]
    /\ logged' = [logged EXCEPT ![p] = FALSE]
    /\ UNCHANGED <<file, busy, ops, reset, unrecorded>>

Locked(p) ==
    \/ Open(p) \/ Create(p) \/ Read(p) \/ Probe(p) \/ AdvanceCounter(p)
    \/ OpenFails(p) \/ ProbeOrWriteFails(p)

PortsNext ==
    \/ \E p \in Procs:
        \/ Lock(p) \/ Locked(p)
        \/ Truncate(p) \/ WriteFirst(p)
        \/ Bind(p) \/ GiveUp(p) \/ Die(p)
        \/ \E n \in Ports: StopServer(p, n)
    \/ \E n \in Ports: OtherProgram(n)

(* A process that holds the lock runs. *)
PortsSpec == PortsInit /\ [][PortsNext]_portsVars /\ \A p \in Procs: WF_portsVars(Locked(p))

--------------------------------------------------------------------------------
(* "A mechanism to allocate the port process-safe": until somebody resets the   *)
(* counter, a port handed to a process and not yet bound is handed to no other, *)
(* and no process of these is bound to it; but for a port that an allocation    *)
(* once returned after an error.                                                *)
GivenPortsDistinct ==
    ~reset =>
        \A p \in Procs:
            given[p] \in Ports \ unrecorded =>
                \A q \in Procs: given[p] \notin bound[q] /\ (q # p => given[q] # given[p])

(* Until then the counter is past every port given out and still in use, so no  *)
(* allocation can come back to it; but for those returned after an error.       *)
CounterPastGiven ==
    ~reset =>
        \A p \in Procs:
            /\ given[p] \in Ports \ unrecorded => file > given[p]
            /\ \A n \in bound[p] \ unrecorded: file > n

(* "Returning 0 means no more valid port can be used": an allocation that gives *)
(* up without logging an exception has found every port from the counter on in  *)
(* use, unless the counter was reset.                                           *)
ZeroMeansExhausted ==
    [][\A p \in Procs: given[p] = None /\ given'[p] = 0 =>
          logged'[p] \/ reset \/ (file \in Counter /\ Ports \cap (file..Last) \subseteq tried[p])]_portsVars

(* An allocation that began ends, and leaves the lock to others.                *)
AllocationEnds == \A p \in Procs: lock = p ~> lock # p
================================================================================
