------------------------------- MODULE Forwarder -------------------------------
(* devil.android.forwarder: processes of one host forward device ports to host  *)
(* ports through one host_forwarder daemon and a device_forwarder per device.   *)
(* Every public method runs under a lock on a file; each process keeps maps of  *)
(* its own, and the lock file names the process group that owns the daemon.     *)
(*                                                                              *)
(* The daemons are external: host is what host_forwarder was told to forward.   *)
(* Any command may fail, or time out with or without having been carried out.   *)
EXTENDS Naturals, FiniteSets

CONSTANTS
    Procs, Devices, DevicePorts, HostPorts,
    Groups,         \* process groups that may exist at a time
    Requests        \* <<process, method, key, host port>>: the calls they may make

Nobody  == "nobody"
Nothing == 0                \* no host port
Keys    == Devices \X DevicePorts       \* (device_serial, device_port)
NoKey   == <<"none", 0>>
Ops     == {"Map", "UnmapDevicePort", "UnmapAllDevicePorts", "KillHost", "KillDevice"}

ASSUME PortsAssumption == Nothing \notin HostPorts /\ NoKey \notin Keys
ASSUME NamesAssumption == Nobody \notin Procs \cup Groups
ASSUME RequestsAssumption == Requests \subseteq Procs \X Ops \X Keys \X HostPorts

VARIABLES
    group,          \* os.getpgrp() of each process, or Nobody before its first call
    lock,           \* holder of the flock on _LOCK_PATH
    pc,             \* per process: where it is inside a method
    call,           \* per process: the method, and the key and host port it is about
    instance,       \* per process: Forwarder._instance exists
    initialized,    \* per process: _initialized_devices
    d2h, h2d,       \* per process: _device_to_host_port_map, _host_to_device_port_map
    pidfile,        \* running group that the lock file names, or Nobody
    host,           \* forwards of the host_forwarder daemon: key -> host port
    devfwd,         \* devices with a device_forwarder running
    excused,        \* keys that a failed command, a KillHost or the end of their process
                    \* was about since they were last mapped or unmapped (history)
    displaced       \* processes whose group lost the daemon to another (history)

maps   == <<d2h, h2d>>
owners == <<group, pidfile, displaced>>
vars   == <<lock, pc, call, instance, initialized, maps, owners, host, devfwd, excused>>

NoCall == [op |-> "none", key |-> NoKey, port |-> Nothing]
NoMap  == [k \in Keys |-> Nothing]
NoHost == [h \in HostPorts |-> NoKey]

TypeOK ==
    /\ group \in [Procs -> Groups \cup {Nobody}]
    /\ lock \in Procs \cup {Nobody}
    /\ pc \in [Procs -> {"idle", "locked", "killing", "writing", "ready", "mapping", "recording",
                         "unmapping", "cleaning", "killing device"}]
    /\ call \in [Procs -> [op: Ops, key: Keys, port: HostPorts] \cup {NoCall}]
    /\ instance \in [Procs -> BOOLEAN]
    /\ initialized \in [Procs -> SUBSET Devices]
    /\ d2h \in [Procs -> [Keys -> HostPorts \cup {Nothing}]]
    /\ h2d \in [Procs -> [HostPorts -> Keys \cup {NoKey}]]
    /\ pidfile \in Groups \cup {Nobody}
    /\ host \in [Keys -> HostPorts \cup {Nothing}]
    /\ devfwd \subseteq Devices
    /\ excused \subseteq Keys
    /\ displaced \subseteq Procs

(* Daemons may be left over from an earlier run. *)
Init ==
    /\ group = [p \in Procs |-> Nobody]
    /\ lock = Nobody
    /\ pc = [p \in Procs |-> "idle"]
    /\ call = [p \in Procs |-> NoCall]
    /\ instance = [p \in Procs |-> FALSE]
    /\ initialized = [p \in Procs |-> {}]
    /\ d2h = [p \in Procs |-> NoMap]
    /\ h2d = [p \in Procs |-> NoHost]
    /\ pidfile = Nobody
    /\ host = NoMap
    /\ devfwd \in SUBSET Devices
    /\ excused = {}
    /\ displaced = {}

Device(p) == call[p].key[1]
At(p, place) == lock = p /\ pc[p] = place
Goto(p, place) == pc' = [pc EXCEPT ![p] = place] /\ UNCHANGED <<lock, call>>

(* Mutant of Leave: __exit__ forgets to unlock. *)
LeaveHoldsLock(p) ==
    /\ pc' = [pc EXCEPT ![p] = "idle"]
    /\ call' = [call EXCEPT ![p] = NoCall]
    /\ UNCHANGED lock

(* __exit__ of the lock: the method returns or raises. *)
Leave(p) ==
    /\ lock' = Nobody
    /\ pc' = [pc EXCEPT ![p] = "idle"]
    /\ call' = [call EXCEPT ![p] = NoCall]

--------------------------------------------------------------------------------
Call(p) ==
    /\ pc[p] = "idle"
    /\ lock = Nobody
    /\ lock' = p
    /\ \E r \in Requests:
        /\ r[1] = p
        /\ call' = [call EXCEPT ![p] = [op |-> r[2], key |-> r[3], port |-> r[4]]]
    /\ pc' = [pc EXCEPT ![p] = "locked"]
    /\ IF group[p] = Nobody
       THEN \E g \in Groups: group' = [group EXCEPT ![p] = g]
       ELSE UNCHANGED group
    /\ UNCHANGED <<instance, initialized, maps, pidfile, displaced, host, devfwd, excused>>

(* Mutant of GetInstance: the lock file is not read, a new process starts over. *)
GetInstanceAnew(p) ==
    /\ At(p, "locked")
    /\ IF instance[p] THEN Goto(p, "ready") ELSE Goto(p, "killing")
    /\ UNCHANGED <<instance, initialized, maps, owners, host, devfwd, excused>>

(* _GetInstanceLocked, and the test of _InitHostLocked; the constructor raises  *)
(* when there is no host_forwarder to run. *)
GetInstance(p) ==
    /\ At(p, "locked")
    /\ \/ /\ instance[p] \/ pidfile = group[p]
          /\ Goto(p, "ready")
          /\ instance' = [instance EXCEPT ![p] = TRUE]
       \/ /\ ~instance[p] /\ pidfile # group[p]
          /\ Goto(p, "killing")
          /\ UNCHANGED instance
       \/ /\ ~instance[p]
          /\ Leave(p)
          /\ UNCHANGED instance
    /\ UNCHANGED <<initialized, maps, owners, host, devfwd, excused>>

(* _KillHostLocked: the daemon forgets everything. *)
KillHostLocked == host' = NoMap

MappedBy(procs) == {k \in Keys: \E p \in procs: d2h[p][k] # Nothing}

InitHostLocked(p) ==
    /\ At(p, "killing")
    /\ \/ /\ KillHostLocked
          /\ displaced' = displaced \cup {q \in Procs: instance[q] /\ group[q] # group[p]}
          /\ Goto(p, "writing") \/ Leave(p)
       \/ Leave(p) /\ UNCHANGED <<host, displaced>>
    /\ UNCHANGED <<group, instance, initialized, maps, pidfile, devfwd, excused>>

WritePid(p) ==
    /\ At(p, "writing")
    /\ pidfile' = group[p]
    /\ instance' = [instance EXCEPT ![p] = TRUE]
    /\ Goto(p, "ready")
    /\ UNCHANGED <<group, displaced, initialized, maps, host, devfwd, excused>>

KillHost(p) ==
    /\ At(p, "ready") /\ call[p].op = "KillHost"
    /\ \/ KillHostLocked /\ excused' = excused \cup MappedBy(Procs)
       \/ UNCHANGED <<host, excused>>
    /\ Leave(p)
    /\ UNCHANGED <<instance, initialized, maps, owners, devfwd>>

(* Mutant of KillDeviceLocked: no `discard`. *)
KillDeviceRemembered(p) ==
    /\ devfwd' \in {devfwd, devfwd \ {Device(p)}}
    /\ UNCHANGED initialized

(* _KillDeviceLocked: the device counts as uninitialized whether or not its     *)
(* forwarder is really gone. *)
KillDeviceLocked(p) ==
    /\ initialized' = [initialized EXCEPT ![p] = @ \ {Device(p)}]
    /\ devfwd' \in {devfwd, devfwd \ {Device(p)}}

KillDevice(p) ==
    /\ \/ At(p, "ready") /\ call[p].op = "KillDevice"
       \/ At(p, "killing device")
    /\ KillDeviceLocked(p)
    /\ Leave(p)
    /\ UNCHANGED <<instance, maps, owners, host, excused>>

--------------------------------------------------------------------------------
(* Map                                                                          *)

(* _InitDeviceLocked kills the forwarder of a device it has not initialized,    *)
(* and starts it again. *)
InitDeviceLocked(p) ==
    /\ At(p, "ready") /\ call[p].op = "Map"
    /\ \/ /\ Device(p) \in initialized[p]
          /\ Goto(p, "mapping")
          /\ UNCHANGED <<initialized, devfwd>>
       \/ /\ Device(p) \notin initialized[p]
          /\ devfwd' = devfwd \cup {Device(p)}
          /\ initialized' = [initialized EXCEPT ![p] = @ \cup {Device(p)}]
          /\ Goto(p, "mapping")
       \/ /\ Device(p) \notin initialized[p]
          /\ devfwd' \in {devfwd \ {Device(p)}, devfwd \cup {Device(p)}}
          /\ Leave(p)
          /\ UNCHANGED initialized
    /\ UNCHANGED <<instance, maps, owners, host, excused>>

Forward(p) == host' = [host EXCEPT ![call[p].key] = call[p].port]

(* The --map command: done; timed out, carried out or not; or refused, which    *)
(* costs the device its forwarder. *)
MapCommand(p) ==
    /\ At(p, "mapping")
    /\ \/ /\ Forward(p)
          /\ excused' = excused \ {call[p].key}
          /\ Goto(p, "recording")
          /\ UNCHANGED <<initialized, devfwd>>
       \/ /\ Forward(p) \/ UNCHANGED host
          /\ excused' = excused \cup {call[p].key}
          /\ Leave(p)
          /\ UNCHANGED <<initialized, devfwd>>
       \/ /\ KillDeviceLocked(p)
          /\ Leave(p)
          /\ UNCHANGED <<host, excused>>
    /\ UNCHANGED <<instance, maps, owners>>

(* Mutant of Record: only one of the maps follows. *)
RecordOneMap(p) ==
    /\ At(p, "recording")
    /\ d2h' = [d2h EXCEPT ![p][call[p].key] = call[p].port]
    /\ Leave(p)
    /\ UNCHANGED <<h2d, instance, initialized, owners, host, devfwd, excused>>

(* The maps follow; then the next of port_pairs, if any. *)
Record(p) ==
    /\ At(p, "recording")
    /\ d2h' = [d2h EXCEPT ![p][call[p].key] = call[p].port]
    /\ h2d' = [h2d EXCEPT ![p][call[p].port] = call[p].key]
    /\ \/ Leave(p)
       \/ /\ \E r \in Requests:
                /\ r[1] = p /\ r[2] = "Map" /\ r[3][1] = Device(p)
                /\ call' = [call EXCEPT ![p].key = r[3], ![p].port = r[4]]
          /\ pc' = [pc EXCEPT ![p] = "mapping"]
          /\ UNCHANGED lock
    /\ UNCHANGED <<instance, initialized, owners, host, devfwd, excused>>

--------------------------------------------------------------------------------
(* UnmapDevicePort, UnmapAllDevicePorts                                         *)

(* Both `del`s, for one entry of the maps; the second raises KeyError, after    *)
(* the first, when the host port is not in its map. *)
Delete(p, key) ==
    LET port == d2h[p][key] IN
    /\ d2h' = [d2h EXCEPT ![p][key] = Nothing]
    /\ h2d' = [h2d EXCEPT ![p][port] = NoKey]

DeleteRaises(p, key) == h2d[p][d2h[p][key]] = NoKey

(* Mutant of UnmapDevicePortLocked: only the maps forget the port. *)
UnmapMapsOnly(p) ==
    /\ At(p, "ready") /\ call[p].op = "UnmapDevicePort"
    /\ IF d2h[p][call[p].key] = Nothing
       THEN UNCHANGED maps
       ELSE Delete(p, call[p].key)
    /\ Leave(p)
    /\ UNCHANGED <<instance, initialized, owners, host, devfwd, excused>>

(* The maps are changed before the command is run. *)
UnmapDevicePortLocked(p) ==
    /\ At(p, "ready") /\ call[p].op = "UnmapDevicePort"
    /\ IF d2h[p][call[p].key] = Nothing
       THEN Leave(p) /\ UNCHANGED maps
       ELSE /\ Delete(p, call[p].key)
            /\ IF DeleteRaises(p, call[p].key) THEN Leave(p) ELSE Goto(p, "unmapping")
    /\ UNCHANGED <<instance, initialized, owners, host, devfwd, excused>>

UnmapCommand(p) ==
    /\ At(p, "unmapping")
    /\ \/ /\ host' = [host EXCEPT ![call[p].key] = Nothing]
          /\ excused' = excused \ {call[p].key}
       \/ /\ excused' = excused \cup {call[p].key}
          /\ UNCHANGED host
    /\ Leave(p)
    /\ UNCHANGED <<instance, initialized, maps, owners, devfwd>>

(* The maps are changed after the command, and only if it was done. *)
UnmapAllCommand(p) ==
    LET own == {k \in Keys: k[1] = Device(p)}
        unmapped == [k \in Keys |-> IF k \in own THEN Nothing ELSE host[k]]
    IN
    /\ At(p, "ready") /\ call[p].op = "UnmapAllDevicePorts"
    /\ \/ /\ host' = unmapped
          /\ excused' = excused \ own
          /\ Goto(p, "cleaning")
       \/ /\ host' \in {host, unmapped}
          /\ excused' = excused \cup own
          /\ Leave(p)
    /\ UNCHANGED <<instance, initialized, maps, owners, devfwd>>

(* The loop over the entries, in any order. *)
Clean(p) ==
    LET entries == {k \in Keys: k[1] = Device(p) /\ d2h[p][k] # Nothing} IN
    /\ At(p, "cleaning")
    /\ IF entries = {}
       THEN Goto(p, "killing device") /\ UNCHANGED maps
       ELSE \E k \in entries:
                /\ Delete(p, k)
                /\ IF DeleteRaises(p, k) THEN Leave(p) ELSE UNCHANGED <<lock, pc, call>>
    /\ UNCHANGED <<instance, initialized, owners, host, devfwd, excused>>

--------------------------------------------------------------------------------
(* Processes that end, anywhere: the lock is released, the maps are gone, the   *)
(* daemons stay, and others may take the place of the processes.  When a group  *)
(* is gone, the lock file may name a process that no longer runs. *)

Gone(procs) ==
    /\ group' = [p \in Procs |-> IF p \in procs THEN Nobody ELSE group[p]]
    /\ lock' = IF lock \in procs THEN Nobody ELSE lock
    /\ pc' = [p \in Procs |-> IF p \in procs THEN "idle" ELSE pc[p]]
    /\ call' = [p \in Procs |-> IF p \in procs THEN NoCall ELSE call[p]]
    /\ instance' = [p \in Procs |-> p \notin procs /\ instance[p]]
    /\ initialized' = [p \in Procs |-> IF p \in procs THEN {} ELSE initialized[p]]
    /\ d2h' = [p \in Procs |-> IF p \in procs THEN NoMap ELSE d2h[p]]
    /\ h2d' = [p \in Procs |-> IF p \in procs THEN NoHost ELSE h2d[p]]
    /\ excused' = excused \cup MappedBy(procs) \cup {k \in Keys: \E p \in procs: call[p].key = k}
    /\ displaced' = displaced \ procs
    /\ UNCHANGED <<host, devfwd>>

ProcessEnds(p) == Gone({p}) /\ UNCHANGED pidfile

GroupEnds(g) ==
    /\ Gone({p \in Procs: group[p] = g})
    /\ pidfile' = IF pidfile = g THEN Nobody ELSE pidfile

Locked(p) ==
    \/ GetInstance(p) \/ InitHostLocked(p) \/ WritePid(p)
    \/ KillHost(p) \/ KillDevice(p)
    \/ InitDeviceLocked(p) \/ MapCommand(p) \/ Record(p)
    \/ UnmapDevicePortLocked(p) \/ UnmapCommand(p) \/ UnmapAllCommand(p) \/ Clean(p)

Next ==
    \/ \E p \in Procs: Call(p) \/ Locked(p) \/ ProcessEnds(p)
    \/ \E g \in Groups: GroupEnds(g)

(* Every command has a timeout, so the process that holds the lock goes on;     *)
(* a Map has finitely many port_pairs. *)
Spec ==
    /\ Init /\ [][Next]_vars
    /\ \A p \in Procs: WF_vars(Locked(p)) /\ SF_vars(Record(p) /\ lock' = Nobody)

--------------------------------------------------------------------------------
(* Outside the lock the two maps of a process are each other's inverse, through *)
(* every failure, in requests that share no host port: then no unmap raises     *)
(* KeyError.  (Two device ports mapped to one host port do make one raise it.)  *)
MapsAreInverse ==
    \A p \in Procs: lock # p =>
        \A k \in Keys, h \in HostPorts: d2h[p][k] = h <=> h2d[p][h] = k

(* A forward is left in the daemon without a process that knows of it only if   *)
(* one of its commands failed, or its process ended.                            *)
LeaksOnlyFromFailures ==
    \A k \in Keys:
        host[k] # Nothing =>
            \/ k \in excused
            \/ \E p \in Procs: d2h[p][k] # Nothing \/ call[p].key = k

(* What a process believes forwarded is forwarded, but for failures, a KillHost *)
(* and the takeover by a live group: a sibling that comes up does not tear it   *)
(* down, nor does one that takes the place of a sibling that died.              *)
ForwardsHold ==
    \A p \in Procs: lock # p /\ p \notin displaced =>
        \A k \in Keys: d2h[p][k] # Nothing => host[k] = d2h[p][k] \/ k \in excused

(* A device believed initialized has its forwarder running.                     *)
InitializedRuns ==
    \A p \in Procs: initialized[p] \subseteq devfwd

(* Every call releases the lock.                                                *)
CallsEnd == \A p \in Procs: lock = p ~> lock # p
================================================================================
