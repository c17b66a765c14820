--------------------------- MODULE DeviceStateProofs ---------------------------
(* What the host believes of the state of a device.  First the maps of the      *)
(* Forwarder, for any number of processes, groups, devices and ports, and any   *)
(* calls that keep to two rules, each needed by some of the theorems and by no  *)
(* others; then the cached property of DeviceProps, for any values and retries. *)
EXTENDS Forwarder, DeviceProps, TLAPS

(* A process maps a device port to one host port, and no other to that one: the *)
(* two maps have room for no more.                                              *)
OnePortEach ==
    \A r, s \in Requests:
        r[1] = s[1] /\ r[2] = "Map" /\ s[2] = "Map" => (r[3] = s[3] <=> r[4] = s[4])

(* Processes work on devices of their own, but may kill the host forwarder.     *)
OwnDevices ==
    \A r, s \in Requests:
        r[2] # "KillHost" /\ s[2] # "KillHost" /\ r[3][1] = s[3][1] => r[1] = s[1]

--------------------------------------------------------------------------------
(* A method runs under the lock, for a request, in a process that has a group.  *)
CallInv ==
    /\ \A p \in Procs: lock = p => pc[p] # "idle"
    /\ \A p \in Procs: pc[p] # "idle" =>
        /\ lock = p /\ group[p] # Nobody
        /\ <<p, call[p].op, call[p].key, call[p].port>> \in Requests
        /\ pc[p] \in {"mapping", "recording"} => call[p].op = "Map"
        /\ pc[p] = "unmapping" => call[p].op = "UnmapDevicePort"
        /\ pc[p] \in {"cleaning", "killing device"} => call[p].op = "UnmapAllDevicePorts"
        /\ pc[p] \notin {"locked", "killing", "writing"} => instance[p]

(* What a process holds it asked for, of the instance that it got.              *)
HoldsRequested ==
    /\ \A p \in Procs, k \in Keys: d2h[p][k] # Nothing =>
        /\ instance[p]
        /\ <<p, "Map", k, d2h[p][k]>> \in Requests
    /\ \A p \in Procs: \A d \in initialized[p]:
        \E r \in Requests: r[1] = p /\ r[2] = "Map" /\ r[3][1] = d

(* Between a command and the maps that follow it, the daemon stays as it was.   *)
HostInv ==
    \A p \in Procs:
        /\ pc[p] = "recording" => host[call[p].key] = call[p].port
        /\ pc[p] = "cleaning" => \A k \in Keys: k[1] = Device(p) => host[k] = Nothing

BaseInv == TypeOK /\ CallInv /\ HoldsRequested /\ HostInv

(* The maps are inverse under the lock too.                                     *)
InverseInv ==
    \A p \in Procs: \A k \in Keys, h \in HostPorts: d2h[p][k] = h <=> h2d[p][h] = k

LeakInv ==
    \A k \in Keys:
        host[k] # Nothing =>
            \/ k \in excused
            \/ \E p \in Procs: d2h[p][k] # Nothing
            \/ \E p \in Procs: pc[p] \in {"recording", "unmapping"} /\ call[p].key = k

(* A process with an instance is in the group that the lock file names, or its  *)
(* daemon was taken from it.                                                    *)
OwnerInv ==
    \A p \in Procs:
        /\ instance[p] => group[p] # Nobody /\ (p \in displaced \/ pidfile = group[p])
        /\ pc[p] \in {"killing", "writing"} => pidfile # group[p]
        /\ pc[p] = "writing" =>
            \A q \in Procs: instance[q] => q \in displaced

HoldInv ==
    /\ \A p \in Procs: pc[p] = "unmapping" => d2h[p][call[p].key] = Nothing
    /\ \A p \in Procs \ displaced, k \in Keys: d2h[p][k] # Nothing =>
        \/ host[k] = d2h[p][k]
        \/ k \in excused
        \/ pc[p] = "recording" /\ call[p].key = k
        \/ pc[p] = "cleaning" /\ k[1] = Device(p)

--------------------------------------------------------------------------------
(* What entering, moving in and leaving a method does.                          *)

Places == {"locked", "killing", "writing", "ready", "mapping", "recording", "unmapping",
           "cleaning", "killing device"}

LEMMA GotoKeeps ==
    ASSUME TypeOK, CallInv, NEW p \in Procs, pc[p] # "idle", NEW place \in Places,
           Goto(p, place), group' = group, \A q \in Procs: instance[q] => instance'[q],
           place \in {"mapping", "recording"} => call[p].op = "Map",
           place = "unmapping" => call[p].op = "UnmapDevicePort",
           place \in {"cleaning", "killing device"} => call[p].op = "UnmapAllDevicePorts",
           place \notin {"locked", "killing", "writing"} => instance'[p]
    PROVE  /\ CallInv'
           /\ pc' \in [Procs -> Places \cup {"idle"}] /\ pc'[p] = place
           /\ UNCHANGED <<lock, call>>
           /\ \A q \in Procs: q # p => pc[q] = "idle" /\ pc'[q] = "idle"
<1>1. /\ pc \in [Procs -> Places \cup {"idle"}] /\ pc' = [pc EXCEPT ![p] = place]
      /\ UNCHANGED <<lock, call>> /\ lock = p
  <2>1. pc \in [Procs -> Places \cup {"idle"}]
      BY DEF TypeOK, Places
  <2>2. pc' = [pc EXCEPT ![p] = place] /\ UNCHANGED <<lock, call>>
      BY DEF Goto
  <2>3. lock = p
      BY DEF CallInv
  <2> QED
      BY <2>1, <2>2, <2>3
<1>2. \A q \in Procs: q # p => pc[q] = "idle"
    BY <1>1 DEF CallInv
<1>3. /\ pc' \in [Procs -> Places \cup {"idle"}]
      /\ \A q \in Procs: pc'[q] = IF q = p THEN place ELSE "idle"
    BY <1>1, <1>2
<1>4. place # "idle"
    BY DEF Places
<1>5. CallInv'
    BY <1>1, <1>3, <1>4 DEF CallInv
<1> QED
    BY <1>1, <1>2, <1>3, <1>5

(* When a method is left, every process is outside. *)
LEMMA LeaveKeeps ==
    ASSUME TypeOK, CallInv, NEW p \in Procs, pc[p] # "idle", Leave(p)
    PROVE  /\ CallInv' /\ HostInv'
           /\ lock' = Nobody
           /\ pc' \in [Procs -> Places \cup {"idle"}]
           /\ call' \in [Procs -> [op: Ops, key: Keys, port: HostPorts] \cup {NoCall}]
           /\ \A q \in Procs: pc'[q] = "idle" /\ (q # p => pc[q] = "idle")
<1>1. /\ pc' = [pc EXCEPT ![p] = "idle"] /\ call' = [call EXCEPT ![p] = NoCall]
      /\ lock' = Nobody /\ lock = p
    BY DEF Leave, CallInv
<1>2. /\ pc' \in [Procs -> Places \cup {"idle"}]
      /\ call' \in [Procs -> [op: Ops, key: Keys, port: HostPorts] \cup {NoCall}]
    BY <1>1 DEF TypeOK, Places
<1>3. \A q \in Procs: pc'[q] = "idle" /\ (q # p => pc[q] = "idle")
    BY <1>1 DEF CallInv, TypeOK
<1>4. Nobody \notin Procs
    BY NamesAssumption
<1>5. CallInv' /\ HostInv'
    BY <1>1, <1>3, <1>4 DEF CallInv, HostInv
<1> QED
    BY <1>1, <1>2, <1>3, <1>5

(* One entry of the maps of a process changes.                                  *)
LEMMA MapsChange ==
    ASSUME TypeOK, NEW p \in Procs, NEW k \in Keys, NEW v \in HostPorts \cup {Nothing},
           d2h' = [d2h EXCEPT ![p][k] = v]
    PROVE  /\ d2h' \in [Procs -> [Keys -> HostPorts \cup {Nothing}]]
           /\ \A q \in Procs, j \in Keys:
                d2h'[q][j] = IF q = p /\ j = k THEN v ELSE d2h[q][j]
<1>1. d2h \in [Procs -> [Keys -> HostPorts \cup {Nothing}]]
    BY DEF TypeOK
<1>2. d2h[p] \in [Keys -> HostPorts \cup {Nothing}]
    BY <1>1
<1>3. d2h' = [d2h EXCEPT ![p] = [d2h[p] EXCEPT ![k] = v]]
    OBVIOUS
<1> QED
    BY <1>1, <1>2, <1>3

LEMMA BackMapsChange ==
    ASSUME TypeOK, NEW p \in Procs, NEW h \in HostPorts, NEW v \in Keys \cup {NoKey},
           h2d' = [h2d EXCEPT ![p][h] = v]
    PROVE  /\ h2d' \in [Procs -> [HostPorts -> Keys \cup {NoKey}]]
           /\ \A q \in Procs, j \in HostPorts:
                h2d'[q][j] = IF q = p /\ j = h THEN v ELSE h2d[q][j]
<1>1. h2d \in [Procs -> [HostPorts -> Keys \cup {NoKey}]]
    BY DEF TypeOK
<1>2. h2d[p] \in [HostPorts -> Keys \cup {NoKey}]
    BY <1>1
<1>3. h2d' = [h2d EXCEPT ![p] = [h2d[p] EXCEPT ![h] = v]]
    OBVIOUS
<1> QED
    BY <1>1, <1>2, <1>3

(* An entry is deleted. *)
LEMMA DeleteChange ==
    ASSUME TypeOK, NEW p \in Procs, NEW k \in Keys, d2h[p][k] # Nothing, Delete(p, k)
    PROVE  /\ d2h[p][k] \in HostPorts
           /\ d2h' \in [Procs -> [Keys -> HostPorts \cup {Nothing}]]
           /\ h2d' \in [Procs -> [HostPorts -> Keys \cup {NoKey}]]
           /\ \A q \in Procs, j \in Keys:
                d2h'[q][j] = IF q = p /\ j = k THEN Nothing ELSE d2h[q][j]
           /\ \A q \in Procs, h \in HostPorts:
                h2d'[q][h] = IF q = p /\ h = d2h[p][k] THEN NoKey ELSE h2d[q][h]
<1>1. d2h[p][k] \in HostPorts
  <2>1. d2h[p] \in [Keys -> HostPorts \cup {Nothing}]
      BY DEF TypeOK
  <2> QED
      BY <2>1
<1>2. /\ d2h' = [d2h EXCEPT ![p][k] = Nothing]
      /\ h2d' = [h2d EXCEPT ![p][d2h[p][k]] = NoKey]
    BY DEF Delete
<1>3. /\ d2h' \in [Procs -> [Keys -> HostPorts \cup {Nothing}]]
      /\ \A q \in Procs, j \in Keys:
           d2h'[q][j] = IF q = p /\ j = k THEN Nothing ELSE d2h[q][j]
    BY <1>2, MapsChange
<1>4. /\ h2d' \in [Procs -> [HostPorts -> Keys \cup {NoKey}]]
      /\ \A q \in Procs, h \in HostPorts:
           h2d'[q][h] = IF q = p /\ h = d2h[p][k] THEN NoKey ELSE h2d[q][h]
  <2>1. PICK port \in HostPorts: port = d2h[p][k]
      BY <1>1
  <2>2. h2d' = [h2d EXCEPT ![p][port] = NoKey]
      BY <1>2, <2>1
  <2>3. /\ h2d' \in [Procs -> [HostPorts -> Keys \cup {NoKey}]]
        /\ \A q \in Procs, h \in HostPorts:
             h2d'[q][h] = IF q = p /\ h = port THEN NoKey ELSE h2d[q][h]
      BY <2>2, BackMapsChange
  <2> QED
      BY <2>1, <2>3
<1> QED
    BY <1>1, <1>3, <1>4

(* What is held stays requested while nothing is added to it. *)
LEMMA HoldsStay ==
    ASSUME HoldsRequested,
           \A p \in Procs, k \in Keys: d2h'[p][k] \in {d2h[p][k], Nothing},
           \A p \in Procs: initialized'[p] \subseteq initialized[p],
           \A p \in Procs: instance[p] => instance'[p]
    PROVE  HoldsRequested'
<1>1. \A p \in Procs, k \in Keys: d2h'[p][k] # Nothing =>
        /\ instance'[p]
        /\ <<p, "Map", k, d2h'[p][k]>> \in Requests
    BY DEF HoldsRequested
<1>2. \A p \in Procs: \A d \in initialized'[p]:
        \E r \in Requests: r[1] = p /\ r[2] = "Map" /\ r[3][1] = d
    BY DEF HoldsRequested
<1> QED
    BY <1>1, <1>2 DEF HoldsRequested

LEMMA CallOf ==
    ASSUME TypeOK, CallInv, NEW p \in Procs, pc[p] # "idle"
    PROVE  /\ call[p] \in [op: Ops, key: Keys, port: HostPorts]
           /\ call[p].key \in Keys /\ call[p].port \in HostPorts
           /\ Device(p) \in Devices
           /\ <<p, call[p].op, call[p].key, call[p].port>> \in Requests
           /\ lock = p /\ \A q \in Procs: q # p => pc[q] = "idle"
<1>1. <<p, call[p].op, call[p].key, call[p].port>> \in Procs \X Ops \X Keys \X HostPorts
    BY RequestsAssumption DEF CallInv
<1>2. call[p] \in [op: Ops, key: Keys, port: HostPorts] \cup {NoCall}
    BY DEF TypeOK
<1>3. call[p] # NoCall
    BY <1>1, PortsAssumption DEF NoCall
<1>4. call[p].key[1] \in Devices
    BY <1>1 DEF Keys
<1> QED
    BY <1>1, <1>2, <1>3, <1>4 DEF CallInv, Device

--------------------------------------------------------------------------------
(* BaseInv, method by method.                                                   *)

LEMMA CallBase ==
    ASSUME BaseInv, NEW p \in Procs, Call(p)
    PROVE  BaseInv'
<1> USE DEF BaseInv
<1>1. PICK r \in Requests: /\ r[1] = p
                           /\ call' = [call EXCEPT ![p] = [op |-> r[2], key |-> r[3], port |-> r[4]]]
    BY DEF Call
<1>2. /\ pc[p] = "idle" /\ lock = Nobody /\ lock' = p
      /\ pc' = [pc EXCEPT ![p] = "locked"]
      /\ \/ group' = group /\ group[p] # Nobody
         \/ \E g \in Groups: group' = [group EXCEPT ![p] = g]
      /\ UNCHANGED <<instance, initialized, maps, pidfile, displaced, host, devfwd, excused>>
    BY DEF Call
<1>3. r \in Procs \X Ops \X Keys \X HostPorts /\ r = <<p, r[2], r[3], r[4]>>
    BY <1>1, RequestsAssumption
<1>4. /\ \A q \in Procs: pc[q] = "idle"
      /\ \A q \in Procs: pc'[q] = IF q = p THEN "locked" ELSE "idle"
  <2>1. \A q \in Procs: pc[q] = "idle"
      BY <1>2, NamesAssumption DEF CallInv
  <2> QED
      BY <1>2, <2>1 DEF TypeOK
<1>5. group' \in [Procs -> Groups \cup {Nobody}] /\ group'[p] # Nobody
  <2>1. CASE group' = group /\ group[p] # Nobody
      BY <2>1 DEF TypeOK
  <2>2. ASSUME NEW g \in Groups, group' = [group EXCEPT ![p] = g]
        PROVE  group' \in [Procs -> Groups \cup {Nobody}] /\ group'[p] # Nobody
    <3>1. g # Nobody
        BY NamesAssumption
    <3> QED
        BY <2>2, <3>1 DEF TypeOK
  <2> QED
      BY <1>2, <2>1, <2>2
<1>6. /\ call' \in [Procs -> [op: Ops, key: Keys, port: HostPorts] \cup {NoCall}]
      /\ call'[p] = [op |-> r[2], key |-> r[3], port |-> r[4]]
    BY <1>1, <1>3 DEF TypeOK
<1>7. pc' \in [Procs -> {"idle", "locked", "killing", "writing", "ready", "mapping", "recording",
                         "unmapping", "cleaning", "killing device"}]
    BY <1>2 DEF TypeOK
<1>8. TypeOK'
    BY <1>2, <1>5, <1>6, <1>7 DEF TypeOK, maps
<1>9. CallInv'
  <2>1. <<p, call'[p].op, call'[p].key, call'[p].port>> \in Requests
      BY <1>3, <1>6
  <2>2. \A q \in Procs: lock' = q => pc'[q] # "idle"
      BY <1>2, <1>4
  <2>3. \A q \in Procs: pc'[q] # "idle" => q = p /\ pc'[q] = "locked"
      BY <1>4
  <2> QED
      BY <1>2, <1>5, <2>1, <2>2, <2>3 DEF CallInv
<1>10. HoldsRequested' /\ HostInv'
    BY <1>2, <1>4 DEF HoldsRequested, HostInv, maps
<1> QED
    BY <1>8, <1>9, <1>10

(* A method that is left, having changed no map and taken no device.            *)
LEMMA LeaveBase ==
    ASSUME BaseInv, NEW p \in Procs, pc[p] # "idle", Leave(p),
           UNCHANGED <<group, pidfile>>,
           displaced' \subseteq Procs, instance' \in [Procs -> BOOLEAN],
           \A q \in Procs: instance[q] => instance'[q],
           initialized' \in [Procs -> SUBSET Devices],
           \A q \in Procs: initialized'[q] \subseteq initialized[q],
           d2h' \in [Procs -> [Keys -> HostPorts \cup {Nothing}]],
           h2d' \in [Procs -> [HostPorts -> Keys \cup {NoKey}]],
           \A q \in Procs, k \in Keys: d2h'[q][k] \in {d2h[q][k], Nothing},
           host' \in [Keys -> HostPorts \cup {Nothing}],
           devfwd' \subseteq Devices, excused' \subseteq Keys
    PROVE  BaseInv'
<1> USE DEF BaseInv
<1>1. /\ CallInv' /\ HostInv'
      /\ lock' = Nobody
      /\ pc' \in [Procs -> Places \cup {"idle"}]
      /\ call' \in [Procs -> [op: Ops, key: Keys, port: HostPorts] \cup {NoCall}]
    BY LeaveKeeps
<1>2. TypeOK'
    BY <1>1 DEF TypeOK, Places
<1>3. HoldsRequested'
    BY HoldsStay
<1> QED
    BY <1>1, <1>2, <1>3

(* A method that goes on, likewise, between commands and the maps.              *)
LEMMA GotoBase ==
    ASSUME BaseInv, NEW p \in Procs, pc[p] # "idle",
           NEW place \in Places, Goto(p, place),
           place \in {"mapping", "recording"} => call[p].op = "Map",
           place = "unmapping" => call[p].op = "UnmapDevicePort",
           place \in {"cleaning", "killing device"} => call[p].op = "UnmapAllDevicePorts",
           place \notin {"locked", "killing", "writing"} => instance'[p],
           place = "recording" => host'[call[p].key] = call[p].port,
           place = "cleaning" => \A k \in Keys: k[1] = Device(p) => host'[k] = Nothing,
           group' = group,
           pidfile' \in Groups \cup {Nobody},
           displaced' \subseteq Procs, instance' \in [Procs -> BOOLEAN],
           \A q \in Procs: instance[q] => instance'[q],
           initialized' \in [Procs -> SUBSET Devices],
           d2h' \in [Procs -> [Keys -> HostPorts \cup {Nothing}]],
           h2d' \in [Procs -> [HostPorts -> Keys \cup {NoKey}]],
           HoldsRequested',
           host' \in [Keys -> HostPorts \cup {Nothing}],
           devfwd' \subseteq Devices, excused' \subseteq Keys
    PROVE  BaseInv'
<1> USE DEF BaseInv
<1>1. /\ CallInv'
      /\ pc' \in [Procs -> Places \cup {"idle"}] /\ pc'[p] = place
      /\ UNCHANGED <<lock, call>>
      /\ \A q \in Procs: q # p => pc'[q] = "idle"
    BY GotoKeeps
<1>2. TypeOK'
    BY <1>1 DEF TypeOK, Places
<1>3. HostInv'
    BY <1>1 DEF HostInv, Device
<1> QED
    BY <1>1, <1>2, <1>3

LEMMA InstanceBase ==
    ASSUME BaseInv, NEW p \in Procs, GetInstance(p) \/ InitHostLocked(p) \/ WritePid(p)
    PROVE  BaseInv'
<1> USE DEF BaseInv
<1>1. pc[p] # "idle" /\ lock = p /\ group[p] \in Groups
  <2>1. pc[p] \in {"locked", "killing", "writing"}
      BY DEF GetInstance, InitHostLocked, WritePid, At
  <2>2. lock = p /\ group[p] # Nobody
      BY <2>1 DEF CallInv
  <2>3. group[p] \in Groups \cup {Nobody}
      BY DEF TypeOK
  <2> QED
      BY <2>1, <2>2, <2>3
<1>2. UNCHANGED <<group, initialized, maps, devfwd, excused>>
    BY DEF GetInstance, InitHostLocked, WritePid, owners
<1>3. /\ pidfile' \in Groups \cup {Nobody}
      /\ displaced' \subseteq Procs
      /\ instance' \in [Procs -> BOOLEAN]
      /\ \A q \in Procs: instance[q] => instance'[q]
      /\ host' \in [Keys -> HostPorts \cup {Nothing}]
      /\ initialized' \in [Procs -> SUBSET Devices]
      /\ d2h' \in [Procs -> [Keys -> HostPorts \cup {Nothing}]]
      /\ h2d' \in [Procs -> [HostPorts -> Keys \cup {NoKey}]]
      /\ devfwd' \subseteq Devices /\ excused' \subseteq Keys
    BY <1>1, <1>2 DEF GetInstance, InitHostLocked, WritePid, owners, maps, KillHostLocked, NoMap, TypeOK
<1>4. HoldsRequested'
    BY <1>2, <1>3 DEF HoldsRequested, maps
<1>5. CASE Leave(p) /\ UNCHANGED pidfile
    BY <1>1, <1>2, <1>3, <1>5, LeaveBase DEF maps
<1>6. CASE \E place \in {"killing", "writing"}: Goto(p, place)
    BY <1>1, <1>2, <1>3, <1>4, <1>6, GotoBase DEF Places
<1>7. CASE Goto(p, "ready") /\ instance'[p]
    BY <1>1, <1>2, <1>3, <1>4, <1>7, GotoBase DEF Places
<1> QED
    BY <1>5, <1>6, <1>7 DEF GetInstance, InitHostLocked, WritePid, owners, TypeOK

LEMMA KillBase ==
    ASSUME BaseInv, NEW p \in Procs, KillHost(p) \/ KillDevice(p)
    PROVE  BaseInv'
<1> USE DEF BaseInv
<1>1. pc[p] # "idle"
    BY DEF KillHost, KillDevice, At
<1>2. /\ Leave(p)
      /\ UNCHANGED <<instance, maps, owners>>
      /\ initialized' \in [Procs -> SUBSET Devices]
      /\ \A q \in Procs: initialized'[q] \subseteq initialized[q]
      /\ host' \in [Keys -> HostPorts \cup {Nothing}]
      /\ devfwd' \subseteq Devices /\ excused' \subseteq Keys
  <2>1. CASE KillHost(p)
    <3>1. /\ Leave(p) /\ UNCHANGED <<instance, initialized, maps, owners, devfwd>>
          /\ host' \in {host, NoMap} /\ excused' \in {excused, excused \cup MappedBy(Procs)}
        BY <2>1 DEF KillHost, KillHostLocked
    <3>2. NoMap \in [Keys -> HostPorts \cup {Nothing}] /\ MappedBy(Procs) \subseteq Keys
        BY DEF NoMap, MappedBy
    <3> QED
        BY <3>1, <3>2 DEF TypeOK
  <2>2. CASE KillDevice(p)
    <3>1. /\ Leave(p) /\ UNCHANGED <<instance, maps, owners, host, excused>>
          /\ initialized' = [initialized EXCEPT ![p] = initialized[p] \ {Device(p)}]
          /\ devfwd' \in {devfwd, devfwd \ {Device(p)}}
        BY <2>2 DEF KillDevice, KillDeviceLocked
    <3> QED
        BY <3>1 DEF TypeOK
  <2> QED
      BY <2>1, <2>2
<1> QED
    BY <1>1, <1>2, LeaveBase DEF maps, owners, TypeOK

LEMMA InitDeviceBase ==
    ASSUME BaseInv, NEW p \in Procs, InitDeviceLocked(p)
    PROVE  BaseInv'
<1> USE DEF BaseInv
<1>1. /\ pc[p] = "ready" /\ call[p].op = "Map" /\ instance[p] /\ Device(p) \in Devices
      /\ <<p, call[p].op, call[p].key, call[p].port>> \in Requests
      /\ UNCHANGED <<instance, maps, owners, host, excused>>
      /\ devfwd' \subseteq Devices
  <2>1. /\ pc[p] = "ready" /\ call[p].op = "Map"
        /\ UNCHANGED <<instance, maps, owners, host, excused>>
      BY DEF InitDeviceLocked, At
  <2>2. /\ Device(p) \in Devices
        /\ <<p, call[p].op, call[p].key, call[p].port>> \in Requests
      BY <2>1, CallOf
  <2>3. instance[p]
      BY <2>1 DEF CallInv
  <2>4. devfwd' \subseteq Devices
      BY <2>2 DEF InitDeviceLocked, TypeOK
  <2> QED
      BY <2>1, <2>2, <2>3, <2>4
<1>2. CASE Leave(p) /\ UNCHANGED initialized
    BY <1>1, <1>2, LeaveBase DEF maps, owners, TypeOK
<1>3. CASE Goto(p, "mapping") /\ initialized' = initialized
  <2>1. UNCHANGED <<instance, initialized, d2h, h2d, group, pidfile, displaced, host, excused>>
      BY <1>1, <1>3 DEF maps, owners
  <2>2. HoldsRequested'
      BY <2>1 DEF HoldsRequested
  <2> QED
      BY <1>1, <1>3, <2>1, <2>2, GotoBase DEF TypeOK, Places
<1>4. CASE Goto(p, "mapping") /\ initialized' = [initialized EXCEPT ![p] = @ \cup {Device(p)}]
  <2>1. /\ initialized' \in [Procs -> SUBSET Devices]
        /\ \A q \in Procs: initialized'[q] = IF q = p THEN initialized[q] \cup {Device(p)}
                                                     ELSE initialized[q]
      BY <1>1, <1>4 DEF TypeOK
  <2>2. \E r \in Requests: r[1] = p /\ r[2] = "Map" /\ r[3][1] = Device(p)
    <3>1. <<p, "Map", call[p].key, call[p].port>> \in Requests
        BY <1>1
    <3> QED
        BY <3>1 DEF Device
  <2>3. HoldsRequested'
      BY <1>1, <2>1, <2>2 DEF HoldsRequested, maps
  <2> QED
      BY <1>1, <1>4, <2>1, <2>3, GotoBase DEF maps, owners, TypeOK, Places
<1> QED
    BY <1>2, <1>3, <1>4 DEF InitDeviceLocked

LEMMA MapCommandBase ==
    ASSUME BaseInv, NEW p \in Procs, MapCommand(p)
    PROVE  BaseInv'
<1> USE DEF BaseInv
<1>1. /\ pc[p] = "mapping" /\ call[p].op = "Map" /\ instance[p]
      /\ call[p].key \in Keys /\ call[p].port \in HostPorts
      /\ UNCHANGED <<instance, maps, owners>>
    BY CallOf DEF MapCommand, At, CallInv
<1>2. /\ initialized' \in [Procs -> SUBSET Devices]
      /\ \A q \in Procs: initialized'[q] \subseteq initialized[q]
      /\ host' \in [Keys -> HostPorts \cup {Nothing}]
      /\ devfwd' \subseteq Devices /\ excused' \subseteq Keys
  <2>1. \/ UNCHANGED <<initialized, devfwd>>
        \/ /\ initialized' = [initialized EXCEPT ![p] = initialized[p] \ {Device(p)}]
           /\ devfwd' \in {devfwd, devfwd \ {Device(p)}}
      BY DEF MapCommand, KillDeviceLocked
  <2>2. initialized \in [Procs -> SUBSET Devices] /\ devfwd \subseteq Devices
      BY DEF TypeOK
  <2>3. /\ initialized' \in [Procs -> SUBSET Devices] /\ devfwd' \subseteq Devices
        /\ \A q \in Procs: initialized'[q] \subseteq initialized[q]
      BY <2>1, <2>2
  <2>4. /\ host' = host \/ host' = [host EXCEPT ![call[p].key] = call[p].port]
        /\ excused' \in {excused, excused \cup {call[p].key}, excused \ {call[p].key}}
      BY DEF MapCommand, Forward
  <2>5. host' \in [Keys -> HostPorts \cup {Nothing}] /\ excused' \subseteq Keys
      BY <1>1, <2>4 DEF TypeOK
  <2> QED
      BY <2>3, <2>5
<1>3. CASE Leave(p)
    BY <1>1, <1>2, <1>3, LeaveBase DEF maps, owners, TypeOK
<1>4. CASE ~Leave(p)
  <2>1. Forward(p) /\ Goto(p, "recording") /\ UNCHANGED <<initialized, devfwd>>
      BY <1>4 DEF MapCommand
  <2>2. host'[call[p].key] = call[p].port
      BY <1>1, <2>1 DEF Forward, TypeOK
  <2>3. HoldsRequested'
      BY <1>1, <2>1 DEF HoldsRequested, maps
  <2> QED
      BY <1>1, <1>2, <2>1, <2>2, <2>3, GotoBase DEF maps, owners, TypeOK, Places
<1> QED
    BY <1>3, <1>4

(* What Record adds, it was asked for. *)
LEMMA RecordChange ==
    ASSUME BaseInv, NEW p \in Procs, Record(p)
    PROVE  /\ pc[p] = "recording" /\ call[p].key \in Keys /\ call[p].port \in HostPorts
           /\ <<p, "Map", call[p].key, call[p].port>> \in Requests
           /\ d2h' \in [Procs -> [Keys -> HostPorts \cup {Nothing}]]
           /\ h2d' \in [Procs -> [HostPorts -> Keys \cup {NoKey}]]
           /\ \A q \in Procs, k \in Keys:
                d2h'[q][k] = IF q = p /\ k = call[p].key THEN call[p].port ELSE d2h[q][k]
           /\ \A q \in Procs, h \in HostPorts:
                h2d'[q][h] = IF q = p /\ h = call[p].port THEN call[p].key ELSE h2d[q][h]
           /\ UNCHANGED <<instance, initialized, owners, host, devfwd, excused>>
<1>0. TypeOK /\ CallInv
    BY DEF BaseInv
<1>1. /\ pc[p] = "recording" /\ call[p].key \in Keys /\ call[p].port \in HostPorts
      /\ <<p, "Map", call[p].key, call[p].port>> \in Requests
  <2>1. pc[p] = "recording" /\ call[p].op = "Map"
      BY <1>0 DEF Record, At, CallInv
  <2>2. /\ call[p].key \in Keys /\ call[p].port \in HostPorts
        /\ <<p, call[p].op, call[p].key, call[p].port>> \in Requests
      BY <1>0, <2>1, CallOf
  <2> QED
      BY <2>1, <2>2
<1>2. /\ d2h' = [d2h EXCEPT ![p][call[p].key] = call[p].port]
      /\ h2d' = [h2d EXCEPT ![p][call[p].port] = call[p].key]
      /\ UNCHANGED <<instance, initialized, owners, host, devfwd, excused>>
    BY DEF Record
<1>3. /\ d2h' \in [Procs -> [Keys -> HostPorts \cup {Nothing}]]
      /\ \A q \in Procs, k \in Keys:
           d2h'[q][k] = IF q = p /\ k = call[p].key THEN call[p].port ELSE d2h[q][k]
  <2>1. PICK key \in Keys, port \in HostPorts: key = call[p].key /\ port = call[p].port
      BY <1>1
  <2>2. d2h' = [d2h EXCEPT ![p][key] = port]
      BY <1>2, <2>1
  <2>3. /\ d2h' \in [Procs -> [Keys -> HostPorts \cup {Nothing}]]
        /\ \A q \in Procs, k \in Keys:
             d2h'[q][k] = IF q = p /\ k = key THEN port ELSE d2h[q][k]
      BY <1>0, <2>2, MapsChange
  <2> QED
      BY <2>1, <2>3
<1>4. /\ h2d' \in [Procs -> [HostPorts -> Keys \cup {NoKey}]]
      /\ \A q \in Procs, h \in HostPorts:
           h2d'[q][h] = IF q = p /\ h = call[p].port THEN call[p].key ELSE h2d[q][h]
  <2>1. PICK key \in Keys, port \in HostPorts: key = call[p].key /\ port = call[p].port
      BY <1>1
  <2>2. h2d' = [h2d EXCEPT ![p][port] = key]
      BY <1>2, <2>1
  <2>3. /\ h2d' \in [Procs -> [HostPorts -> Keys \cup {NoKey}]]
        /\ \A q \in Procs, h \in HostPorts:
             h2d'[q][h] = IF q = p /\ h = port THEN key ELSE h2d[q][h]
      BY <1>0, <2>2, BackMapsChange
  <2> QED
      BY <2>1, <2>3
<1> QED
    BY <1>1, <1>2, <1>3, <1>4

LEMMA RecordBase ==
    ASSUME BaseInv, NEW p \in Procs, Record(p)
    PROVE  BaseInv'
<1> USE DEF BaseInv
<1>1. /\ pc[p] = "recording" /\ call[p].key \in Keys /\ call[p].port \in HostPorts
      /\ <<p, "Map", call[p].key, call[p].port>> \in Requests
      /\ d2h' \in [Procs -> [Keys -> HostPorts \cup {Nothing}]]
      /\ h2d' \in [Procs -> [HostPorts -> Keys \cup {NoKey}]]
      /\ \A q \in Procs, k \in Keys:
           d2h'[q][k] = IF q = p /\ k = call[p].key THEN call[p].port ELSE d2h[q][k]
      /\ UNCHANGED <<instance, initialized, owners, host, devfwd, excused>>
    BY RecordChange
<1>2. HoldsRequested'
  <2>1. instance[p]
      BY <1>1 DEF CallInv
  <2>2. \A q \in Procs, k \in Keys: d2h'[q][k] # Nothing =>
            instance'[q] /\ <<q, "Map", k, d2h'[q][k]>> \in Requests
    <3> SUFFICES ASSUME NEW q \in Procs, NEW k \in Keys, d2h'[q][k] # Nothing
                 PROVE  instance'[q] /\ <<q, "Map", k, d2h'[q][k]>> \in Requests
        OBVIOUS
    <3>1. CASE q = p /\ k = call[p].key
      <4>1. d2h'[q][k] = call[p].port /\ instance' = instance
          BY <1>1, <3>1
      <4> QED
          BY <1>1, <2>1, <3>1, <4>1
    <3>2. CASE ~(q = p /\ k = call[p].key)
      <4>1. d2h'[q][k] = d2h[q][k] /\ instance' = instance
          BY <1>1, <3>2
      <4> QED
          BY <4>1 DEF HoldsRequested
    <3> QED
        BY <3>1, <3>2
  <2> QED
      BY <1>1, <2>2 DEF HoldsRequested
<1>3. CASE Leave(p)
  <2>1. /\ CallInv' /\ HostInv'
        /\ lock' = Nobody
        /\ pc' \in [Procs -> Places \cup {"idle"}]
        /\ call' \in [Procs -> [op: Ops, key: Keys, port: HostPorts] \cup {NoCall}]
      BY <1>1, <1>3, LeaveKeeps
  <2> QED
      BY <1>1, <1>2, <2>1 DEF TypeOK, Places, owners
<1>4. CASE ~Leave(p)
  <2>1. PICK r \in Requests: /\ r[1] = p /\ r[2] = "Map" /\ r[3][1] = Device(p)
                             /\ call' = [call EXCEPT ![p].key = r[3], ![p].port = r[4]]
      BY <1>4 DEF Record
  <2>2. pc' = [pc EXCEPT ![p] = "mapping"] /\ UNCHANGED lock
      BY <1>4 DEF Record
  <2>3. r \in Procs \X Ops \X Keys \X HostPorts /\ r = <<p, "Map", r[3], r[4]>>
      BY <2>1, RequestsAssumption
  <2>4. /\ call[p] \in [op: Ops, key: Keys, port: HostPorts] /\ call[p].op = "Map"
        /\ \A q \in Procs: q # p => pc[q] = "idle"
        /\ lock = p
      BY <1>1, CallOf DEF CallInv
  <2>5. /\ call' \in [Procs -> [op: Ops, key: Keys, port: HostPorts] \cup {NoCall}]
        /\ call'[p].op = "Map" /\ call'[p].key = r[3] /\ call'[p].port = r[4]
    <3> DEFINE new == [call[p] EXCEPT !.key = r[3], !.port = r[4]]
    <3>1. /\ new \in [op: Ops, key: Keys, port: HostPorts]
          /\ new.op = "Map" /\ new.key = r[3] /\ new.port = r[4]
        BY <2>3, <2>4
    <3>2. call' = [call EXCEPT ![p] = new]
        BY <2>1, <2>4 DEF TypeOK
    <3> HIDE DEF new
    <3> QED
        BY <3>1, <3>2 DEF TypeOK
  <2>6. /\ pc' \in [Procs -> Places \cup {"idle"}]
        /\ \A q \in Procs: pc'[q] = IF q = p THEN "mapping" ELSE "idle"
      BY <2>2, <2>4 DEF TypeOK, Places
  <2>7. TypeOK'
      BY <1>1, <2>2, <2>5, <2>6 DEF TypeOK, Places, owners
  <2>8. CallInv'
    <3>1. <<p, call'[p].op, call'[p].key, call'[p].port>> \in Requests
        BY <2>3, <2>5
    <3>2. instance[p] /\ group[p] # Nobody
        BY <1>1 DEF CallInv
    <3>3. lock' = p /\ instance' = instance /\ group' = group
        BY <1>1, <2>2, <2>4 DEF owners
    <3> QED
        BY <2>5, <2>6, <3>1, <3>2, <3>3 DEF CallInv
  <2>9. HostInv'
      BY <2>6 DEF HostInv
  <2> QED
      BY <1>2, <2>7, <2>8, <2>9
<1> QED
    BY <1>3, <1>4

LEMMA UnmapBase ==
    ASSUME BaseInv, NEW p \in Procs, UnmapDevicePortLocked(p) \/ UnmapCommand(p)
    PROVE  BaseInv'
<1> USE DEF BaseInv
<1>1. CASE UnmapDevicePortLocked(p)
  <2>1. /\ pc[p] = "ready" /\ call[p].op = "UnmapDevicePort"
        /\ UNCHANGED <<instance, initialized, owners, host, devfwd, excused>>
      BY <1>1 DEF UnmapDevicePortLocked, At
  <2>2. call[p].key \in Keys
      BY <2>1, CallOf
  <2>3. /\ d2h' \in [Procs -> [Keys -> HostPorts \cup {Nothing}]]
        /\ h2d' \in [Procs -> [HostPorts -> Keys \cup {NoKey}]]
        /\ \A q \in Procs, k \in Keys: d2h'[q][k] \in {d2h[q][k], Nothing}
    <3>1. CASE d2h[p][call[p].key] = Nothing
        BY <1>1, <3>1 DEF UnmapDevicePortLocked, maps, TypeOK
    <3>2. CASE d2h[p][call[p].key] # Nothing
      <4>1. Delete(p, call[p].key)
          BY <1>1, <3>2 DEF UnmapDevicePortLocked
      <4> QED
          BY <2>2, <3>2, <4>1, DeleteChange
    <3> QED
        BY <3>1, <3>2
  <2>4. HoldsRequested'
      BY <2>1, <2>3, HoldsStay
  <2>5. CASE Leave(p)
      BY <2>1, <2>3, <2>5, LeaveBase DEF owners, TypeOK
  <2>6. CASE Goto(p, "unmapping")
    <3>1. instance'[p]
        BY <2>1 DEF CallInv
    <3> QED
        BY <2>1, <2>3, <2>4, <2>6, <3>1, GotoBase DEF owners, TypeOK, Places
  <2> QED
      BY <1>1, <2>5, <2>6 DEF UnmapDevicePortLocked
<1>2. CASE UnmapCommand(p)
  <2>1. /\ pc[p] = "unmapping" /\ Leave(p)
        /\ UNCHANGED <<instance, initialized, maps, owners, devfwd>>
      BY <1>2 DEF UnmapCommand, At
  <2>2. call[p].key \in Keys
      BY <2>1, CallOf
  <2>3. host' \in [Keys -> HostPorts \cup {Nothing}] /\ excused' \subseteq Keys
      BY <1>2, <2>2 DEF UnmapCommand, TypeOK
  <2> QED
      BY <2>1, <2>3, LeaveBase DEF owners, maps, TypeOK
<1> QED
    BY <1>1, <1>2

LEMMA UnmapAllBase ==
    ASSUME BaseInv, NEW p \in Procs, UnmapAllCommand(p) \/ Clean(p)
    PROVE  BaseInv'
<1> USE DEF BaseInv
<1>1. CASE UnmapAllCommand(p)
  <2> DEFINE own == {k \in Keys: k[1] = Device(p)}
             unmapped == [k \in Keys |-> IF k \in own THEN Nothing ELSE host[k]]
  <2>1. /\ pc[p] = "ready" /\ call[p].op = "UnmapAllDevicePorts"
        /\ UNCHANGED <<instance, initialized, maps, owners, devfwd>>
        /\ \/ host' = unmapped /\ Goto(p, "cleaning")
           \/ host' \in {host, unmapped} /\ Leave(p)
        /\ excused' \in {excused \ own, excused \cup own}
      BY <1>1 DEF UnmapAllCommand, At
  <2>2. /\ unmapped \in [Keys -> HostPorts \cup {Nothing}]
        /\ \A k \in Keys: k[1] = Device(p) => unmapped[k] = Nothing
      BY DEF TypeOK
  <2>3. own \subseteq Keys
      OBVIOUS
  <2> HIDE DEF own, unmapped
  <2>4. host' \in [Keys -> HostPorts \cup {Nothing}] /\ excused' \subseteq Keys
      BY <2>1, <2>2, <2>3 DEF TypeOK
  <2>5. CASE Leave(p)
      BY <2>1, <2>4, <2>5, LeaveBase DEF owners, maps, TypeOK
  <2>6. CASE host' = unmapped /\ Goto(p, "cleaning")
    <3>1. instance'[p]
        BY <2>1 DEF CallInv
    <3>2. HoldsRequested'
        BY <2>1 DEF HoldsRequested, maps
    <3> QED
        BY <2>1, <2>2, <2>4, <2>6, <3>1, <3>2, GotoBase DEF owners, maps, TypeOK, Places
  <2> QED
      BY <2>1, <2>5, <2>6
<1>2. CASE Clean(p)
  <2>1. /\ pc[p] = "cleaning" /\ UNCHANGED <<instance, initialized, owners, host, devfwd, excused>>
      BY <1>2 DEF Clean, At
  <2>2. CASE Goto(p, "killing device") /\ UNCHANGED maps
    <3>1. HoldsRequested'
        BY <2>1, <2>2 DEF HoldsRequested, maps
    <3>2. instance'[p] /\ call[p].op = "UnmapAllDevicePorts"
        BY <2>1 DEF CallInv
    <3> QED
        BY <2>1, <2>2, <3>1, <3>2, GotoBase DEF owners, maps, TypeOK, Places
  <2>3. ASSUME NEW k \in Keys, d2h[p][k] # Nothing, Delete(p, k),
               Leave(p) \/ UNCHANGED <<lock, pc, call>>
        PROVE  BaseInv'
    <3>1. /\ d2h' \in [Procs -> [Keys -> HostPorts \cup {Nothing}]]
          /\ h2d' \in [Procs -> [HostPorts -> Keys \cup {NoKey}]]
          /\ \A q \in Procs, j \in Keys: d2h'[q][j] \in {d2h[q][j], Nothing}
        BY <2>3, DeleteChange
    <3>2. HoldsRequested'
        BY <2>1, <3>1, HoldsStay
    <3>3. CASE Leave(p)
        BY <2>1, <3>1, <3>3, LeaveBase DEF owners, TypeOK
    <3>4. CASE UNCHANGED <<lock, pc, call>>
      <4>1. TypeOK'
          BY <2>1, <3>1, <3>4 DEF owners, TypeOK
      <4>2. CallInv' /\ HostInv'
          BY <2>1, <3>4 DEF owners, CallInv, HostInv, Device
      <4> QED
          BY <3>2, <4>1, <4>2
    <3> QED
        BY <2>3, <3>3, <3>4
  <2> QED
      BY <1>2, <2>2, <2>3 DEF Clean
<1> QED
    BY <1>1, <1>2

(* Processes end: what is left of them, and what the others keep.               *)
LEMMA GoneChange ==
    ASSUME TypeOK, NEW procs \in SUBSET Procs, Gone(procs)
    PROVE  /\ \A q \in Procs \ procs:
                /\ group'[q] = group[q] /\ pc'[q] = pc[q] /\ call'[q] = call[q]
                /\ instance'[q] = instance[q] /\ initialized'[q] = initialized[q]
                /\ d2h'[q] = d2h[q] /\ h2d'[q] = h2d[q]
           /\ \A q \in procs:
                /\ group'[q] = Nobody /\ pc'[q] = "idle" /\ call'[q] = NoCall
                /\ instance'[q] = FALSE /\ initialized'[q] = {}
                /\ \A k \in Keys: d2h'[q][k] = Nothing
                /\ \A h \in HostPorts: h2d'[q][h] = NoKey
<1>1. \A q \in Procs: /\ group'[q] = IF q \in procs THEN Nobody ELSE group[q]
                      /\ pc'[q] = IF q \in procs THEN "idle" ELSE pc[q]
                      /\ call'[q] = IF q \in procs THEN NoCall ELSE call[q]
    BY DEF Gone
<1>2. \A q \in Procs: /\ initialized'[q] = IF q \in procs THEN {} ELSE initialized[q]
                      /\ d2h'[q] = IF q \in procs THEN NoMap ELSE d2h[q]
                      /\ h2d'[q] = IF q \in procs THEN NoHost ELSE h2d[q]
    BY DEF Gone
<1>3. \A q \in Procs: instance'[q] = (q \notin procs /\ instance[q])
    BY DEF Gone
<1>4. \A q \in Procs: instance[q] \in BOOLEAN
    BY DEF TypeOK
<1>5. \A q \in Procs \ procs: instance'[q] = instance[q]
    BY <1>3, <1>4
<1>6. \A q \in procs: instance'[q] = FALSE
    BY <1>3
<1> QED
    BY <1>1, <1>2, <1>5, <1>6 DEF NoMap, NoHost

LEMMA GoneBase ==
    ASSUME BaseInv, NEW procs \in SUBSET Procs, Gone(procs), pidfile' \in Groups \cup {Nobody}
    PROVE  BaseInv'
<1> USE DEF BaseInv
<1>1. /\ \A q \in Procs \ procs:
           /\ group'[q] = group[q] /\ pc'[q] = pc[q] /\ call'[q] = call[q]
           /\ instance'[q] = instance[q] /\ initialized'[q] = initialized[q]
           /\ d2h'[q] = d2h[q] /\ h2d'[q] = h2d[q]
      /\ \A q \in procs:
           /\ group'[q] = Nobody /\ pc'[q] = "idle" /\ call'[q] = NoCall
           /\ instance'[q] = FALSE /\ initialized'[q] = {}
           /\ \A k \in Keys: d2h'[q][k] = Nothing
    BY GoneChange
<1>2. /\ UNCHANGED <<host, devfwd>>
      /\ lock' = IF lock \in procs THEN Nobody ELSE lock
    BY DEF Gone
<1>3. TypeOK'
  <2>1. /\ group' \in [Procs -> Groups \cup {Nobody}]
        /\ lock' \in Procs \cup {Nobody}
        /\ pc' \in [Procs -> {"idle", "locked", "killing", "writing", "ready", "mapping",
                              "recording", "unmapping", "cleaning", "killing device"}]
        /\ call' \in [Procs -> [op: Ops, key: Keys, port: HostPorts] \cup {NoCall}]
      BY DEF Gone, TypeOK
  <2>2. instance' \in [Procs -> BOOLEAN]
    <3>1. instance' = [q \in Procs |-> q \notin procs /\ instance[q]]
        BY DEF Gone
    <3>2. \A q \in Procs: (q \notin procs /\ instance[q]) \in BOOLEAN
        OBVIOUS
    <3> QED
        BY <3>1, <3>2
  <2>3. /\ initialized' \in [Procs -> SUBSET Devices]
        /\ d2h' \in [Procs -> [Keys -> HostPorts \cup {Nothing}]]
        /\ h2d' \in [Procs -> [HostPorts -> Keys \cup {NoKey}]]
    <3>1. NoMap \in [Keys -> HostPorts \cup {Nothing}] /\ NoHost \in [HostPorts -> Keys \cup {NoKey}]
        BY DEF NoMap, NoHost
    <3> QED
        BY <3>1 DEF Gone, TypeOK
  <2>4. excused' \subseteq Keys /\ displaced' \subseteq Procs
      BY DEF Gone, MappedBy, TypeOK
  <2> QED
      BY <1>2, <2>1, <2>2, <2>3, <2>4 DEF TypeOK
<1>4. CallInv'
  <2>1. \A q \in Procs: pc'[q] # "idle" => q \in Procs \ procs /\ lock = q /\ lock' = q
      BY <1>1, <1>2 DEF CallInv
  <2>2. \A q \in Procs: lock' = q => pc'[q] # "idle"
    <3> SUFFICES ASSUME NEW q \in Procs, lock' = q
                 PROVE  pc'[q] # "idle"
        OBVIOUS
    <3>1. Nobody \notin Procs
        BY NamesAssumption
    <3>2. lock = q /\ q \notin procs
        BY <1>2, <3>1
    <3>3. pc'[q] = pc[q]
        BY <1>1, <3>2
    <3>4. pc[q] # "idle"
        BY <3>2 DEF CallInv
    <3> QED
        BY <3>3, <3>4
  <2>3. ASSUME NEW q \in Procs \ procs, pc'[q] # "idle"
        PROVE  /\ group'[q] # Nobody
               /\ <<q, call'[q].op, call'[q].key, call'[q].port>> \in Requests
               /\ pc'[q] \in {"mapping", "recording"} => call'[q].op = "Map"
               /\ pc'[q] = "unmapping" => call'[q].op = "UnmapDevicePort"
               /\ pc'[q] \in {"cleaning", "killing device"} => call'[q].op = "UnmapAllDevicePorts"
               /\ pc'[q] \notin {"locked", "killing", "writing"} => instance'[q]
    <3>1. q \in Procs
        OBVIOUS
    <3>2. /\ group'[q] = group[q] /\ pc'[q] = pc[q] /\ call'[q] = call[q]
          /\ instance'[q] = instance[q]
        BY <1>1
    <3>3. pc[q] # "idle"
        BY <2>3, <3>2
    <3>4. /\ group[q] # Nobody
          /\ <<q, call[q].op, call[q].key, call[q].port>> \in Requests
          /\ pc[q] \in {"mapping", "recording"} => call[q].op = "Map"
          /\ pc[q] = "unmapping" => call[q].op = "UnmapDevicePort"
          /\ pc[q] \in {"cleaning", "killing device"} => call[q].op = "UnmapAllDevicePorts"
          /\ pc[q] \notin {"locked", "killing", "writing"} => instance[q]
        BY <3>1, <3>3 DEF CallInv
    <3> QED
        BY <3>2, <3>4
  <2> QED
      BY <2>1, <2>2, <2>3 DEF CallInv
<1>5. HoldsRequested'
  <2>1. ASSUME NEW q \in Procs, NEW k \in Keys, d2h'[q][k] # Nothing
        PROVE  instance'[q] /\ <<q, "Map", k, d2h'[q][k]>> \in Requests
      BY <1>1, <2>1 DEF HoldsRequested
  <2>2. ASSUME NEW q \in Procs, NEW d \in initialized'[q]
        PROVE  \E r \in Requests: r[1] = q /\ r[2] = "Map" /\ r[3][1] = d
      BY <1>1, <2>2 DEF HoldsRequested
  <2> QED
      BY <2>1, <2>2 DEF HoldsRequested
<1>6. HostInv'
    BY <1>1, <1>2 DEF HostInv, Device
<1> QED
    BY <1>3, <1>4, <1>5, <1>6

LEMMA InitBase == Init => BaseInv
<1> SUFFICES ASSUME Init PROVE BaseInv
    OBVIOUS
<1> USE DEF Init
<1>1. TypeOK
    BY DEF TypeOK, NoMap, NoHost
<1>2. CallInv /\ HostInv
    BY NamesAssumption DEF CallInv, HostInv
<1>3. HoldsRequested
    BY DEF HoldsRequested, NoMap
<1> QED
    BY <1>1, <1>2, <1>3 DEF BaseInv

(* The processes that a step ends; the lock file names a group that still runs. *)
Ends(procs) ==
    /\ Gone(procs)
    /\ \/ pidfile' = pidfile
       \/ pidfile' = Nobody /\ \A q \in Procs \ procs: group[q] # pidfile

LEMMA EndsAre ==
    ASSUME \/ \E p \in Procs: ProcessEnds(p)
           \/ \E g \in Groups: GroupEnds(g)
    PROVE  \E procs \in SUBSET Procs: Ends(procs)
<1>1. ASSUME NEW p \in Procs, ProcessEnds(p)
      PROVE  \E procs \in SUBSET Procs: Ends(procs)
  <2>1. {p} \in SUBSET Procs /\ Ends({p})
      BY <1>1 DEF ProcessEnds, Ends
  <2> QED
      BY <2>1
<1>2. ASSUME NEW g \in Groups, GroupEnds(g)
      PROVE  \E procs \in SUBSET Procs: Ends(procs)
  <2> DEFINE procs == {p \in Procs: group[p] = g}
  <2>1. procs \in SUBSET Procs /\ Ends(procs)
      BY <1>2 DEF GroupEnds, Ends
  <2> QED
      BY <2>1
<1> QED
    BY <1>1, <1>2

LEMMA StepBase == BaseInv /\ [Next]_vars => BaseInv'
<1> SUFFICES ASSUME BaseInv, [Next]_vars PROVE BaseInv'
    OBVIOUS
<1>1. ASSUME NEW p \in Procs, Call(p) \/ Locked(p) PROVE BaseInv'
  <2>1. CASE Call(p)
      BY <2>1, CallBase
  <2>2. CASE GetInstance(p) \/ InitHostLocked(p) \/ WritePid(p)
      BY <2>2, InstanceBase
  <2>3. CASE KillHost(p) \/ KillDevice(p)
      BY <2>3, KillBase
  <2>4. CASE InitDeviceLocked(p)
      BY <2>4, InitDeviceBase
  <2>5. CASE MapCommand(p)
      BY <2>5, MapCommandBase
  <2>6. CASE Record(p)
      BY <2>6, RecordBase
  <2>7. CASE UnmapDevicePortLocked(p) \/ UnmapCommand(p)
      BY <2>7, UnmapBase
  <2>8. CASE UnmapAllCommand(p) \/ Clean(p)
      BY <2>8, UnmapAllBase
  <2> QED
      BY <1>1, <2>1, <2>2, <2>3, <2>4, <2>5, <2>6, <2>7, <2>8 DEF Locked
<1>2. CASE (\E p \in Procs: ProcessEnds(p)) \/ (\E g \in Groups: GroupEnds(g))
  <2>1. PICK procs \in SUBSET Procs: Ends(procs)
      BY <1>2, EndsAre
  <2>2. Gone(procs) /\ pidfile' \in Groups \cup {Nobody}
      BY <2>1 DEF Ends, BaseInv, TypeOK
  <2> QED
      BY <2>2, GoneBase
<1>3. CASE UNCHANGED vars
  <2>1. /\ UNCHANGED <<group, pidfile, displaced, lock, pc, call, instance, initialized>>
        /\ UNCHANGED <<d2h, h2d, host, devfwd, excused>>
      BY <1>3 DEF vars, maps, owners
  <2>2. TypeOK'
      BY <2>1 DEF BaseInv, TypeOK
  <2>3. CallInv'
      BY <2>1 DEF BaseInv, CallInv
  <2>4. HoldsRequested'
      BY <2>1 DEF BaseInv, HoldsRequested
  <2>5. HostInv'
      BY <2>1 DEF BaseInv, HostInv, Device
  <2> QED
      BY <2>2, <2>3, <2>4, <2>5 DEF BaseInv
<1> QED
    BY <1>1, <1>2, <1>3 DEF Next

(* Every variable keeps its type, whatever the processes ask for.               *)
THEOREM TypeCorrect == Spec => []TypeOK
<1>1. BaseInv => TypeOK
    BY DEF BaseInv
<1> QED
    BY <1>1, InitBase, StepBase, PTL DEF Spec

(* The part of the invariant that every processes' requests keep.               *)
THEOREM Base == Spec => []BaseInv
    BY InitBase, StepBase, PTL DEF Spec

--------------------------------------------------------------------------------
(* The maps are inverse.  Hypothesis OnePortEach: a second mapping of a device  *)
(* port or of a host port would overwrite one entry and leave the other.        *)

LEMMA KeptMaps ==
    ASSUME TypeOK, InverseInv, UNCHANGED maps
    PROVE  InverseInv'
    BY DEF InverseInv, maps

LEMMA DeleteInverse ==
    ASSUME TypeOK, InverseInv, NEW p \in Procs, NEW k \in Keys, d2h[p][k] # Nothing, Delete(p, k)
    PROVE  InverseInv' /\ ~DeleteRaises(p, k)
<1>1. /\ d2h[p][k] \in HostPorts
      /\ \A q \in Procs, j \in Keys:
           d2h'[q][j] = IF q = p /\ j = k THEN Nothing ELSE d2h[q][j]
      /\ \A q \in Procs, h \in HostPorts:
           h2d'[q][h] = IF q = p /\ h = d2h[p][k] THEN NoKey ELSE h2d[q][h]
    BY DeleteChange
<1>2. h2d[p][d2h[p][k]] = k
    BY <1>1 DEF InverseInv
<1>3. ~DeleteRaises(p, k)
    BY <1>2, PortsAssumption DEF DeleteRaises
<1>4. ASSUME NEW q \in Procs, NEW j \in Keys, NEW h \in HostPorts
      PROVE  d2h'[q][j] = h <=> h2d'[q][h] = j
  <2>1. d2h[q][j] = h <=> h2d[q][h] = j
      BY DEF InverseInv
  <2>2. j # NoKey /\ h # Nothing
      BY PortsAssumption
  <2>3. CASE q = p /\ j = k
      BY <1>1, <1>2, <2>1, <2>2, <2>3
  <2>4. CASE q = p /\ j # k /\ h = d2h[p][k]
      BY <1>1, <1>2, <2>1, <2>2, <2>4
  <2>5. CASE ~(q = p /\ j = k) /\ ~(q = p /\ h = d2h[p][k])
      BY <1>1, <2>1, <2>5
  <2> QED
      BY <2>3, <2>4, <2>5
<1> QED
    BY <1>3, <1>4 DEF InverseInv

LEMMA RecordInverse ==
    ASSUME OnePortEach, BaseInv, InverseInv, NEW p \in Procs, Record(p)
    PROVE  InverseInv'
<1> DEFINE key == call[p].key
           port == call[p].port
<1>1. /\ key \in Keys /\ port \in HostPorts
      /\ <<p, "Map", key, port>> \in Requests
      /\ \A q \in Procs, k \in Keys:
           d2h'[q][k] = IF q = p /\ k = key THEN port ELSE d2h[q][k]
      /\ \A q \in Procs, h \in HostPorts:
           h2d'[q][h] = IF q = p /\ h = port THEN key ELSE h2d[q][h]
    BY RecordChange
<1> HIDE DEF key, port
<1>2. ASSUME NEW k \in Keys, d2h[p][k] # Nothing
      PROVE  k = key <=> d2h[p][k] = port
  <2>1. <<p, "Map", k, d2h[p][k]>> \in Requests
      BY <1>2 DEF BaseInv, HoldsRequested
  <2> DEFINE r == <<p, "Map", k, d2h[p][k]>>
             s == <<p, "Map", key, port>>
  <2>2. /\ r[1] = p /\ r[2] = "Map" /\ r[3] = k /\ r[4] = d2h[p][k]
        /\ s[1] = p /\ s[2] = "Map" /\ s[3] = key /\ s[4] = port
        /\ r \in Requests /\ s \in Requests
      BY <1>1, <2>1
  <2> HIDE DEF r, s
  <2> QED
      BY <2>2 DEF OnePortEach
<1>3. ASSUME NEW q \in Procs, NEW k \in Keys, NEW h \in HostPorts
      PROVE  d2h'[q][k] = h <=> h2d'[q][h] = k
  <2>1. d2h[q][k] = h <=> h2d[q][h] = k
      BY DEF InverseInv
  <2>2. h # Nothing
      BY PortsAssumption
  <2>3. CASE ~(q = p /\ k = key) /\ ~(q = p /\ h = port)
      BY <1>1, <2>1, <2>3
  <2>4. CASE q = p /\ k = key /\ h = port
      BY <1>1, <2>4
  <2>5. CASE q = p /\ k = key /\ h # port
      BY <1>1, <1>2, <2>1, <2>2, <2>5
  <2>6. CASE q = p /\ k # key /\ h = port
      BY <1>1, <1>2, <2>1, <2>2, <2>6
  <2> QED
      BY <2>3, <2>4, <2>5, <2>6
<1> QED
    BY <1>3 DEF InverseInv

LEMMA StepInverse == OnePortEach /\ BaseInv /\ InverseInv /\ [Next]_vars => InverseInv'
<1> SUFFICES ASSUME OnePortEach, BaseInv, InverseInv, [Next]_vars PROVE InverseInv'
    OBVIOUS
<1>0. TypeOK
    BY DEF BaseInv
<1>1. ASSUME NEW p \in Procs, Call(p) \/ Locked(p) PROVE InverseInv'
  <2>1. CASE UNCHANGED maps
      BY <1>0, <2>1, KeptMaps
  <2>2. CASE Record(p)
      BY <2>2, RecordInverse
  <2>3. CASE UnmapDevicePortLocked(p)
    <3>1. call[p].key \in Keys
        BY <1>0, <2>3, CallOf DEF UnmapDevicePortLocked, At, BaseInv
    <3>2. CASE d2h[p][call[p].key] = Nothing
        BY <1>0, <2>3, <3>2, KeptMaps DEF UnmapDevicePortLocked
    <3>3. CASE d2h[p][call[p].key] # Nothing
        BY <1>0, <2>3, <3>1, <3>3, DeleteInverse DEF UnmapDevicePortLocked
    <3> QED
        BY <3>2, <3>3
  <2>4. CASE Clean(p)
    <3>1. ASSUME NEW k \in Keys, d2h[p][k] # Nothing, Delete(p, k)
          PROVE  InverseInv'
        BY <1>0, <3>1, DeleteInverse
    <3> QED
        BY <2>1, <2>4, <3>1 DEF Clean
  <2> QED
      BY <1>1, <2>1, <2>2, <2>3, <2>4
      DEF Locked, Call, GetInstance, InitHostLocked, WritePid, KillHost, KillDevice,
          InitDeviceLocked, MapCommand, UnmapCommand, UnmapAllCommand
<1>2. CASE (\E p \in Procs: ProcessEnds(p)) \/ (\E g \in Groups: GroupEnds(g))
  <2>1. PICK procs \in SUBSET Procs: Ends(procs)
      BY <1>2, EndsAre
  <2>2. /\ \A q \in Procs \ procs: d2h'[q] = d2h[q] /\ h2d'[q] = h2d[q]
        /\ \A q \in procs: /\ \A k \in Keys: d2h'[q][k] = Nothing
                           /\ \A h \in HostPorts: h2d'[q][h] = NoKey
      BY <2>1 DEF Ends, Gone, NoMap, NoHost
  <2>3. ASSUME NEW q \in Procs, NEW k \in Keys, NEW h \in HostPorts
        PROVE  d2h'[q][k] = h <=> h2d'[q][h] = k
      BY <2>2, PortsAssumption DEF InverseInv
  <2> QED
      BY <2>3 DEF InverseInv
<1>3. CASE UNCHANGED vars
    BY <1>0, <1>3, KeptMaps DEF vars
<1> QED
    BY <1>1, <1>2, <1>3 DEF Next

(* No process finds its maps in disagreement, in the lock or outside; and no    *)
(* unmap of an entry that is there raises.                                      *)
THEOREM InverseMaps ==
    ASSUME OnePortEach
    PROVE  Spec => []MapsAreInverse
<1>1. Init => InverseInv
    BY PortsAssumption DEF Init, InverseInv, NoMap, NoHost
<1>2. BaseInv /\ InverseInv /\ [Next]_vars => InverseInv'
    BY OnePortEach, StepInverse
<1>3. InverseInv => MapsAreInverse
    BY DEF InverseInv, MapsAreInverse
<1> QED
    BY <1>1, <1>2, <1>3, Base, PTL DEF Spec

--------------------------------------------------------------------------------
(* Leaks.                                                                       *)

(* Between the steps that the exceptions are for, what is forwarded is held. *)
LEMMA LeakKeeps ==
    ASSUME LeakInv, \A p \in Procs: pc[p] \notin {"recording", "unmapping"},
           \A k \in Keys: host'[k] \in {host[k], Nothing},
           excused \subseteq excused',
           \A p \in Procs, k \in Keys: d2h[p][k] # Nothing => d2h'[p][k] # Nothing
    PROVE  LeakInv'
<1> SUFFICES ASSUME NEW k \in Keys, host'[k] # Nothing
             PROVE  k \in excused' \/ \E p \in Procs: d2h'[p][k] # Nothing
    BY DEF LeakInv
<1>1. host[k] # Nothing
    OBVIOUS
<1>2. k \in excused \/ \E p \in Procs: d2h[p][k] # Nothing
    BY <1>1 DEF LeakInv
<1> QED
    BY <1>2

LEMMA StepLeak == OnePortEach /\ BaseInv /\ InverseInv /\ LeakInv /\ [Next]_vars => LeakInv'
<1> SUFFICES ASSUME OnePortEach, BaseInv, InverseInv, LeakInv, [Next]_vars PROVE LeakInv'
    OBVIOUS
<1>0. TypeOK /\ CallInv /\ HostInv
    BY DEF BaseInv
<1>1. ASSUME NEW p \in Procs, Call(p) PROVE LeakInv'
  <2>1. \A q \in Procs: pc[q] = "idle"
      BY <1>0, <1>1, NamesAssumption DEF Call, CallInv
  <2>2. UNCHANGED <<d2h, host, excused>>
      BY <1>1 DEF Call, maps
  <2> QED
      BY <2>1, <2>2, LeakKeeps
<1>2. ASSUME NEW p \in Procs, Locked(p) PROVE LeakInv'
  <2>1. pc[p] # "idle"
      BY <1>2 DEF Locked, At, GetInstance, InitHostLocked, WritePid, KillHost, KillDevice,
          InitDeviceLocked, MapCommand, Record, UnmapDevicePortLocked, UnmapCommand,
          UnmapAllCommand, Clean
  <2>2. /\ call[p].key \in Keys /\ call[p].port \in HostPorts /\ Device(p) \in Devices
        /\ \A q \in Procs: q # p => pc[q] = "idle"
      BY <1>0, <2>1, CallOf
  <2>3. CASE GetInstance(p) \/ WritePid(p) \/ KillDevice(p) \/ InitDeviceLocked(p)
    <3>1. UNCHANGED <<d2h, host, excused>> /\ pc[p] \notin {"recording", "unmapping"}
        BY <2>3 DEF GetInstance, WritePid, KillDevice, InitDeviceLocked, At, maps
    <3> QED
        BY <2>2, <3>1, LeakKeeps
  <2>4. CASE InitHostLocked(p) \/ KillHost(p)
    <3>1. /\ d2h' = d2h /\ excused \subseteq excused' /\ pc[p] \notin {"recording", "unmapping"}
          /\ \A k \in Keys: host'[k] \in {host[k], Nothing}
        BY <2>4 DEF InitHostLocked, KillHost, KillHostLocked, NoMap, At, maps
    <3> QED
        BY <2>2, <3>1, LeakKeeps
  <2>5. CASE MapCommand(p)
    <3>1. pc[p] = "mapping" /\ d2h' = d2h
        BY <2>5 DEF MapCommand, At, maps
    <3>2. CASE UNCHANGED <<host, excused>>
        BY <2>2, <3>1, <3>2, LeakKeeps
    <3>3. CASE ~UNCHANGED <<host, excused>>
      <4>1. /\ \A k \in Keys: k # call[p].key =>
                 host'[k] = host[k] /\ (k \in excused => k \in excused')
            /\ \/ call[p].key \in excused'
               \/ Goto(p, "recording")
          BY <1>0, <2>5, <3>3 DEF MapCommand, Forward, TypeOK
      <4>2. call[p].key \in excused' \/ (pc'[p] = "recording" /\ call'[p].key = call[p].key)
          BY <1>0, <4>1 DEF Goto, TypeOK
      <4>3. ASSUME NEW k \in Keys, host'[k] # Nothing, k # call[p].key
            PROVE  k \in excused' \/ \E q \in Procs: d2h'[q][k] # Nothing
          BY <2>2, <3>1, <4>1, <4>3 DEF LeakInv
      <4> QED
          BY <4>2, <4>3 DEF LeakInv
    <3> QED
        BY <3>2, <3>3
  <2>6. CASE Record(p)
    <3>1. /\ UNCHANGED <<host, excused>>
          /\ \A q \in Procs, k \in Keys:
               d2h'[q][k] = IF q = p /\ k = call[p].key THEN call[p].port ELSE d2h[q][k]
          /\ pc[p] = "recording"
        BY <2>6, RecordChange
    <3>2. d2h'[p][call[p].key] # Nothing
        BY <2>2, <3>1, PortsAssumption
    <3>3. ASSUME NEW k \in Keys, host'[k] # Nothing, k # call[p].key
          PROVE  k \in excused' \/ \E q \in Procs: d2h'[q][k] # Nothing
      <4>1. host[k] # Nothing
          BY <3>1, <3>3
      <4>2. k \in excused \/ \E q \in Procs: d2h[q][k] # Nothing
          BY <2>2, <3>1, <3>3, <4>1 DEF LeakInv
      <4> QED
          BY <3>1, <3>3, <4>2
    <3> QED
        BY <3>2, <3>3 DEF LeakInv
  <2>7. CASE UnmapDevicePortLocked(p)
    <3>1. pc[p] = "ready" /\ UNCHANGED <<host, excused>>
        BY <2>7 DEF UnmapDevicePortLocked, At
    <3>2. CASE d2h[p][call[p].key] = Nothing
      <4>1. d2h' = d2h
          BY <2>7, <3>2 DEF UnmapDevicePortLocked, maps
      <4> QED
          BY <2>2, <3>1, <4>1, LeakKeeps
    <3>3. CASE d2h[p][call[p].key] # Nothing
      <4>1. Delete(p, call[p].key)
          BY <2>7, <3>3 DEF UnmapDevicePortLocked
      <4>2. ~DeleteRaises(p, call[p].key)
          BY <1>0, <2>2, <3>3, <4>1, DeleteInverse
      <4>3. pc'[p] = "unmapping" /\ call' = call
          BY <1>0, <2>7, <3>3, <4>2 DEF UnmapDevicePortLocked, Goto, TypeOK
      <4>4. \A q \in Procs, j \in Keys:
              d2h'[q][j] = IF q = p /\ j = call[p].key THEN Nothing ELSE d2h[q][j]
          BY <1>0, <2>2, <3>3, <4>1, DeleteChange
      <4>5. ASSUME NEW k \in Keys, host'[k] # Nothing, k # call[p].key
            PROVE  k \in excused' \/ \E q \in Procs: d2h'[q][k] # Nothing
        <5>1. host[k] # Nothing
            BY <3>1, <4>5
        <5>2. k \in excused \/ \E q \in Procs: d2h[q][k] # Nothing
            BY <2>2, <3>1, <5>1 DEF LeakInv
        <5> QED
            BY <3>1, <4>4, <4>5, <5>2
      <4> QED
          BY <4>3, <4>5 DEF LeakInv
    <3> QED
        BY <3>2, <3>3
  <2>8. CASE UnmapCommand(p)
    <3>1. /\ d2h' = d2h /\ pc[p] = "unmapping"
          /\ \A k \in Keys: k # call[p].key =>
               host'[k] = host[k] /\ (k \in excused => k \in excused')
          /\ host'[call[p].key] = Nothing \/ call[p].key \in excused'
        BY <1>0, <2>2, <2>8 DEF UnmapCommand, At, maps, TypeOK
    <3>2. ASSUME NEW k \in Keys, host'[k] # Nothing, k # call[p].key
          PROVE  k \in excused' \/ \E q \in Procs: d2h'[q][k] # Nothing
        BY <2>2, <3>1, <3>2 DEF LeakInv
    <3> QED
        BY <3>1, <3>2 DEF LeakInv
  <2>9. CASE UnmapAllCommand(p)
    <3>1. d2h' = d2h /\ pc[p] = "ready"
        BY <2>9 DEF UnmapAllCommand, At, maps
    <3>2. \A k \in Keys:
            /\ k[1] = Device(p) => host'[k] = Nothing \/ k \in excused'
            /\ k[1] # Device(p) => host'[k] = host[k] /\ (k \in excused => k \in excused')
        BY <2>9 DEF UnmapAllCommand
    <3>3. ASSUME NEW k \in Keys, host'[k] # Nothing
          PROVE  k \in excused' \/ \E q \in Procs: d2h'[q][k] # Nothing
        BY <2>2, <3>1, <3>2, <3>3 DEF LeakInv
    <3> QED
        BY <3>3 DEF LeakInv
  <2>10. CASE Clean(p)
    <3>1. pc[p] = "cleaning" /\ UNCHANGED <<host, excused>>
        BY <2>10 DEF Clean, At
    <3>2. CASE UNCHANGED maps
        BY <2>2, <3>1, <3>2, LeakKeeps DEF maps
    <3>3. ASSUME NEW j \in Keys, j[1] = Device(p), d2h[p][j] # Nothing, Delete(p, j)
          PROVE  LeakInv'
      <4>1. host[j] = Nothing
          BY <1>0, <3>1, <3>3 DEF HostInv
      <4>2. \A q \in Procs, k \in Keys:
              d2h'[q][k] = IF q = p /\ k = j THEN Nothing ELSE d2h[q][k]
          BY <1>0, <3>3, DeleteChange
      <4>3. ASSUME NEW k \in Keys, host'[k] # Nothing
            PROVE  k \in excused' \/ \E q \in Procs: d2h'[q][k] # Nothing
        <5>1. host[k] # Nothing /\ k # j
            BY <3>1, <4>1, <4>3
        <5>2. k \in excused \/ \E q \in Procs: d2h[q][k] # Nothing
            BY <2>2, <3>1, <5>1 DEF LeakInv
        <5> QED
            BY <3>1, <4>2, <5>1, <5>2
      <4> QED
          BY <4>3 DEF LeakInv
    <3> QED
        BY <2>10, <3>2, <3>3 DEF Clean
  <2> QED
      BY <1>2, <2>3, <2>4, <2>5, <2>6, <2>7, <2>8, <2>9, <2>10 DEF Locked
<1>3. CASE (\E p \in Procs: ProcessEnds(p)) \/ (\E g \in Groups: GroupEnds(g))
  <2>1. PICK procs \in SUBSET Procs: Ends(procs)
      BY <1>3, EndsAre
  <2>2. /\ \A q \in Procs \ procs: pc'[q] = pc[q] /\ call'[q] = call[q] /\ d2h'[q] = d2h[q]
        /\ host' = host
        /\ excused' = excused \cup MappedBy(procs) \cup {k \in Keys: \E p \in procs: call[p].key = k}
      BY <1>0, <2>1, GoneChange DEF Ends, Gone
  <2>3. ASSUME NEW k \in Keys, host'[k] # Nothing, k \notin excused'
        PROVE  \/ \E q \in Procs: d2h'[q][k] # Nothing
               \/ \E q \in Procs: pc'[q] \in {"recording", "unmapping"} /\ call'[q].key = k
    <3>1. host[k] # Nothing /\ k \notin excused
        BY <2>2, <2>3
    <3>2. PICK q \in Procs: \/ d2h[q][k] # Nothing
                            \/ pc[q] \in {"recording", "unmapping"} /\ call[q].key = k
        BY <3>1 DEF LeakInv
    <3>3. q \notin procs
        BY <2>2, <2>3, <3>2 DEF MappedBy
    <3> QED
        BY <2>2, <3>2, <3>3
  <2> QED
      BY <2>3 DEF LeakInv
<1>4. CASE UNCHANGED vars
    BY <1>4 DEF vars, maps, LeakInv
<1> QED
    BY <1>1, <1>2, <1>3, <1>4 DEF Next

(* Whatever the daemon forwards is known to a process, or one of the commands   *)
(* about it failed or lost its process.                                         *)
THEOREM LeaksAreExcused ==
    ASSUME OnePortEach
    PROVE  Spec => []LeaksOnlyFromFailures
<1>1. Init => InverseInv /\ LeakInv
    BY PortsAssumption DEF Init, InverseInv, LeakInv, NoMap, NoHost
<1>2. BaseInv /\ InverseInv /\ LeakInv /\ [Next]_vars => InverseInv' /\ LeakInv'
    BY OnePortEach, StepInverse, StepLeak
<1>3. LeakInv => LeaksOnlyFromFailures
    BY DEF LeakInv, LeaksOnlyFromFailures
<1> QED
    BY <1>1, <1>2, <1>3, Base, PTL DEF Spec

--------------------------------------------------------------------------------
(* Devices and forwards of the others.  Hypothesis OwnDevices: two processes    *)
(* that map, unmap or kill the forwarder of one device tear down each other's   *)
(* state, since the sets and maps are each process's own.                       *)

LEMMA DevicesApart ==
    ASSUME OwnDevices, BaseInv, NEW p \in Procs, pc[p] # "idle", call[p].op # "KillHost",
           NEW q \in Procs, Device(p) \in initialized[q]
    PROVE  q = p
<1>1. <<p, call[p].op, call[p].key, call[p].port>> \in Requests
    BY CallOf DEF BaseInv
<1>2. PICK r \in Requests: r[1] = q /\ r[2] = "Map" /\ r[3][1] = Device(p)
    BY DEF BaseInv, HoldsRequested
<1> DEFINE s == <<p, call[p].op, call[p].key, call[p].port>>
<1>3. s \in Requests /\ s[1] = p /\ s[2] # "KillHost" /\ s[3][1] = Device(p)
    BY <1>1 DEF Device
<1> HIDE DEF s
<1> QED
    BY <1>2, <1>3 DEF OwnDevices

LEMMA HoldsApart ==
    ASSUME OwnDevices, BaseInv, NEW p \in Procs, pc[p] # "idle", call[p].op # "KillHost",
           NEW q \in Procs, NEW k \in Keys, k[1] = Device(p), d2h[q][k] # Nothing
    PROVE  q = p
<1>1. <<p, call[p].op, call[p].key, call[p].port>> \in Requests
    BY CallOf DEF BaseInv
<1> DEFINE s == <<p, call[p].op, call[p].key, call[p].port>>
           r == <<q, "Map", k, d2h[q][k]>>
<1>2. s \in Requests /\ s[1] = p /\ s[2] # "KillHost" /\ s[3][1] = Device(p)
    BY <1>1 DEF Device
<1>3. r \in Requests /\ r[1] = q /\ r[2] # "KillHost" /\ r[3][1] = Device(p)
    BY DEF BaseInv, HoldsRequested
<1> HIDE DEF r, s
<1> QED
    BY <1>2, <1>3 DEF OwnDevices

LEMMA KillsOwn ==
    ASSUME OwnDevices, BaseInv, InitializedRuns, NEW p \in Procs, pc[p] # "idle",
           call[p].op # "KillHost", KillDeviceLocked(p)
    PROVE  InitializedRuns'
<1> SUFFICES ASSUME NEW q \in Procs, NEW d \in initialized'[q] PROVE d \in devfwd'
    BY DEF InitializedRuns
<1>1. \A r \in Procs:
        initialized'[r] = IF r = p THEN initialized[r] \ {Device(p)} ELSE initialized[r]
    BY DEF KillDeviceLocked, BaseInv, TypeOK
<1>2. d \in initialized[q] /\ (q = p => d # Device(p))
    BY <1>1
<1>3. d # Device(p)
    BY <1>2, DevicesApart
<1>4. d \in devfwd
    BY <1>2 DEF InitializedRuns
<1> QED
    BY <1>3, <1>4 DEF KillDeviceLocked

LEMMA StepRuns == OwnDevices /\ BaseInv /\ InitializedRuns /\ [Next]_vars => InitializedRuns'
<1> SUFFICES ASSUME OwnDevices, BaseInv, InitializedRuns, [Next]_vars PROVE InitializedRuns'
    OBVIOUS
<1>1. CASE UNCHANGED <<initialized, devfwd>>
    BY <1>1 DEF InitializedRuns
<1>2. ASSUME NEW p \in Procs, Call(p) \/ Locked(p) PROVE InitializedRuns'
  <2>1. CASE KillDevice(p)
    <3>1. KillDeviceLocked(p)
        BY <2>1 DEF KillDevice
    <3>2. pc[p] # "idle"
        BY <2>1 DEF KillDevice, At
    <3>3. call[p].op # "KillHost"
        BY <2>1 DEF KillDevice, At, BaseInv, CallInv
    <3> QED
        BY <3>1, <3>2, <3>3, KillsOwn
  <2>2. CASE MapCommand(p)
    <3>1. pc[p] # "idle" /\ call[p].op # "KillHost"
        BY <2>2 DEF MapCommand, At, BaseInv, CallInv
    <3> QED
        BY <1>1, <2>2, <3>1, KillsOwn DEF MapCommand
  <2>3. CASE InitDeviceLocked(p)
    <3>1. pc[p] # "idle" /\ call[p].op # "KillHost"
        BY <2>3 DEF InitDeviceLocked, At
    <3>2. CASE devfwd' = devfwd \cup {Device(p)}
      <4>1. \A q \in Procs: initialized'[q] \subseteq initialized[q] \cup {Device(p)}
          BY <2>3 DEF InitDeviceLocked, BaseInv, TypeOK
      <4> QED
          BY <3>2, <4>1 DEF InitializedRuns
    <3>3. CASE /\ UNCHANGED initialized /\ Device(p) \notin initialized[p]
               /\ devfwd' = devfwd \ {Device(p)}
      <4>1. \A q \in Procs: Device(p) \notin initialized[q]
          BY <3>1, <3>3, DevicesApart
      <4> QED
          BY <3>3, <4>1 DEF InitializedRuns
    <3> QED
        BY <1>1, <2>3, <3>2, <3>3 DEF InitDeviceLocked
  <2> QED
      BY <1>1, <1>2, <2>1, <2>2, <2>3
      DEF Locked, Call, GetInstance, InitHostLocked, WritePid, KillHost, Record,
          UnmapDevicePortLocked, UnmapCommand, UnmapAllCommand, Clean
<1>3. CASE (\E p \in Procs: ProcessEnds(p)) \/ (\E g \in Groups: GroupEnds(g))
  <2>1. PICK procs \in SUBSET Procs: Ends(procs)
      BY <1>3, EndsAre
  <2>2. devfwd' = devfwd /\ \A q \in Procs: initialized'[q] \subseteq initialized[q]
      BY <2>1, GoneChange DEF Ends, Gone, BaseInv
  <2> QED
      BY <2>2 DEF InitializedRuns
<1> QED
    BY <1>1, <1>2, <1>3 DEF Next, vars

(* No process takes a device for initialized whose forwarder is gone.           *)
THEOREM RunningDevices ==
    ASSUME OwnDevices
    PROVE  Spec => []InitializedRuns
<1>1. Init => InitializedRuns
    BY DEF Init, InitializedRuns
<1>2. BaseInv /\ InitializedRuns /\ [Next]_vars => InitializedRuns'
    BY OwnDevices, StepRuns
<1> QED
    BY <1>1, <1>2, Base, PTL DEF Spec

--------------------------------------------------------------------------------
(* Who owns the daemon.                                                         *)

LEMMA OwnerKeeps ==
    ASSUME OwnerInv, UNCHANGED <<instance, owners>>,
           \A p \in Procs: pc'[p] \notin {"killing", "writing"}
    PROVE  OwnerInv'
    BY DEF OwnerInv, owners

LEMMA CallOwner ==
    ASSUME BaseInv, OwnerInv, NEW p \in Procs, Call(p)
    PROVE  OwnerInv'
<1>1. /\ UNCHANGED <<instance, pidfile, displaced>>
      /\ pc' = [pc EXCEPT ![p] = "locked"]
      /\ group' = group \/ (group[p] = Nobody /\ \E g \in Groups: group' = [group EXCEPT ![p] = g])
    BY DEF Call
<1>2. \A q \in Procs: pc'[q] \notin {"killing", "writing"}
  <2>1. \A q \in Procs: pc[q] = "idle"
      BY NamesAssumption DEF Call, BaseInv, CallInv
  <2> QED
      BY <1>1, <2>1 DEF BaseInv, TypeOK
<1>3. \A q \in Procs: group'[q] = group[q] \/ group[q] = Nobody
    BY <1>1 DEF BaseInv, TypeOK
<1>4. ASSUME NEW q \in Procs, instance'[q]
      PROVE  group'[q] # Nobody /\ (q \in displaced' \/ pidfile' = group'[q])
    BY <1>1, <1>3, <1>4 DEF OwnerInv
<1> QED
    BY <1>2, <1>4 DEF OwnerInv

LEMMA InstanceOwner ==
    ASSUME BaseInv, OwnerInv, NEW p \in Procs, GetInstance(p) \/ InitHostLocked(p) \/ WritePid(p)
    PROVE  OwnerInv'
<1>1. /\ pc[p] # "idle" /\ group[p] # Nobody /\ group' = group
      /\ \A q \in Procs: q # p => pc[q] = "idle"
    BY DEF GetInstance, InitHostLocked, WritePid, At, BaseInv, CallInv, owners
<1>2. \A q \in Procs: q # p => pc'[q] = "idle"
    BY <1>1 DEF GetInstance, InitHostLocked, WritePid, Goto, Leave, BaseInv, TypeOK
<1>3. CASE GetInstance(p)
  <2>1. UNCHANGED <<pidfile, displaced>>
      BY <1>3 DEF GetInstance, owners
  <2>2. /\ pc'[p] # "writing"
        /\ pc'[p] = "killing" => pidfile # group[p]
      BY <1>3 DEF GetInstance, Goto, Leave, BaseInv, TypeOK
  <2>3. ASSUME NEW q \in Procs, instance'[q]
        PROVE  group[q] # Nobody /\ (q \in displaced \/ pidfile = group[q])
    <3>1. instance[q] \/ (q = p /\ pidfile = group[p])
        BY <1>3, <2>3 DEF GetInstance, BaseInv, TypeOK
    <3> QED
        BY <1>1, <3>1 DEF OwnerInv
  <2> QED
      BY <1>1, <1>2, <2>1, <2>2, <2>3 DEF OwnerInv
<1>4. CASE InitHostLocked(p)
  <2>1. pc[p] = "killing" /\ UNCHANGED <<instance, pidfile>>
      BY <1>4 DEF InitHostLocked, At
  <2>2. pidfile # group[p]
      BY <2>1 DEF OwnerInv
  <2>3. \/ /\ pc'[p] \in {"writing", "idle"}
           /\ displaced' = displaced \cup {q \in Procs: instance[q] /\ group[q] # group[p]}
        \/ pc'[p] = "idle" /\ displaced' = displaced
      BY <1>4 DEF InitHostLocked, Goto, Leave, BaseInv, TypeOK
  <2>4. ASSUME NEW q \in Procs, instance[q], pc'[p] = "writing"
        PROVE  q \in displaced'
    <3>1. q \in displaced \/ pidfile = group[q]
        BY <2>4 DEF OwnerInv
    <3> QED
        BY <2>2, <2>3, <2>4, <3>1
  <2>5. ASSUME NEW q \in Procs, instance[q]
        PROVE  group[q] # Nobody /\ (q \in displaced' \/ pidfile = group[q])
      BY <2>3, <2>5 DEF OwnerInv
  <2> QED
      BY <1>1, <1>2, <2>1, <2>2, <2>3, <2>4, <2>5 DEF OwnerInv
<1>5. CASE WritePid(p)
  <2>1. /\ pc[p] = "writing" /\ pidfile' = group[p] /\ displaced' = displaced
        /\ pc'[p] = "ready"
      BY <1>5 DEF WritePid, At, Goto, BaseInv, TypeOK
  <2>2. ASSUME NEW q \in Procs, instance'[q]
        PROVE  group[q] # Nobody /\ (q \in displaced' \/ pidfile' = group[q])
    <3>1. q = p \/ instance[q]
        BY <1>5, <2>2 DEF WritePid, BaseInv, TypeOK
    <3> QED
        BY <1>1, <2>1, <3>1 DEF OwnerInv
  <2> QED
      BY <1>1, <1>2, <2>1, <2>2 DEF OwnerInv
<1> QED
    BY <1>3, <1>4, <1>5

LEMMA OutsideOwner ==
    ASSUME BaseInv, OwnerInv, NEW p \in Procs, pc[p] # "idle", UNCHANGED <<instance, owners>>,
           \/ Leave(p)
           \/ \E place \in {"mapping", "recording", "unmapping", "cleaning", "killing device"}:
                pc' = [pc EXCEPT ![p] = place]
           \/ pc' = pc /\ pc[p] = "cleaning"
    PROVE  OwnerInv'
<1>1. \A q \in Procs: q # p => pc[q] = "idle"
    BY DEF BaseInv, CallInv
<1>2. \A q \in Procs: pc'[q] \notin {"killing", "writing"}
    BY <1>1 DEF Leave, BaseInv, TypeOK
<1> QED
    BY <1>2, OwnerKeeps

LEMMA StepOwner == BaseInv /\ OwnerInv /\ [Next]_vars => OwnerInv'
<1> SUFFICES ASSUME BaseInv, OwnerInv, [Next]_vars PROVE OwnerInv'
    OBVIOUS
<1>1. ASSUME NEW p \in Procs, Call(p) \/ Locked(p) PROVE OwnerInv'
  <2>1. CASE Call(p)
      BY <2>1, CallOwner
  <2>2. CASE GetInstance(p) \/ InitHostLocked(p) \/ WritePid(p)
      BY <2>2, InstanceOwner
  <2>3. CASE KillHost(p) \/ KillDevice(p)
      BY <2>3, OutsideOwner DEF KillHost, KillDevice, At
  <2>4. CASE InitDeviceLocked(p) \/ MapCommand(p) \/ Record(p)
      BY <2>4, OutsideOwner DEF InitDeviceLocked, MapCommand, Record, At, Goto
  <2>5. CASE UnmapDevicePortLocked(p) \/ UnmapCommand(p) \/ UnmapAllCommand(p)
      BY <2>5, OutsideOwner DEF UnmapDevicePortLocked, UnmapCommand, UnmapAllCommand, At, Goto
  <2>6. CASE Clean(p)
      BY <2>6, OutsideOwner DEF Clean, At, Goto
  <2> QED
      BY <1>1, <2>1, <2>2, <2>3, <2>4, <2>5, <2>6 DEF Locked
<1>2. CASE (\E p \in Procs: ProcessEnds(p)) \/ (\E g \in Groups: GroupEnds(g))
  <2>1. PICK procs \in SUBSET Procs: Ends(procs)
      BY <1>2, EndsAre
  <2>2. /\ \A q \in Procs \ procs: /\ group'[q] = group[q] /\ pc'[q] = pc[q]
                                   /\ instance'[q] = instance[q]
        /\ \A q \in procs: pc'[q] = "idle" /\ instance'[q] = FALSE
    <3>1. TypeOK /\ Gone(procs)
        BY <2>1 DEF Ends, BaseInv
    <3>2. ASSUME NEW q \in Procs \ procs
          PROVE  group'[q] = group[q] /\ pc'[q] = pc[q] /\ instance'[q] = instance[q]
        BY <3>1 DEF Gone, TypeOK
    <3>3. ASSUME NEW q \in procs PROVE pc'[q] = "idle" /\ instance'[q] = FALSE
        BY <3>1 DEF Gone
    <3> QED
        BY <3>2, <3>3
  <2>3. displaced' = displaced \ procs
      BY <2>1 DEF Ends, Gone
  <2>4. \/ pidfile' = pidfile
        \/ pidfile' = Nobody /\ \A q \in Procs \ procs: group[q] # pidfile
      BY <2>1 DEF Ends
  <2>5. ASSUME NEW q \in Procs, instance'[q]
        PROVE  group'[q] # Nobody /\ (q \in displaced' \/ pidfile' = group'[q])
      BY <2>2, <2>3, <2>4, <2>5 DEF OwnerInv
  <2>6. ASSUME NEW q \in Procs, pc'[q] \in {"killing", "writing"}
        PROVE  pidfile' # group'[q]
    <3>1. q \notin procs /\ group'[q] = group[q] /\ pc'[q] = pc[q]
        BY <2>2, <2>6
    <3>2. group[q] # Nobody /\ pidfile # group[q]
        BY <2>6, <3>1 DEF OwnerInv, BaseInv, CallInv
    <3> QED
        BY <2>4, <3>1, <3>2
  <2>7. ASSUME NEW q \in Procs, pc'[q] = "writing", NEW r \in Procs, instance'[r]
        PROVE  r \in displaced'
      BY <2>2, <2>3, <2>7 DEF OwnerInv
  <2> QED
      BY <2>5, <2>6, <2>7 DEF OwnerInv
<1>3. CASE UNCHANGED vars
    BY <1>3 DEF vars, owners, OwnerInv
<1> QED
    BY <1>1, <1>2, <1>3 DEF Next

--------------------------------------------------------------------------------
(* What is held is forwarded.                                                   *)

(* Steps that leave the daemon alone, outside the two windows. *)
LEMMA HoldKeeps ==
    ASSUME HoldInv, \A p \in Procs: pc[p] \notin {"recording", "cleaning"},
           host' = host, excused \subseteq excused', displaced \subseteq displaced',
           \A q \in Procs, k \in Keys: d2h'[q][k] \in {d2h[q][k], Nothing},
           \A p \in Procs: pc'[p] = "unmapping" => d2h'[p][call'[p].key] = Nothing
    PROVE  HoldInv'
<1> SUFFICES ASSUME NEW p \in Procs, p \notin displaced', NEW k \in Keys, d2h'[p][k] # Nothing
             PROVE  host'[k] = d2h'[p][k] \/ k \in excused'
    BY DEF HoldInv
<1>1. d2h'[p][k] = d2h[p][k] /\ p \notin displaced
    OBVIOUS
<1>2. host[k] = d2h[p][k] \/ k \in excused
    BY <1>1 DEF HoldInv
<1> QED
    BY <1>1, <1>2

(* Steps of a process that no one outside the process notices. *)
LEMMA OthersHold ==
    ASSUME HoldInv, NEW p \in Procs, \A q \in Procs: q # p => pc[q] = "idle" /\ pc'[q] = "idle",
           displaced' = displaced,
           \A q \in Procs, k \in Keys: q # p => d2h'[q][k] = d2h[q][k],
           \A q \in Procs, k \in Keys: q # p /\ d2h[q][k] # Nothing =>
               host'[k] = host[k] /\ (k \in excused => k \in excused'),
           p \notin displaced => \A k \in Keys: d2h'[p][k] # Nothing =>
               \/ host'[k] = d2h'[p][k]
               \/ k \in excused'
               \/ pc'[p] = "recording" /\ call'[p].key = k
               \/ pc'[p] = "cleaning" /\ k[1] = Device(p)',
           pc'[p] = "unmapping" => d2h'[p][call'[p].key] = Nothing
    PROVE  HoldInv'
<1>1. ASSUME NEW q \in Procs, q # p, q \notin displaced, NEW k \in Keys, d2h'[q][k] # Nothing
      PROVE  host'[k] = d2h'[q][k] \/ k \in excused'
  <2>1. d2h[q][k] = d2h'[q][k] /\ d2h[q][k] # Nothing /\ pc[q] = "idle"
      BY <1>1
  <2>2. host[k] = d2h[q][k] \/ k \in excused
      BY <1>1, <2>1 DEF HoldInv
  <2> QED
      BY <1>1, <2>1, <2>2
<1> QED
    BY <1>1 DEF HoldInv

LEMMA MapHold ==
    ASSUME OwnDevices, BaseInv, HoldInv, NEW p \in Procs, MapCommand(p) \/ Record(p)
    PROVE  HoldInv'
<1> DEFINE key == call[p].key
<1>1. /\ pc[p] \in {"mapping", "recording"} /\ call[p].op = "Map"
      /\ TypeOK /\ CallInv /\ HostInv
    BY DEF MapCommand, Record, At, BaseInv, CallInv
<1>2. /\ key \in Keys /\ key[1] = Device(p) /\ call[p].port \in HostPorts
      /\ \A q \in Procs: q # p => pc[q] = "idle"
    BY <1>1, CallOf DEF Device
<1>3. \A q \in Procs: q # p => d2h[q][key] = Nothing
    BY <1>1, <1>2, HoldsApart
<1>4. /\ \A q \in Procs: q # p => pc'[q] = "idle"
      /\ pc'[p] \in {"recording", "mapping", "idle"}
  <2>1. \E place \in {"recording", "mapping", "idle"}: pc' = [pc EXCEPT ![p] = place]
    <3>1. CASE MapCommand(p)
        BY <3>1 DEF MapCommand, Goto, Leave
    <3>2. CASE Record(p)
        BY <3>2 DEF Record, Leave
    <3> QED
        BY <3>1, <3>2
  <2>2. DOMAIN pc = Procs
      BY <1>1 DEF TypeOK
  <2> QED
      BY <1>2, <2>1, <2>2
<1>5. CASE MapCommand(p)
  <2>1. pc[p] = "mapping" /\ UNCHANGED <<d2h, displaced>>
      BY <1>5 DEF MapCommand, At, maps, owners
  <2>2. /\ \A k \in Keys: k # key => host'[k] = host[k] /\ (k \in excused => k \in excused')
        /\ \/ key \in excused'
           \/ pc'[p] = "recording" /\ call'[p].key = key
           \/ host' = host /\ excused' = excused
    <3>1. CASE Forward(p) /\ excused' = excused \ {key} /\ Goto(p, "recording")
        BY <1>1, <1>2, <3>1 DEF Forward, Goto, TypeOK
    <3>2. CASE (Forward(p) \/ UNCHANGED host) /\ excused' = excused \cup {key}
        BY <1>1, <1>2, <3>2 DEF Forward, TypeOK
    <3>3. CASE UNCHANGED <<host, excused>>
        BY <3>3
    <3> QED
        BY <1>5, <3>1, <3>2, <3>3 DEF MapCommand
  <2>3. ASSUME p \notin displaced, NEW k \in Keys, d2h'[p][k] # Nothing
        PROVE  \/ host'[k] = d2h'[p][k]
               \/ k \in excused'
               \/ pc'[p] = "recording" /\ call'[p].key = k
    <3>1. host[k] = d2h[p][k] \/ k \in excused
        BY <2>1, <2>3 DEF HoldInv
    <3> QED
        BY <2>1, <2>2, <3>1
  <2>4. \A q \in Procs, k \in Keys: q # p /\ d2h[q][k] # Nothing =>
            host'[k] = host[k] /\ (k \in excused => k \in excused')
      BY <1>3, <2>2
  <2> QED
      BY <1>2, <1>4, <2>1, <2>3, <2>4, OthersHold
<1>6. CASE Record(p)
  <2>1. /\ pc[p] = "recording" /\ UNCHANGED <<host, excused, owners>>
        /\ \A q \in Procs, k \in Keys:
             d2h'[q][k] = IF q = p /\ k = key THEN call[p].port ELSE d2h[q][k]
      BY <1>6, RecordChange
  <2>2. host[key] = call[p].port
      BY <1>1, <2>1 DEF HostInv
  <2>3. ASSUME p \notin displaced, NEW k \in Keys, d2h'[p][k] # Nothing
        PROVE  host'[k] = d2h'[p][k] \/ k \in excused'
    <3>1. CASE k = key
        BY <2>1, <2>2, <3>1
    <3>2. CASE k # key
      <4>1. d2h'[p][k] = d2h[p][k]
          BY <2>1, <3>2
      <4>2. host[k] = d2h[p][k] \/ k \in excused
          BY <2>1, <2>3, <3>2, <4>1 DEF HoldInv
      <4> QED
          BY <2>1, <4>1, <4>2
    <3> QED
        BY <3>1, <3>2
  <2>4. pc'[p] # "unmapping" /\ displaced' = displaced
      BY <1>4, <2>1 DEF owners
  <2> QED
      BY <1>2, <1>4, <2>1, <2>3, <2>4, OthersHold
<1> QED
    BY <1>5, <1>6

LEMMA UnmapHold ==
    ASSUME OwnDevices, BaseInv, HoldInv, NEW p \in Procs,
           UnmapDevicePortLocked(p) \/ UnmapCommand(p)
    PROVE  HoldInv'
<1> DEFINE key == call[p].key
<1>1. /\ pc[p] \in {"ready", "unmapping"} /\ call[p].op = "UnmapDevicePort"
      /\ TypeOK /\ CallInv
    BY DEF UnmapDevicePortLocked, UnmapCommand, At, BaseInv, CallInv
<1>2. /\ key \in Keys /\ key[1] = Device(p)
      /\ \A q \in Procs: q # p => pc[q] = "idle"
    BY <1>1, CallOf DEF Device
<1>3. \A q \in Procs: q # p => pc'[q] = "idle"
    BY <1>1, <1>2 DEF UnmapDevicePortLocked, UnmapCommand, Goto, Leave, TypeOK
<1>4. CASE UnmapDevicePortLocked(p)
  <2>1. pc[p] = "ready" /\ UNCHANGED <<host, excused, owners>>
      BY <1>4 DEF UnmapDevicePortLocked, At
  <2>2. CASE d2h[p][key] = Nothing
    <3>1. d2h' = d2h /\ pc'[p] # "unmapping"
        BY <1>1, <1>4, <2>2 DEF UnmapDevicePortLocked, Leave, maps, TypeOK
    <3> QED
        BY <1>2, <1>3, <2>1, <3>1, HoldKeeps DEF owners
  <2>3. CASE d2h[p][key] # Nothing
    <3>1. \A q \in Procs, j \in Keys:
            d2h'[q][j] = IF q = p /\ j = key THEN Nothing ELSE d2h[q][j]
        BY <1>1, <1>2, <1>4, <2>3, DeleteChange DEF UnmapDevicePortLocked
    <3>2. pc'[p] = "unmapping" => call'[p].key = key
        BY <1>1, <1>4, <2>3 DEF UnmapDevicePortLocked, Goto, Leave, TypeOK
    <3> QED
        BY <1>2, <1>3, <2>1, <3>1, <3>2, HoldKeeps DEF owners
  <2> QED
      BY <2>2, <2>3
<1>5. CASE UnmapCommand(p)
  <2>1. pc[p] = "unmapping" /\ Leave(p) /\ UNCHANGED <<d2h, displaced>>
      BY <1>5 DEF UnmapCommand, At, maps, owners
  <2>2. \A q \in Procs: d2h[q][key] = Nothing
    <3>1. d2h[p][key] = Nothing
        BY <2>1 DEF HoldInv
    <3>2. \A q \in Procs: q # p => d2h[q][key] = Nothing
        BY <1>1, <1>2, HoldsApart
    <3> QED
        BY <3>1, <3>2
  <2>3. \A k \in Keys: k # key => host'[k] = host[k] /\ (k \in excused => k \in excused')
      BY <1>1, <1>2, <1>5 DEF UnmapCommand, TypeOK
  <2>4. ASSUME p \notin displaced, NEW k \in Keys, d2h'[p][k] # Nothing
        PROVE  host'[k] = d2h'[p][k] \/ k \in excused'
    <3>1. k # key /\ d2h'[p][k] = d2h[p][k]
        BY <2>1, <2>2, <2>4
    <3>2. host[k] = d2h[p][k] \/ k \in excused
        BY <2>1, <2>4, <3>1 DEF HoldInv
    <3> QED
        BY <2>3, <3>1, <3>2
  <2>5. pc'[p] = "idle"
      BY <1>1, <2>1 DEF Leave, TypeOK
  <2>6. \A q \in Procs, k \in Keys: q # p /\ d2h[q][k] # Nothing =>
            host'[k] = host[k] /\ (k \in excused => k \in excused')
      BY <2>2, <2>3
  <2> QED
      BY <1>2, <1>3, <2>1, <2>4, <2>5, <2>6, OthersHold
<1> QED
    BY <1>4, <1>5

LEMMA UnmapAllHold ==
    ASSUME OwnDevices, BaseInv, InverseInv, HoldInv, NEW p \in Procs,
           UnmapAllCommand(p) \/ Clean(p)
    PROVE  HoldInv'
<1>1. /\ pc[p] \in {"ready", "cleaning"} /\ call[p].op = "UnmapAllDevicePorts"
      /\ TypeOK /\ CallInv
    BY DEF UnmapAllCommand, Clean, At, BaseInv, CallInv
<1>2. \A q \in Procs: q # p => pc[q] = "idle"
    BY <1>1, CallOf
<1>3. \A q \in Procs, k \in Keys: q # p /\ k[1] = Device(p) => d2h[q][k] = Nothing
    BY <1>1, HoldsApart
<1>4. CASE UnmapAllCommand(p)
  <2>1. /\ pc[p] = "ready" /\ UNCHANGED <<d2h, displaced>>
        /\ \A q \in Procs: q # p => pc'[q] = "idle"
        /\ pc'[p] # "unmapping"
      BY <1>1, <1>2, <1>4 DEF UnmapAllCommand, At, maps, owners, Goto, Leave, TypeOK
  <2>2. \A k \in Keys: k[1] # Device(p) =>
            host'[k] = host[k] /\ (k \in excused => k \in excused')
      BY <1>4 DEF UnmapAllCommand
  <2>3. \/ pc'[p] = "cleaning" /\ Device(p)' = Device(p)
        \/ \A k \in Keys: k[1] = Device(p) => k \in excused'
      BY <1>1, <1>4 DEF UnmapAllCommand, Goto, Device, TypeOK
  <2>4. ASSUME p \notin displaced, NEW k \in Keys, d2h'[p][k] # Nothing
        PROVE  \/ host'[k] = d2h'[p][k]
               \/ k \in excused'
               \/ pc'[p] = "cleaning" /\ k[1] = Device(p)'
    <3>1. host[k] = d2h[p][k] \/ k \in excused
        BY <2>1, <2>4 DEF HoldInv
    <3> QED
        BY <2>1, <2>2, <2>3, <3>1
  <2>5. \A q \in Procs, k \in Keys: q # p /\ d2h[q][k] # Nothing =>
            host'[k] = host[k] /\ (k \in excused => k \in excused')
      BY <1>3, <2>2
  <2> QED
      BY <1>2, <2>1, <2>4, <2>5, OthersHold
<1>5. CASE Clean(p)
  <2>1. /\ pc[p] = "cleaning" /\ UNCHANGED <<host, excused, displaced>>
      BY <1>5 DEF Clean, At, owners
  <2>2. ASSUME Goto(p, "killing device"), UNCHANGED maps,
               {k \in Keys: k[1] = Device(p) /\ d2h[p][k] # Nothing} = {}
        PROVE  HoldInv'
    <3>1. /\ \A q \in Procs: q # p => pc'[q] = "idle"
          /\ pc'[p] = "killing device" /\ d2h' = d2h
        BY <1>1, <1>2, <2>2 DEF Goto, maps, TypeOK
    <3>2. ASSUME p \notin displaced, NEW k \in Keys, d2h'[p][k] # Nothing
          PROVE  host'[k] = d2h'[p][k] \/ k \in excused'
      <4>1. k[1] # Device(p)
          BY <2>2, <3>1, <3>2
      <4> QED
          BY <2>1, <3>1, <3>2, <4>1 DEF HoldInv
    <3> QED
        BY <1>2, <2>1, <3>1, <3>2, OthersHold
  <2>3. ASSUME NEW j \in Keys, d2h[p][j] # Nothing, Delete(p, j),
               IF DeleteRaises(p, j) THEN Leave(p) ELSE UNCHANGED <<lock, pc, call>>
        PROVE  HoldInv'
    <3>1. UNCHANGED <<lock, pc, call>>
        BY <1>1, <2>3, DeleteInverse
    <3>2. \A q \in Procs, k \in Keys:
            d2h'[q][k] = IF q = p /\ k = j THEN Nothing ELSE d2h[q][k]
        BY <1>1, <2>3, DeleteChange
    <3>3. ASSUME p \notin displaced, NEW k \in Keys, d2h'[p][k] # Nothing
          PROVE  \/ host'[k] = d2h'[p][k]
                 \/ k \in excused'
                 \/ pc'[p] = "cleaning" /\ k[1] = Device(p)'
      <4>1. d2h'[p][k] = d2h[p][k]
          BY <3>2, <3>3
      <4>2. host[k] = d2h[p][k] \/ k \in excused \/ k[1] = Device(p)
          BY <2>1, <3>3, <4>1 DEF HoldInv
      <4> QED
          BY <2>1, <3>1, <4>1, <4>2 DEF Device
    <3> QED
        BY <1>2, <2>1, <3>1, <3>2, <3>3, OthersHold
  <2> QED
      BY <1>5, <2>2, <2>3 DEF Clean
<1> QED
    BY <1>4, <1>5

LEMMA StepHold ==
    OwnDevices /\ BaseInv /\ InverseInv /\ OwnerInv /\ HoldInv /\ [Next]_vars => HoldInv'
<1> SUFFICES ASSUME OwnDevices, BaseInv, InverseInv, OwnerInv, HoldInv, [Next]_vars
             PROVE  HoldInv'
    OBVIOUS
<1>0. TypeOK /\ CallInv
    BY DEF BaseInv
<1>1. ASSUME NEW p \in Procs, Call(p) PROVE HoldInv'
  <2>1. \A q \in Procs: pc[q] = "idle"
      BY <1>0, <1>1, NamesAssumption DEF Call, CallInv
  <2>2. /\ UNCHANGED <<d2h, host, excused, displaced>>
        /\ \A q \in Procs: pc'[q] # "unmapping"
      BY <1>0, <1>1, <2>1 DEF Call, maps, TypeOK
  <2> QED
      BY <2>1, <2>2, HoldKeeps
<1>2. ASSUME NEW p \in Procs, Locked(p) PROVE HoldInv'
  <2>1. pc[p] # "idle"
      BY <1>2 DEF Locked, At, GetInstance, InitHostLocked, WritePid, KillHost, KillDevice,
          InitDeviceLocked, MapCommand, Record, UnmapDevicePortLocked, UnmapCommand,
          UnmapAllCommand, Clean
  <2>2. \A q \in Procs: q # p => pc[q] = "idle"
      BY <1>0, <2>1, CallOf
  <2>3. CASE GetInstance(p) \/ WritePid(p) \/ KillDevice(p) \/ InitDeviceLocked(p)
    <3>1. /\ UNCHANGED <<d2h, host, excused, displaced>>
          /\ pc[p] \notin {"recording", "cleaning"}
        BY <2>3 DEF GetInstance, WritePid, KillDevice, InitDeviceLocked, At, maps, owners
    <3>2. \A q \in Procs: pc'[q] # "unmapping"
        BY <1>0, <2>2, <2>3
        DEF GetInstance, WritePid, KillDevice, InitDeviceLocked, Goto, Leave, TypeOK
    <3> QED
        BY <2>2, <3>1, <3>2, HoldKeeps
  <2>4. CASE InitHostLocked(p)
    <3>1. pc[p] = "killing" /\ UNCHANGED <<d2h, excused>>
        BY <2>4 DEF InitHostLocked, At, maps
    <3>2. \A q \in Procs: pc'[q] # "unmapping"
        BY <1>0, <2>2, <2>4 DEF InitHostLocked, Goto, Leave, TypeOK
    <3>3. CASE UNCHANGED <<host, displaced>>
        BY <2>2, <3>1, <3>2, <3>3, HoldKeeps
    <3>4. CASE displaced' = displaced \cup {q \in Procs: instance[q] /\ group[q] # group[p]}
      <4>1. ASSUME NEW q \in Procs, NEW k \in Keys, d2h'[q][k] # Nothing
            PROVE  q \in displaced'
        <5>1. instance[q]
            BY <3>1, <4>1 DEF BaseInv, HoldsRequested
        <5>2. q \in displaced \/ pidfile = group[q]
            BY <5>1 DEF OwnerInv
        <5>3. pidfile # group[p]
            BY <3>1 DEF OwnerInv
        <5> QED
            BY <3>4, <5>1, <5>2, <5>3
      <4> QED
          BY <3>2, <4>1 DEF HoldInv
    <3> QED
        BY <2>4, <3>3, <3>4 DEF InitHostLocked
  <2>5. CASE KillHost(p)
    <3>1. /\ UNCHANGED <<d2h, displaced>> /\ pc[p] = "ready"
          /\ \A q \in Procs: pc'[q] # "unmapping"
        BY <1>0, <2>2, <2>5 DEF KillHost, At, maps, owners, Leave, TypeOK
    <3>2. CASE UNCHANGED <<host, excused>>
        BY <2>2, <3>1, <3>2, HoldKeeps
    <3>3. CASE excused' = excused \cup MappedBy(Procs)
      <4>1. ASSUME NEW q \in Procs, NEW k \in Keys, d2h'[q][k] # Nothing
            PROVE  k \in excused'
          BY <3>1, <3>3, <4>1 DEF MappedBy
      <4> QED
          BY <3>1, <4>1 DEF HoldInv
    <3> QED
        BY <2>5, <3>2, <3>3 DEF KillHost
  <2>6. CASE MapCommand(p) \/ Record(p)
      BY <2>6, MapHold
  <2>7. CASE UnmapDevicePortLocked(p) \/ UnmapCommand(p)
      BY <2>7, UnmapHold
  <2>8. CASE UnmapAllCommand(p) \/ Clean(p)
      BY <2>8, UnmapAllHold
  <2> QED
      BY <1>2, <2>3, <2>4, <2>5, <2>6, <2>7, <2>8 DEF Locked
<1>3. CASE (\E p \in Procs: ProcessEnds(p)) \/ (\E g \in Groups: GroupEnds(g))
  <2>1. PICK procs \in SUBSET Procs: Ends(procs)
      BY <1>3, EndsAre
  <2>2. /\ \A q \in Procs \ procs: pc'[q] = pc[q] /\ call'[q] = call[q] /\ d2h'[q] = d2h[q]
        /\ \A q \in procs: pc'[q] = "idle" /\ \A k \in Keys: d2h'[q][k] = Nothing
        /\ host' = host /\ excused \subseteq excused' /\ displaced' = displaced \ procs
      BY <1>0, <2>1, GoneChange DEF Ends, Gone
  <2>3. ASSUME NEW q \in Procs, pc'[q] = "unmapping"
        PROVE  d2h'[q][call'[q].key] = Nothing
      BY <2>2, <2>3 DEF HoldInv
  <2>4. ASSUME NEW q \in Procs \ displaced', NEW k \in Keys, d2h'[q][k] # Nothing
        PROVE  \/ host'[k] = d2h'[q][k]
               \/ k \in excused'
               \/ pc'[q] = "recording" /\ call'[q].key = k
               \/ pc'[q] = "cleaning" /\ k[1] = Device(q)'
    <3>1. q \in Procs \ procs /\ q \notin displaced
        BY <2>2, <2>4
    <3>2. d2h[q][k] # Nothing /\ d2h[q][k] = d2h'[q][k]
        BY <2>2, <2>4, <3>1
    <3>3. \/ host[k] = d2h[q][k]
          \/ k \in excused
          \/ pc[q] = "recording" /\ call[q].key = k
          \/ pc[q] = "cleaning" /\ k[1] = Device(q)
        BY <3>1, <3>2 DEF HoldInv
    <3> QED
        BY <2>2, <3>1, <3>2, <3>3 DEF Device
  <2> QED
      BY <2>3, <2>4 DEF HoldInv
<1>4. CASE UNCHANGED vars
    BY <1>4 DEF vars, maps, owners, HoldInv, Device
<1> QED
    BY <1>1, <1>2, <1>3, <1>4 DEF Next

(* What a process believes forwarded is forwarded: only a failed command, a     *)
(* KillHost or the takeover by another group undoes it, never a sibling.        *)
THEOREM ForwardsAreHeld ==
    ASSUME OnePortEach, OwnDevices
    PROVE  Spec => []ForwardsHold
<1>1. Init => InverseInv /\ OwnerInv /\ HoldInv
    BY PortsAssumption DEF Init, InverseInv, OwnerInv, HoldInv, NoMap, NoHost
<1>2. BaseInv /\ InverseInv /\ OwnerInv /\ HoldInv /\ [Next]_vars
        => InverseInv' /\ OwnerInv' /\ HoldInv'
    BY OnePortEach, OwnDevices, StepInverse, StepOwner, StepHold
<1>3. BaseInv /\ HoldInv => ForwardsHold
  <2> SUFFICES ASSUME BaseInv, HoldInv, NEW p \in Procs, lock # p, p \notin displaced,
                      NEW k \in Keys, d2h[p][k] # Nothing
               PROVE  host[k] = d2h[p][k] \/ k \in excused
      BY DEF ForwardsHold
  <2>1. pc[p] = "idle"
      BY DEF BaseInv, CallInv
  <2> QED
      BY <2>1 DEF HoldInv
<1> QED
    BY <1>1, <1>2, <1>3, Base, PTL DEF Spec

--------------------------------------------------------------------------------
(* DeviceProps.  What a call is about, by where it is.                          *)
OnCourse(c) == /\ c.pc \in {"reboot", "clear", "wait"} <=> c.op = "reboot"
               /\ c.pc \in {"set", "drop"} => c.op = "set"

CallsOnCourse == \A t \in PropThreads : OnCourse(calls[t])

(* What a thread got is the property while it is marked as fresh.               *)
FreshIsIt == \A t \in PropThreads : calls[t].fresh => calls[t].got = prop

(* So is what is in the cache, unless the live thread is about to drop it; and  *)
(* while it waits for the device to reboot, nothing is stored.                  *)
ReadIsIt == source = "read" /\ calls["live"].pc \notin {"drop", "clear"} => props = prop

NoneAwaited == calls["live"].pc = "wait" /\ source = "read" =>
                   ~rebooting /\ calls["late"].op # "reboot"

DroppedIsEmpty == source = "dropped" => props = Empty

PropsInv == PropsTypeOK /\ CallsOnCourse /\ FreshIsIt /\ ReadIsIt /\ NoneAwaited /\ DroppedIsEmpty

(* A call that ends, or begins again, has read nothing.                         *)
LEMMA AgainProps == \A c \in PropCalls :
    /\ AgainProp(c) \in PropCalls /\ ~AgainProp(c).fresh /\ OnCourse(AgainProp(c))
    /\ AgainProp(c).pc \notin {"drop", "clear", "wait"} /\ AgainProp(c).op \in {c.op, "none"}
<1> TAKE c \in PropCalls
<1>i. Resting \in PropCalls /\ Resting.fresh = FALSE /\ Resting.pc = "idle" /\ Resting.op = "none"
  BY DEF Resting, PropCalls
<1>1. CASE attempt > PropRetries
  BY <1>i, <1>1 DEF AgainProp, OnCourse
<1>2. CASE ~(attempt > PropRetries)
  <2>1. AgainProp(c) = [op |-> c.op, pc |-> First(c.op), value |-> c.value, check |-> c.check,
                    got |-> Empty, fresh |-> FALSE]
    BY <1>2 DEF AgainProp, Resting
  <2>2. /\ c.op \in {"none", "init", "get", "set", "reboot"} /\ c.value \in Values \cup {Empty}
        /\ c.check \in BOOLEAN
    BY DEF PropCalls
  <2>3. /\ First(c.op) \in {"idle", "init", "read", "set", "reboot"}
        /\ First(c.op) = "reboot" <=> c.op = "reboot"
        /\ First(c.op) = "set" <=> c.op = "set"
    BY <2>2 DEF First
  <2>4. AgainProp(c) \in PropCalls
    BY <2>1, <2>2, <2>3 DEF PropCalls
  <2>5. /\ AgainProp(c).op = c.op /\ AgainProp(c).pc = First(c.op) /\ AgainProp(c).fresh = FALSE
    BY <2>1
  <2> QED
    BY <2>3, <2>4, <2>5 DEF OnCourse
<1> QED
  BY <1>1, <1>2

LEMMA IdleProps == /\ Resting \in PropCalls /\ ~Resting.fresh /\ OnCourse(Resting)
                   /\ Resting.pc = "idle" /\ Resting.op = "none" /\ Resting.got = Empty
BY DEF Resting, PropCalls, OnCourse

LEMMA AgedCall == \A c \in PropCalls :
    LET d == [c EXCEPT !.fresh = FALSE] IN
    /\ d \in PropCalls /\ ~d.fresh /\ d.op = c.op /\ d.pc = c.pc /\ d.got = c.got
BY DEF PropCalls

(* A step of a thread that leaves the property alone; and one that changes it.  *)
CallsAre(t, c) ==
    /\ calls' \in [PropThreads -> PropCalls] /\ CallsOnCourse' /\ FreshIsIt'
    /\ calls'[t] = c
    /\ \A u \in PropThreads : u # t => calls'[u].pc = calls[u].pc /\ calls'[u].op = calls[u].op

LEMMA OneCall ==
    ASSUME calls \in [PropThreads -> PropCalls], CallsOnCourse, FreshIsIt, prop' = prop
    PROVE  \A t \in PropThreads, c \in PropCalls :
               /\ calls' = [calls EXCEPT ![t] = c]
               /\ OnCourse(c) /\ (c.fresh => c.got = prop)
               => CallsAre(t, c)
<1> SUFFICES ASSUME NEW t \in PropThreads, NEW c \in PropCalls,
                    calls' = [calls EXCEPT ![t] = c], OnCourse(c), c.fresh => c.got = prop
             PROVE  CallsAre(t, c)
  OBVIOUS
<1>1. calls' \in [PropThreads -> PropCalls] /\ calls'[t] = c
  OBVIOUS
<1>2. \A u \in PropThreads : u # t => calls'[u] = calls[u]
  OBVIOUS
<1>3. CallsOnCourse'
  BY <1>1, <1>2 DEF CallsOnCourse, OnCourse
<1>4. FreshIsIt'
  BY <1>1, <1>2 DEF FreshIsIt
<1> QED
  BY <1>1, <1>2, <1>3, <1>4 DEF CallsAre

LEMMA OneCallAged ==
    ASSUME calls \in [PropThreads -> PropCalls], CallsOnCourse
    PROVE  \A t \in PropThreads, c \in PropCalls :
               /\ calls' = [Aged EXCEPT ![t] = c]
               /\ OnCourse(c) /\ ~c.fresh
               => CallsAre(t, c)
<1> SUFFICES ASSUME NEW t \in PropThreads, NEW c \in PropCalls,
                    calls' = [Aged EXCEPT ![t] = c], OnCourse(c), ~c.fresh
             PROVE  CallsAre(t, c)
  OBVIOUS
<1>0. /\ Aged \in [PropThreads -> PropCalls]
      /\ \A u \in PropThreads : /\ ~Aged[u].fresh /\ Aged[u].op = calls[u].op
                                /\ Aged[u].pc = calls[u].pc
  BY AgedCall DEF Aged
<1>1. calls' \in [PropThreads -> PropCalls] /\ calls'[t] = c
  BY <1>0
<1>2. \A u \in PropThreads : u # t => calls'[u] = Aged[u]
  BY <1>0
<1>3. CallsOnCourse'
  BY <1>0, <1>1, <1>2 DEF CallsOnCourse, OnCourse
<1>4. FreshIsIt'
  BY <1>0, <1>1, <1>2 DEF FreshIsIt
<1> QED
  BY <1>0, <1>1, <1>2, <1>3, <1>4 DEF CallsAre

LEMMA AgedAll ==
    ASSUME calls \in [PropThreads -> PropCalls], CallsOnCourse, calls' = Aged
    PROVE  /\ calls' \in [PropThreads -> PropCalls] /\ CallsOnCourse' /\ FreshIsIt'
           /\ \A u \in PropThreads : calls'[u].pc = calls[u].pc /\ calls'[u].op = calls[u].op
<1>0. /\ Aged \in [PropThreads -> PropCalls]
      /\ \A u \in PropThreads : /\ ~Aged[u].fresh /\ Aged[u].op = calls[u].op
                                /\ Aged[u].pc = calls[u].pc
  BY AgedCall DEF Aged
<1> QED
  BY <1>0 DEF CallsOnCourse, OnCourse, FreshIsIt

(* The rest of the invariant, when the property and the cache stay as they are. *)
(* A live thread that is no longer about to drop the entry, or that waits for   *)
(* a reboot, is the business of the few actions that do that.                   *)
Live == calls["live"].pc

LEMMA Untouched ==
    ASSUME PropsInv, prop' = prop, props' = props, source' \in {source, "doubt"},
           Live' \notin {"drop", "clear"} => Live \notin {"drop", "clear"},
           Live' = "wait" => Live = "wait",
           Live' = "wait" /\ source' = "read" =>
               ~rebooting' /\ calls'["late"].op # "reboot"
    PROVE  ReadIsIt' /\ NoneAwaited' /\ DroppedIsEmpty'
BY DEF PropsInv, PropsTypeOK, ReadIsIt, NoneAwaited, DroppedIsEmpty, Live

(* The rest of the invariant, when a thread goes on from elsewhere, and leaves  *)
(* property and cache as they are; when it stores what it got; and when it goes *)
(* on to drop the entry.                                                        *)
Ending(t, c) ==
    CallsAre(t, c) /\ prop' = prop /\ rebooting' = rebooting /\ c.pc \notin {"drop", "clear", "wait"}

LEMMA Ended ==
    ASSUME PropsInv, props' = props, source' = source
    PROVE  \A t \in PropThreads, c \in PropCalls :
               Ending(t, c) /\ calls[t].pc \notin {"drop", "clear"}
               /\ (c.op = "reboot" => calls[t].op = "reboot")
               => ReadIsIt' /\ NoneAwaited' /\ DroppedIsEmpty'
<1> SUFFICES ASSUME NEW t \in PropThreads, NEW c \in PropCalls, Ending(t, c),
                    calls[t].pc \notin {"drop", "clear"},
                    c.op = "reboot" => calls[t].op = "reboot"
             PROVE  ReadIsIt' /\ NoneAwaited' /\ DroppedIsEmpty'
  OBVIOUS
<1>1. CASE t = "live"
  BY <1>1 DEF Ending, CallsAre, PropsInv, ReadIsIt, NoneAwaited, DroppedIsEmpty
<1>2. CASE t = "late"
  BY <1>2 DEF Ending, CallsAre, PropThreads, PropsInv, ReadIsIt, NoneAwaited, DroppedIsEmpty
<1> QED
  BY <1>1, <1>2 DEF PropThreads

LEMMA Stored ==
    ASSUME PropsInv
    PROVE  \A t \in PropThreads, c \in PropCalls :
               Ending(t, c) /\ Store(t) /\ calls[t].pc \in {"fill", "store"} /\ c.op # "reboot"
               => ReadIsIt' /\ NoneAwaited' /\ DroppedIsEmpty'
<1> SUFFICES ASSUME NEW t \in PropThreads, NEW c \in PropCalls, Ending(t, c), Store(t),
                    calls[t].pc \in {"fill", "store"}, c.op # "reboot"
             PROVE  ReadIsIt' /\ NoneAwaited' /\ DroppedIsEmpty'
  OBVIOUS
<1>1. source' \in {"read", "doubt"}
  BY DEF Store
<1>2. source' = "read" => props' = prop'
  BY DEF Store, Ending, PropsInv, FreshIsIt
<1>3. source' = "read" /\ rebooting => calls["live"].pc # "wait"
  BY DEF Store, Awaited
<1>4. calls'["live"].pc = "wait" => t = "late" /\ calls["live"].pc = "wait" /\ calls'["late"] = c
  BY DEF Ending, CallsAre, PropThreads
<1> QED
  BY <1>1, <1>2, <1>3, <1>4 DEF Ending, ReadIsIt, NoneAwaited, DroppedIsEmpty

LEMMA ToDrop ==
    ASSUME PropsInv, prop' = prop, rebooting' = rebooting, props' = props, source' = source
    PROVE  \A t \in PropThreads, c \in PropCalls :
               CallsAre(t, c) /\ c.pc = "drop" /\ c.op # "reboot"
               /\ calls[t].pc \notin {"drop", "clear"}
               => ReadIsIt' /\ NoneAwaited' /\ DroppedIsEmpty'
<1> SUFFICES ASSUME NEW t \in PropThreads, NEW c \in PropCalls, CallsAre(t, c), c.pc = "drop",
                    c.op # "reboot", calls[t].pc \notin {"drop", "clear"}
             PROVE  ReadIsIt' /\ NoneAwaited' /\ DroppedIsEmpty'
  OBVIOUS
<1>1. CASE t = "live"
  BY <1>1 DEF CallsAre, PropsInv, ReadIsIt, NoneAwaited, DroppedIsEmpty
<1>2. CASE t = "late"
  BY <1>2 DEF CallsAre, PropThreads, PropsInv, ReadIsIt, NoneAwaited, DroppedIsEmpty
<1> QED
  BY <1>1, <1>2 DEF PropThreads

LEMMA PropsInitInv == PropsInit => PropsInv
<1> SUFFICES ASSUME PropsInit PROVE PropsInv
  OBVIOUS
<1>1. \A t \in PropThreads : calls[t] = Resting
  BY DEF PropsInit
<1>2. PropsTypeOK
  <2>1. calls \in [PropThreads -> PropCalls]
    BY IdleProps DEF PropsInit
  <2>2. 1 \in 1..(PropRetries + 1) /\ 0 \in 0..MaxPropEvents
    BY PropsAssumption
  <2> QED
    BY <2>1, <2>2 DEF PropsInit, PropsTypeOK
<1>3. CallsOnCourse /\ FreshIsIt
  BY <1>1, IdleProps DEF CallsOnCourse, FreshIsIt
<1>4. ReadIsIt /\ NoneAwaited /\ DroppedIsEmpty
  BY DEF PropsInit, ReadIsIt, NoneAwaited, DroppedIsEmpty
<1> QED
  BY <1>2, <1>3, <1>4 DEF PropsInv

LEMMA PropsStep == PropsInv /\ [PropsNext]_propsVars => PropsInv'
<1> SUFFICES ASSUME PropsInv, [PropsNext]_propsVars PROVE PropsInv'
  OBVIOUS
<1> USE PropsAssumption
<1>t. /\ calls \in [PropThreads -> PropCalls] /\ CallsOnCourse /\ FreshIsIt
      /\ "live" \in PropThreads /\ "late" \in PropThreads
      /\ attempt \in 1..(PropRetries + 1) /\ PropRetries \in Nat
      /\ prop \in Values \cup {Empty} /\ props \in Values \cup {Empty}
      /\ rebooting \in BOOLEAN /\ hasToken \in BOOLEAN /\ source \in {"read", "dropped", "doubt"}
  BY DEF PropsInv, PropsTypeOK, PropThreads
<1>n. NextPropTry \in 1..(PropRetries + 1) /\ 1 \in 1..(PropRetries + 1)
  BY <1>t DEF NextPropTry
<1>e. PropsNext => propEvents' \in 0..MaxPropEvents
  BY DEF PropsNext, PropsInv, PropsTypeOK
<1>c. \A t \in PropThreads : calls[t] \in PropCalls /\ OnCourse(calls[t])
  BY <1>t DEF CallsOnCourse
<1> DEFINE Preserved == /\ calls' \in [PropThreads -> PropCalls]
                                /\ CallsOnCourse' /\ FreshIsIt'
                                /\ ReadIsIt' /\ NoneAwaited' /\ DroppedIsEmpty'
                                /\ attempt' \in 1..(PropRetries + 1)
                                /\ prop' \in Values \cup {Empty}
                                /\ props' \in Values \cup {Empty}
                                /\ rebooting' \in BOOLEAN /\ hasToken' \in BOOLEAN
                                /\ source' \in {"read", "dropped", "doubt"}
<1>b. ASSUME NEW c \in PropCalls, BeginProp(c), c.op \in {"init", "get", "set", "reboot"}, c.fresh = FALSE
      PROVE  Preserved
  <2> DEFINE d == [c EXCEPT !.pc = First(c.op)]
  <2>1. /\ First(c.op) \in {"init", "read", "set", "reboot"}
        /\ First(c.op) = "reboot" <=> c.op = "reboot"
        /\ First(c.op) = "set" <=> c.op = "set"
    BY <1>b DEF First
  <2>2. d \in PropCalls /\ OnCourse(d) /\ ~d.fresh /\ d.pc = First(c.op)
    BY <1>b, <2>1 DEF PropCalls, OnCourse
  <2>3. calls' = [calls EXCEPT !["live"] = d]
    BY <1>b DEF BeginProp
  <2>4. CallsAre("live", d)
    BY <1>b, <1>t, <2>2, <2>3, OneCall DEF BeginProp
  <2>5. Live' \notin {"drop", "clear", "wait"} /\ Live \notin {"drop", "clear", "wait"}
    BY <1>b, <2>4, <2>2, <2>1, IdleProps DEF CallsAre, Live, BeginProp, Unused
  <2> HIDE DEF d
  <2>6. ReadIsIt' /\ NoneAwaited' /\ DroppedIsEmpty'
    BY <1>b, <2>5, Untouched DEF BeginProp
  <2> QED
    BY <1>b, <1>t, <1>n, <2>4, <2>6 DEF CallsAre, BeginProp
<1>1. ASSUME NEW cache \in BOOLEAN, GetProp(cache) PROVE Preserved
  <2> DEFINE c == [Resting EXCEPT !.op = IF cache THEN "init" ELSE "get"]
  <2>1. c \in PropCalls /\ c.op \in {"init", "get", "set", "reboot"} /\ c.fresh = FALSE
    BY DEF Resting, PropCalls
  <2>2. BeginProp(c)
    BY <1>1 DEF GetProp
  <2> HIDE DEF c
  <2> QED
    BY <2>1, <2>2, <1>b
<1>2. ASSUME NEW v \in Values, NEW check \in BOOLEAN, SetProp(v, check) PROVE Preserved
  <2> DEFINE c == [Resting EXCEPT !.op = "set", !.value = v, !.check = check]
  <2>1. c \in PropCalls /\ c.op \in {"init", "get", "set", "reboot"} /\ c.fresh = FALSE
    BY DEF Resting, PropCalls
  <2>2. BeginProp(c)
    BY <1>2 DEF SetProp
  <2> HIDE DEF c
  <2> QED
    BY <2>1, <2>2, <1>b
<1>3. ASSUME RebootProps PROVE Preserved
  <2> DEFINE c == [Resting EXCEPT !.op = "reboot"]
  <2>1. c \in PropCalls /\ c.op \in {"init", "get", "set", "reboot"} /\ c.fresh = FALSE
    BY DEF Resting, PropCalls
  <2>2. BeginProp(c)
    BY <1>3 DEF RebootProps
  <2> HIDE DEF c
  <2> QED
    BY <2>1, <2>2, <1>b
<1>4. ASSUME PropTimeOut PROVE Preserved
  <2> DEFINE c == calls["live"]
  <2>1. AgainProp(c) \in PropCalls /\ ~AgainProp(c).fresh /\ OnCourse(AgainProp(c)) /\ c \in PropCalls /\ OnCourse(c)
    BY <1>c, <1>t, AgainProps
  <2>2. calls' = [live |-> AgainProp(c), late |-> c] /\ prop' = prop
    BY <1>4 DEF PropTimeOut
  <2>3. calls'["live"] = AgainProp(c) /\ calls'["late"] = c
    BY <2>2
  <2>4. calls' \in [PropThreads -> PropCalls] /\ CallsOnCourse' /\ FreshIsIt'
    BY <2>1, <2>2, <2>3, <1>t DEF PropThreads, CallsOnCourse, FreshIsIt, OnCourse
  <2>5. Live' \notin {"drop", "clear", "wait"}
    BY <2>1, <2>3, <1>c, <1>t, AgainProps DEF Live
  <2>6. source' = "doubt" \/ c.op \notin {"set", "reboot"}
    BY <1>4 DEF PropTimeOut, Doubted
  <2>7. source' = "read" => Live \notin {"drop", "clear"}
    BY <2>1, <2>6 DEF OnCourse, Live
  <2>8. ReadIsIt' /\ NoneAwaited' /\ DroppedIsEmpty'
    BY <1>4, <2>5, <2>7, <2>6
       DEF PropTimeOut, Doubted, ReadIsIt, NoneAwaited, DroppedIsEmpty, PropsInv, Live
  <2> QED
    BY <1>4, <1>t, <1>n, <2>4, <2>8 DEF PropTimeOut, Doubted
<1>5. ASSUME DeviceReboots PROVE Preserved
  <2>1. calls' \in [PropThreads -> PropCalls] /\ CallsOnCourse' /\ FreshIsIt' /\ Live' = Live
    BY <1>5, <1>t, AgedAll DEF DeviceReboots, Live
  <2>2. source = "read" => Live # "wait"
    BY <1>5 DEF DeviceReboots, PropsInv, NoneAwaited, Live
  <2>3. source' = "read" => Live = "clear" /\ source = "read"
    BY <1>5, <2>2 DEF DeviceReboots, Live
  <2>4. ReadIsIt' /\ NoneAwaited' /\ DroppedIsEmpty'
    BY <1>5, <2>1, <2>3 DEF DeviceReboots, ReadIsIt, NoneAwaited, DroppedIsEmpty, PropsInv, Live
  <2> QED
    BY <1>5, <1>t, <2>1, <2>4 DEF DeviceReboots
<1>6. ASSUME OtherSetProp PROVE Preserved
  <2>1. calls' \in [PropThreads -> PropCalls] /\ CallsOnCourse' /\ FreshIsIt'
    BY <1>6, <1>t, AgedAll DEF OtherSetProp
  <2>4. ReadIsIt' /\ NoneAwaited' /\ DroppedIsEmpty'
    BY <1>6 DEF OtherSetProp, ReadIsIt, NoneAwaited, DroppedIsEmpty
  <2> QED
    BY <1>6, <1>t, <2>1, <2>4 DEF OtherSetProp
<1>7. ASSUME NEW t \in PropThreads, EnsureCacheInitialized(t) PROVE Preserved
  <2> DEFINE c == [calls[t] EXCEPT !.pc = "query"]
  <2>1. c \in PropCalls /\ OnCourse(c) /\ (c.fresh => c.got = prop) /\ c.pc = "query"
        /\ c.op = calls[t].op
    BY <1>7, <1>c, <1>t DEF EnsureCacheInitialized, PropCalls, OnCourse, FreshIsIt
  <2>2. prop' = prop /\ props' = props /\ source' = source /\ calls[t].pc = "init"
        /\ rebooting' = rebooting
    BY <1>7 DEF EnsureCacheInitialized
  <2>3. CallsAre(t, c) \/ CallsAre(t, Resting)
    <3>1. CASE calls' = [calls EXCEPT ![t] = c]
      BY <1>t, <2>1, <2>2, <3>1, OneCall
    <3>2. CASE calls' = [calls EXCEPT ![t] = Resting]
      BY <1>t, <2>2, <3>2, IdleProps, OneCall
    <3> QED
      BY <1>7, <3>1, <3>2 DEF EnsureCacheInitialized, GoOn, Done
  <2> HIDE DEF c
  <2>5. ReadIsIt' /\ NoneAwaited' /\ DroppedIsEmpty'
    BY <1>t, <2>1, <2>2, <2>3, IdleProps, Ended DEF Ending
  <2> QED
    BY <1>7, <1>t, <1>n, <2>3, <2>5 DEF CallsAre, EnsureCacheInitialized, GoOn, Done
<1>8. ASSUME NEW t \in PropThreads, Read(t) PROVE Preserved
  <2> DEFINE c == [calls[t] EXCEPT !.pc = IF @ = "query" THEN "fill" ELSE "store",
                                !.got = prop, !.fresh = TRUE]
  <2>1. c \in PropCalls /\ OnCourse(c) /\ (c.fresh => c.got = prop) /\ c.pc \in {"fill", "store"}
        /\ c.op = calls[t].op
    BY <1>8, <1>c, <1>t DEF Read, PropCalls, OnCourse
  <2>2. /\ calls' = [calls EXCEPT ![t] = c] /\ prop' = prop /\ props' = props
        /\ source' = source /\ calls[t].pc \in {"query", "read"} /\ rebooting' = rebooting
    BY <1>8 DEF Read, GoOn
  <2>3. CallsAre(t, c)
    BY <1>t, <2>1, <2>2, OneCall
  <2> HIDE DEF c
  <2>5. ReadIsIt' /\ NoneAwaited' /\ DroppedIsEmpty'
    BY <1>t, <2>1, <2>2, <2>3, Ended DEF Ending
  <2> QED
    BY <1>8, <1>t, <1>n, <2>3, <2>5 DEF CallsAre, Read, GoOn
<1>9. ASSUME NEW t \in PropThreads, Fill(t) PROVE Preserved
  <2> DEFINE c == [calls[t] EXCEPT !.pc = "token"]
  <2>1. c \in PropCalls /\ OnCourse(c) /\ (c.fresh => c.got = prop) /\ c.pc = "token"
    BY <1>9, <1>c, <1>t DEF Fill, PropCalls, OnCourse, FreshIsIt
  <2>2. /\ calls' = [calls EXCEPT ![t] = c] /\ prop' = prop /\ Store(t)
        /\ calls[t].pc = "fill" /\ rebooting' = rebooting
    BY <1>9 DEF Fill, GoOn
  <2>3. CallsAre(t, c)
    BY <1>t, <2>1, <2>2, OneCall
  <2> HIDE DEF c
  <2>5. ReadIsIt' /\ NoneAwaited' /\ DroppedIsEmpty'
    BY <1>t, <2>1, <2>2, <2>3, Stored DEF Ending, OnCourse
  <2> QED
    BY <1>9, <1>t, <1>n, <1>c, <2>2, <2>3, <2>5 DEF CallsAre, Fill, GoOn, Store, PropCalls
<1>10. ASSUME NEW t \in PropThreads, SetToken(t) PROVE Preserved
  <2>2. /\ calls' = [calls EXCEPT ![t] = Resting] /\ prop' = prop /\ props' = props
        /\ source' = source /\ calls[t].pc = "token" /\ rebooting' = rebooting
    BY <1>10 DEF SetToken, Done
  <2>3. CallsAre(t, Resting)
    BY <1>t, <2>2, IdleProps, OneCall
  <2>5. ReadIsIt' /\ NoneAwaited' /\ DroppedIsEmpty'
    BY <1>t, <2>2, <2>3, IdleProps, Ended DEF Ending
  <2> QED
    BY <1>10, <1>t, <1>n, <2>3, <2>5 DEF CallsAre, SetToken, Done
<1>11. ASSUME NEW t \in PropThreads, StoreProp(t) PROVE Preserved
  <2>1. AgainProp(calls[t]) \in PropCalls /\ ~AgainProp(calls[t]).fresh /\ OnCourse(AgainProp(calls[t]))
        /\ AgainProp(calls[t]).pc \notin {"drop", "clear", "wait"}
    BY <1>c, AgainProps
  <2>2. prop' = prop /\ Store(t) /\ calls[t].pc = "store" /\ rebooting' = rebooting
        /\ hasToken' = hasToken
    BY <1>11 DEF StoreProp
  <2>3. PICK c \in {Resting, AgainProp(calls[t])} : CallsAre(t, c)
    <3>1. CASE calls' = [calls EXCEPT ![t] = Resting]
      BY <1>t, <2>2, <3>1, IdleProps, OneCall
    <3>2. CASE calls' = [calls EXCEPT ![t] = AgainProp(calls[t])]
      BY <1>t, <2>1, <2>2, <3>2, OneCall
    <3> QED
      BY <1>11, <3>1, <3>2 DEF StoreProp, Fails, Done
  <2>4. c \in PropCalls /\ c.pc \notin {"drop", "clear", "wait"}
    BY <2>1, IdleProps
  <2>7. c.op # "reboot"
    BY <1>c, <2>1, <2>2, AgainProps, IdleProps DEF OnCourse
  <2>5. ReadIsIt' /\ NoneAwaited' /\ DroppedIsEmpty'
    BY <1>t, <2>2, <2>3, <2>4, <2>7, Stored DEF Ending
  <2>6. attempt' \in 1..(PropRetries + 1)
    BY <1>11, <1>t, <1>n DEF StoreProp, Fails, Done
  <2> QED
    BY <1>t, <1>c, <2>2, <2>3, <2>5, <2>6 DEF CallsAre, Store, PropCalls
<1>12. ASSUME NEW t \in PropThreads, Set(t) PROVE Preserved
  <2>0. calls[t].pc = "set" /\ rebooting' = rebooting /\ props' = props /\ hasToken' = hasToken
        /\ attempt' = attempt
    BY <1>12 DEF Set
  <2>1. CASE prop' = prop
    <3> DEFINE c == [calls[t] EXCEPT !.pc = "drop"]
    <3>1. c \in PropCalls /\ (c.fresh => c.got = prop) /\ c.pc = "drop" /\ c.op = calls[t].op
      BY <1>c, <1>t DEF PropCalls, FreshIsIt
    <3>0. OnCourse(c) /\ c.op = "set"
      BY <3>1, <1>c, <2>0 DEF OnCourse
    <3>2. calls' = [calls EXCEPT ![t] = c] /\ source' = source
      BY <1>12, <2>1 DEF Set
    <3>3. CallsAre(t, c)
      BY <1>t, <2>1, <3>0, <3>1, <3>2, OneCall
    <3> HIDE DEF c
    <3>5. ReadIsIt' /\ NoneAwaited' /\ DroppedIsEmpty'
      BY <1>t, <2>0, <2>1, <3>1, <3>0, <3>2, <3>3, ToDrop
    <3> QED
      BY <1>t, <2>0, <2>1, <3>2, <3>3, <3>5 DEF CallsAre
  <2>2. CASE prop' # prop
    <3> DEFINE c == [Aged[t] EXCEPT !.pc = "drop"]
    <3>0. Aged[t] \in PropCalls /\ ~Aged[t].fresh /\ Aged[t].op = calls[t].op
      BY <1>c, AgedCall DEF Aged
    <3>1. c \in PropCalls /\ ~c.fresh /\ c.pc = "drop" /\ c.op = calls[t].op
      BY <3>0 DEF PropCalls
    <3>2. calls' = [Aged EXCEPT ![t] = c] /\ source' = (IF t = "late" THEN "doubt" ELSE source)
          /\ prop' \in Values \cup {Empty}
      BY <1>12, <1>c, <1>t, <2>2 DEF Set, PropCalls
    <3>3. OnCourse(c)
      BY <3>1, <1>c, <2>0 DEF OnCourse
    <3>4. CallsAre(t, c)
      BY <1>t, <3>1, <3>2, <3>3, OneCallAged
    <3> HIDE DEF c
    <3>5. ReadIsIt' /\ NoneAwaited' /\ DroppedIsEmpty'
      BY <1>t, <2>0, <3>1, <3>2, <3>4
         DEF CallsAre, PropsInv, ReadIsIt, NoneAwaited, DroppedIsEmpty, PropThreads
    <3> QED
      BY <1>t, <2>0, <3>2, <3>4, <3>5 DEF CallsAre
  <2> QED
    BY <2>1, <2>2
<1>13. ASSUME NEW t \in PropThreads, Drop(t) PROVE Preserved
  <2> DEFINE c == [calls[t] EXCEPT !.pc = "read"]
  <2>0. calls[t].op = "set" /\ prop' = prop /\ rebooting' = rebooting /\ hasToken' = hasToken
        /\ props' = Empty /\ source' = "dropped"
    BY <1>13, <1>c DEF Drop, Dropped, OnCourse
  <2>1. c \in PropCalls /\ OnCourse(c) /\ (c.fresh => c.got = prop)
    BY <1>c, <1>t, <2>0 DEF PropCalls, OnCourse, FreshIsIt
  <2>3. CallsAre(t, c) \/ CallsAre(t, Resting)
    <3>1. CASE calls' = [calls EXCEPT ![t] = c]
      BY <1>t, <2>0, <2>1, <3>1, OneCall
    <3>2. CASE calls' = [calls EXCEPT ![t] = Resting]
      BY <1>t, <2>0, <3>2, IdleProps, OneCall
    <3> QED
      BY <1>13, <3>1, <3>2 DEF Drop, GoOn, Done
  <2> HIDE DEF c
  <2>5. ReadIsIt' /\ NoneAwaited' /\ DroppedIsEmpty'
    BY <2>0 DEF ReadIsIt, NoneAwaited, DroppedIsEmpty
  <2> QED
    BY <1>13, <1>t, <1>n, <2>0, <2>3, <2>5 DEF CallsAre, Drop, GoOn, Done
<1>14. ASSUME NEW t \in PropThreads, StartPropReboot(t) PROVE Preserved
  <2> DEFINE c == [calls[t] EXCEPT !.pc = "clear"]
  <2>1. c \in PropCalls /\ OnCourse(c) /\ (c.fresh => c.got = prop) /\ c.pc = "clear"
    BY <1>14, <1>c, <1>t DEF StartPropReboot, PropCalls, OnCourse, FreshIsIt
  <2>2. /\ calls' = [calls EXCEPT ![t] = c] /\ prop' = prop /\ props' = props
        /\ source' = source /\ calls[t].pc = "reboot" /\ calls[t].op = "reboot"
    BY <1>14, <1>c DEF StartPropReboot, GoOn, OnCourse
  <2>3. CallsAre(t, c)
    BY <1>t, <2>1, <2>2, OneCall
  <2> HIDE DEF c
  <2>5. ReadIsIt' /\ NoneAwaited' /\ DroppedIsEmpty'
    BY <1>t, <2>1, <2>2, <2>3
       DEF CallsAre, PropsInv, ReadIsIt, NoneAwaited, DroppedIsEmpty, PropThreads
  <2> QED
    BY <1>14, <1>t, <1>n, <2>3, <2>5 DEF CallsAre, StartPropReboot, GoOn
<1>15. ASSUME NEW t \in PropThreads, ClearProps(t) PROVE Preserved
  <2> DEFINE c == [calls[t] EXCEPT !.pc = "wait"]
  <2>0. prop' = prop /\ rebooting' = rebooting /\ props' = Empty /\ source' = "dropped"
    BY <1>15 DEF ClearProps, Dropped
  <2>1. c \in PropCalls /\ OnCourse(c) /\ (c.fresh => c.got = prop)
    BY <1>15, <1>c, <1>t DEF ClearProps, PropCalls, OnCourse, FreshIsIt
  <2>3. CallsAre(t, c)
    BY <1>15, <1>t, <2>0, <2>1, OneCall DEF ClearProps, GoOn
  <2> HIDE DEF c
  <2>5. ReadIsIt' /\ NoneAwaited' /\ DroppedIsEmpty'
    BY <2>0 DEF ReadIsIt, NoneAwaited, DroppedIsEmpty
  <2> QED
    BY <1>15, <1>t, <1>n, <2>0, <2>3, <2>5 DEF CallsAre, ClearProps, GoOn
<1>16. ASSUME NEW t \in PropThreads, Rebooted(t) PROVE Preserved
  <2>2. /\ calls' = [calls EXCEPT ![t] = Resting] /\ prop' = prop /\ props' = props
        /\ source' = source /\ calls[t].pc = "wait" /\ rebooting' = rebooting
    BY <1>16 DEF Rebooted, Done
  <2>3. CallsAre(t, Resting)
    BY <1>t, <2>2, IdleProps, OneCall
  <2>5. ReadIsIt' /\ NoneAwaited' /\ DroppedIsEmpty'
    BY <1>t, <2>2, <2>3, IdleProps, Ended DEF Ending
  <2> QED
    BY <1>16, <1>t, <1>n, <2>3, <2>5 DEF CallsAre, Rebooted, Done
<1>17. ASSUME NEW t \in PropThreads, PropCommandFails(t) PROVE Preserved
  <2>1. AgainProp(calls[t]) \in PropCalls /\ ~AgainProp(calls[t]).fresh /\ OnCourse(AgainProp(calls[t]))
        /\ AgainProp(calls[t]).pc \notin {"drop", "clear", "wait"}
    BY <1>c, AgainProps
  <2>2. /\ prop' = prop /\ props' = props /\ hasToken' = hasToken /\ source' \in {source, "doubt"}
        /\ rebooting' \in {rebooting, TRUE} /\ (rebooting' # rebooting => calls[t].op = "reboot")
        /\ calls[t].pc \in {"query", "read", "set", "reboot", "wait"}
    BY <1>17, <1>c, <1>t DEF PropCommandFails, Doubted, OnCourse
  <2>3. PICK c \in {Resting, AgainProp(calls[t])} : CallsAre(t, c)
    <3>1. CASE calls' = [calls EXCEPT ![t] = Resting]
      BY <1>t, <2>2, <3>1, IdleProps, OneCall
    <3>2. CASE calls' = [calls EXCEPT ![t] = AgainProp(calls[t])]
      BY <1>t, <2>1, <2>2, <3>2, OneCall
    <3> QED
      BY <1>17, <3>1, <3>2 DEF PropCommandFails, Fails
  <2>4. c \in PropCalls /\ c.pc \notin {"drop", "clear", "wait"}
    BY <2>1, IdleProps
  <2>5. ReadIsIt' /\ NoneAwaited' /\ DroppedIsEmpty'
    <3>1. CASE t = "live"
      BY <1>t, <2>2, <2>3, <2>4, <3>1
         DEF CallsAre, PropsInv, ReadIsIt, NoneAwaited, DroppedIsEmpty
    <3>2. CASE t = "late"
      <4>1. Live' = Live
        BY <1>t, <2>3, <3>2 DEF CallsAre, Live
      <4>2. source' = source /\ calls'["late"].op \in {"none"}
        BY <1>17, <1>t, <3>2, IdleProps DEF PropCommandFails, Fails
      <4>3. Live = "wait" /\ source = "read" => ~rebooting'
        BY <1>t, <2>2, <3>2 DEF PropsInv, NoneAwaited, Live
      <4> QED
        BY <2>2, <4>1, <4>2, <4>3, Untouched
    <3> QED
      BY <3>1, <3>2 DEF PropThreads
  <2>6. attempt' \in 1..(PropRetries + 1)
    BY <1>17, <1>t, <1>n DEF PropCommandFails, Fails
  <2> QED
    BY <1>t, <1>c, <2>2, <2>3, <2>5, <2>6 DEF CallsAre
<1>18. ASSUME NEW t \in PropThreads, SetFails(t) PROVE Preserved
  <2> DEFINE a == IF t = "live" THEN AgainProp(Aged[t]) ELSE Resting
  <2>0. Aged[t] \in PropCalls
    BY <1>c, AgedCall DEF Aged
  <2>1. a \in PropCalls /\ ~a.fresh /\ OnCourse(a)
    BY <2>0, AgainProps, IdleProps
  <2>2. calls' = [Aged EXCEPT ![t] = a] /\ prop' = calls[t].value /\ source' = "doubt"
        /\ props' = props /\ rebooting' = rebooting /\ hasToken' = hasToken
    BY <1>18 DEF SetFails, Fails
  <2> HIDE DEF a
  <2>3. CallsAre(t, a)
    BY <1>t, <2>1, <2>2, OneCallAged
  <2>4. prop' \in Values \cup {Empty}
    BY <1>c, <2>2 DEF PropCalls
  <2>5. ReadIsIt' /\ NoneAwaited' /\ DroppedIsEmpty'
    BY <2>2 DEF ReadIsIt, NoneAwaited, DroppedIsEmpty
  <2>6. attempt' \in 1..(PropRetries + 1)
    BY <1>18, <1>t, <1>n DEF SetFails, Fails
  <2> QED
    BY <1>t, <2>2, <2>3, <2>4, <2>5, <2>6 DEF CallsAre
<1>19. CASE UNCHANGED propsVars
  BY <1>19 DEF propsVars, PropsInv, PropsTypeOK, CallsOnCourse, FreshIsIt, ReadIsIt, NoneAwaited,
               DroppedIsEmpty
<1>20. CASE PropsNext
  <2>1. Preserved
    BY <1>20, <1>1, <1>2, <1>3, <1>4, <1>5, <1>6, <1>7, <1>8, <1>9, <1>10, <1>11, <1>12, <1>13,
       <1>14, <1>15, <1>16, <1>17, <1>18 DEF PropsNext, PropStep
  <2> QED
    BY <2>1, <1>20, <1>e DEF PropsInv, PropsTypeOK
<1> QED
  BY <1>19, <1>20

(* DeviceProps.PropsTypeOK, by PropsStep.                                       *)
THEOREM PropsTypeCorrect == PropsSpec => []PropsTypeOK
<1>1. PropsInv => PropsTypeOK
  BY DEF PropsInv
<1> QED
  BY <1>1, PropsInitInv, PropsStep, PTL DEF PropsSpec

(* Between calls of an initialised session, what GetProp(cache=True) would      *)
(* answer is the property when it was read, and the property was not changed    *)
(* since by another program, the device or a late thread, nor by a SetProp or   *)
(* Reboot that then failed or timed out (these leave it in doubt); and nothing  *)
(* when the last to touch the cache was a SetProp that dropped it, or a Reboot  *)
(* that cleared it.                                                             *)
THEOREM PropAnswers == PropsSpec => []PropAnswersAgree
<1>1. PropsInv => PropAnswersAgree
  BY DEF PropsInv, PropAnswersAgree, ReadIsIt, DroppedIsEmpty, Unused, Resting
<1> QED
  BY <1>1, PropsInitInv, PropsStep, PTL DEF PropsSpec
================================================================================
