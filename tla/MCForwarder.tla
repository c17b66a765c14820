------------------------------ MODULE MCForwarder ------------------------------
(* Instances of Forwarder.                                                      *)
EXTENDS Forwarder

CONSTANTS p, q, a, g, h

Calls(r, ops, key, port) == {r} \X ops \X {key} \X {port}

(* A process forwards two ports of a device, each to a host port of its own;    *)
(* another one, of the same or another group, comes and goes and calls what may *)
(* take the forwards away. *)
OwnPorts ==
    Calls(p, Ops, <<a, 1>>, 11)
        \cup Calls(p, {"Map", "UnmapDevicePort"}, <<a, 2>>, 12)
        \cup Calls(q, {"KillHost"}, <<a, 1>>, 11)
================================================================================
