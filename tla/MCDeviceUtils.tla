---------------------------- MODULE MCDeviceUtils ------------------------------
(* An instance of DeviceApps and DeviceProps for TLC.  The caches of apps and   *)
(* of properties have nothing in common but the session: a behaviour is about   *)
(* one of them while the other is at rest.                                      *)
(* A package comes in two versions with a split, of which others install the    *)
(* first, and another without the split; the system image may hold a version of *)
(* its own.                                                                     *)
EXTENDS DeviceApps, DeviceProps

Apk(v)      == {<<"base", v>>, <<"split", 1>>}
TwoVersions == {Apk(1), Apk(2)}
Unsplit     == {Apk(1), {<<"base", 2>>}}
SystemApp   == {<<"base", 0>>}

VARIABLE about      \* what the behaviour is about

Init ==
    /\ AppsInit /\ PropsInit
    /\ \/ about = "apps" /\ prop = Empty
       \/ about = "props" /\ system = {}

Next ==
    /\ \/ about = "apps" /\ AppsNext /\ UNCHANGED propsVars
       \/ about = "props" /\ PropsNext /\ UNCHANGED appsVars
    /\ UNCHANGED about

Spec == Init /\ [][Next]_<<appsVars, propsVars, about>>
================================================================================
