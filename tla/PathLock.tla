------------------------------- MODULE PathLock --------------------------------
(* What cloud_storage._FileLock promises: of the processes that use the files   *)
(* of one path, one at a time is within the lock, whichever of them dies.       *)
EXTENDS FiniteSets

CONSTANT Procs

VARIABLE inside         \* the processes within the lock

Enter(p) == inside = {} /\ inside' = {p}

Leave(p) == p \in inside /\ inside' = inside \ {p}

Spec == inside = {} /\ [][\E p \in Procs : Enter(p) \/ Leave(p)]_inside
================================================================================
