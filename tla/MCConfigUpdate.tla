----------------------------- MODULE MCConfigUpdate ----------------------------
(* An instance of ConfigUpdate for TLC.  All that it is about is alike.  Either  *)
(* one program works, with all events and jobs, or several with one event and   *)
(* two jobs.                                                                    *)
EXTENDS ConfigUpdate, TLC

OneOrFew ==
    \/ \E u \in Updaters : \A v \in Updaters \ {u} : up[v] = Closed
    \/ events <= 1 /\ MapThenSumSet(LAMBDA v : Len(up[v].pending), Updaters) <= 2

Symmetry == Permutations(Updaters) \cup Permutations(Platforms) \cup Permutations(Hashes)
================================================================================
