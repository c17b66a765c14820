----------------------------- MODULE MCCloudStorage ----------------------------
(* An instance of CloudStorage for TLC: processes, inodes and hashes are alike. *)
EXTENDS CloudStorage, TLC

Symmetry == Permutations(Procs) \cup Permutations(Inodes) \cup Permutations(Hashes)
================================================================================
