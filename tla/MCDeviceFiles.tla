----------------------------- MODULE MCDeviceFiles -----------------------------
(* An instance of DeviceFiles for TLC: files are alike, and so are contents.    *)
EXTENDS DeviceFiles, TLC

Symmetry == Permutations(Files) \cup Permutations(Contents)
================================================================================
