---------------------------- MODULE MCDependencies -----------------------------
(* An instance of Dependencies for TLC.  Two versions of the configs name the   *)
(* same download path with different hashes; the platform with an OS version    *)
(* has an entry of its own in some of them only.                                *)
EXTENDS Dependencies, TLC

CONSTANTS g, h, x, y

Asked == <<"versioned", "plain">>

Entry(paths, hash, zip) == [paths |-> paths, hash |-> hash, zip |-> zip]

Config(versioned, plain, default) ==
    [pl \in Platforms |-> CASE pl = "versioned" -> versioned
                            [] pl = "plain" -> plain
                            [] OTHER -> default]

TwoVersions == {
    <<Config(None, Entry(<<x>>, g, TRUE), None)>>,
    <<Config(None, None, Entry(<<y>>, None, FALSE)), Config(None, Entry(<<x>>, h, TRUE), None)>>,
    <<Config(Entry(<<y>>, None, FALSE), None, None),
      Config(Entry(<<x, y>>, g, FALSE), Entry(<<>>, g, TRUE), None)>>,
    <<Config(Entry(<<>>, h, FALSE), None, None), Config(Entry(<<x>>, g, FALSE), None, None)>>}

(* On a host with ditto only those that name the plain platform alone. *)
DittoForArchives == mac => \A p \in Procs : configs[p][1]["versioned"] = None

(* Any process may have any of the configs. *)
Symmetry == Permutations(Procs)
================================================================================
