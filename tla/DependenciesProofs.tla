--------------------------- MODULE DependenciesProofs --------------------------
(* What fetching a dependency promises, for any numbers of processes, configs,  *)
(* platforms, versions and failures: a downloaded path that is returned holds   *)
(* the whole version, and local paths keep the precedence of the configs.       *)
EXTENDS Dependencies, WellFoundedInduction, TLAPS

Whole(h) == [m \in Members |-> h]

(* The calls that are at a version of a platform's archive.                     *)
Users(pl, h) == {p \in Procs : job[p].place = pl /\ job[p].hash = h}

(* What a call knows of itself.                                                 *)
CallOK(c) ==
    /\ c.pc # "idle" => c.path = None
    /\ c.pc \notin {"idle", "lookup"} => c.hash # None
    /\ c.pc = "lookup" => c.turn > 0
    /\ c.pc \in {"unzip?", "stale", "open", "extract", "again?"} => c.zip

CallInv == \A p \in Procs : CallOK(job[p])

(* A call that got the file has it until it opens it, or returns it.            *)
FileInv(pl, h) == \A p \in Users(pl, h) :
    job[p].pc \in {"unzip?", "stale", "open"} \/ (job[p].pc = "exists?" /\ ~job[p].zip)
        => file[pl] = h

(* What a call has extracted is there.                                          *)
ExtractInv(pl, h) == \A p \in Users(pl, h) :
    job[p].pc = "extract" =>
        /\ job[p].source = h
        /\ \A m \in Members \ job[p].left : dir[pl][h][m] = h

(* A directory at which nobody extracts lacks the dependency or is whole, and   *)
(* is whole for those who found something there or have extracted it.           *)
Extracted(pl, h) == \E p \in Users(pl, h) : job[p].pc = "extract"

DirInv(pl, h) ==
    ~Extracted(pl, h) =>
        /\ dir[pl][h]["dependency"] = None \/ dir[pl][h] = Whole(h)
        /\ \A p \in Users(pl, h) :
            job[p].pc = "again?" \/ (job[p].pc = "exists?" /\ job[p].zip) => dir[pl][h] = Whole(h)

SpotInv(pl, h) == FileInv(pl, h) /\ ExtractInv(pl, h) /\ DirInv(pl, h)

(* But for the versions that are marked as spoilt.                              *)
ArchiveInv == \A pl \in Platforms, h \in Hashes : <<pl, h>> \notin spoilt => SpotInv(pl, h)

IInv == TypeOK /\ CallInv /\ ArchiveInv

--------------------------------------------------------------------------------
USE DependenciesAssumption

--------------------------------------------------------------------------------
(* The table.                                                                   *)

(* A set of numbers has a first one. *)
LEMMA FirstOf ==
    ASSUME NEW S \in SUBSET Nat, S # {}
    PROVE  \E x \in S : \A y \in S : x <= y
<1>1. PICK x \in S : \A y \in S : ~(<<y, x>> \in OpToRel(<, Nat))
  BY NatLessThanWellFounded, WFMin
<1>2. ASSUME NEW y \in S PROVE x <= y
  <2>1. x \in Nat /\ y \in Nat
    OBVIOUS
  <2>2. ~(y < x)
    BY <1>1, <2>1 DEF OpToRel
  <2> QED
    BY <2>1, <2>2
<1> QED
  BY <1>2

(* Merging config after config computes a function: what its definition names.  *)
LEMMA MergedEquation ==
    ASSUME NEW cs \in Configs
    PROVE  \E f :
            /\ Table(cs) = f[Len(cs)]
            /\ \A i \in 0..Len(cs) : f[i] = [pl \in Platforms |->
                   IF i = 0 THEN None ELSE Updated(f[i - 1][pl], cs[i][pl])]
<1> DEFINE N == Len(cs)
           merged[i \in 0..Len(cs)] == [pl \in Platforms |->
              IF i = 0 THEN None ELSE Updated(merged[i - 1][pl], cs[i][pl])]
           Solves(f, n) == \A i \in 0..n : f[i] = [pl \in Platforms |->
              IF i = 0 THEN None ELSE Updated(f[i - 1][pl], cs[i][pl])]
           Solved(n) == \E f : Solves(f, n)
           Bad == {n \in 0..N : ~Solved(n)}
<1>1. N \in Nat
  OBVIOUS
<1>2. Table(cs) = merged[N]
  BY DEF Table
<1> HIDE DEF N, merged, Solved
<1>3. Bad = {}
  <2> SUFFICES ASSUME Bad # {} PROVE FALSE
    OBVIOUS
  <2>1. PICK n \in Bad : \A m \in Bad : n <= m
    <3>1. Bad \in SUBSET Nat
      BY <1>1
    <3> QED
      BY <3>1, FirstOf
  <2>2. n \in 0..N /\ n \in Nat
    BY <1>1
  <2>3. CASE n = 0
    <3> DEFINE f == [i \in 0..0 |-> [pl \in Platforms |-> None]]
    <3>1. Solves(f, 0)
      OBVIOUS
    <3> QED
      BY <2>3, <3>1 DEF Solved
  <2>4. CASE n # 0
    <3>1. n - 1 \in 0..N /\ n - 1 < n
      BY <1>1, <2>2, <2>4
    <3>2. PICK f : Solves(f, n - 1)
      <4>1. Solved(n - 1)
        BY <2>1, <2>2, <3>1
      <4> QED
        BY <4>1 DEF Solved
    <3> DEFINE last == [pl \in Platforms |-> Updated(f[n - 1][pl], cs[n][pl])]
               h == [i \in 0..n |-> IF i = n THEN last ELSE f[i]]
    <3>3. ASSUME NEW i \in 0..n
          PROVE  h[i] = [pl \in Platforms |->
                     IF i = 0 THEN None ELSE Updated(h[i - 1][pl], cs[i][pl])]
      <4>1. CASE i = n
        <5>1. h[i] = last /\ h[n - 1] = f[n - 1]
          BY <2>2, <3>1, <4>1
        <5> QED
          BY <2>4, <4>1, <5>1
      <4>2. CASE i # n
        <5>1. i \in 0..(n - 1) /\ h[i] = f[i]
          BY <2>2, <4>2
        <5>2. i # 0 => h[i - 1] = f[i - 1]
          BY <2>2, <5>1
        <5> QED
          BY <3>2, <5>1, <5>2
      <4> QED
        BY <4>1, <4>2
    <3>4. Solves(h, n)
      BY <3>3
    <3> HIDE DEF h
    <3>5. Solved(n)
      BY <3>4 DEF Solved
    <3> QED
      BY <3>5
  <2> QED
    BY <2>3, <2>4
<1>4. PICK f : Solves(f, N)
  <2>1. N \in 0..N
    BY <1>1
  <2>2. Solved(N)
    BY <1>3, <2>1
  <2> QED
    BY <2>2 DEF Solved
<1> DEFINE g == [i \in 0..N |-> f[i]]
<1>5. g = [i \in 0..N |-> [pl \in Platforms |->
             IF i = 0 THEN None ELSE Updated(g[i - 1][pl], cs[i][pl])]]
  <2>1. ASSUME NEW i \in 0..N, i # 0 PROVE i - 1 \in 0..N
    BY <1>1, <2>1
  <2>2. ASSUME NEW i \in 0..N
        PROVE  g[i] = [pl \in Platforms |->
                   IF i = 0 THEN None ELSE Updated(g[i - 1][pl], cs[i][pl])]
    BY <1>4, <2>1
  <2> QED
    BY <2>2
<1>6. merged = [i \in 0..Len(cs) |-> [pl \in Platforms |->
             IF i = 0 THEN None ELSE Updated(merged[i - 1][pl], cs[i][pl])]]
  BY <1>5 DEF N, merged
<1>7. \A i \in 0..N : merged[i] = [pl \in Platforms |->
             IF i = 0 THEN None ELSE Updated(merged[i - 1][pl], cs[i][pl])]
  BY <1>6 DEF N
<1> QED
  BY <1>2, <1>7 DEF N

LEMMA MinOf ==
    ASSUME NEW S \in SUBSET Nat, S # {}
    PROVE  /\ Min(S) \in S /\ \A y \in S : Min(S) <= y
           /\ \A x \in S : (\A y \in S : x <= y) => Min(S) = x
<1>1. Min(S) \in S /\ \A y \in S : Min(S) <= y
  BY FirstOf DEF Min
<1>2. ASSUME NEW x \in S, \A y \in S : x <= y PROVE Min(S) = x
  <2>1. Min(S) <= x /\ x <= Min(S) /\ x \in Nat /\ Min(S) \in Nat
    BY <1>1, <1>2
  <2> QED
    BY <2>1
<1> QED
  BY <1>1, <1>2

(* The first path that exists is that of the first list that has one.           *)
LEMMA FirstIsThere ==
    ASSUME NEW s \in Seq(Paths \cup {None}), Existing(s) # {}
    PROVE  /\ FirstExisting(s) \in local
           /\ \E i \in Existing(s) : (\A j \in Existing(s) : i <= j) /\ FirstExisting(s) = s[i]
<1>1. Existing(s) \in SUBSET Nat
  BY DEF Existing
<1>2. Min(Existing(s)) \in Existing(s) /\ \A j \in Existing(s) : Min(Existing(s)) <= j
  BY <1>1, MinOf
<1>3. FirstExisting(s) = s[Min(Existing(s))]
  BY DEF FirstExisting
<1>4. \A i \in Existing(s) : s[i] \in local
  BY DEF Existing
<1> QED
  BY <1>2, <1>3, <1>4

(* The paths of a list come before those that another adds to it.               *)
LEMMA ExistingJoined ==
    ASSUME NEW s \in Seq(Paths \cup {None}), NEW t \in Seq(Paths \cup {None}), None \notin local
    PROVE  /\ Joined(s, t) \in Seq(Paths \cup {None})
           /\ Existing(Joined(s, t)) = {} <=> Existing(s) = {} /\ Existing(t) = {}
           /\ Existing(s) # {} => FirstExisting(Joined(s, t)) = FirstExisting(s)
           /\ Existing(s) = {} /\ Existing(t) # {} => FirstExisting(Joined(s, t)) = FirstExisting(t)
<1> DEFINE u == Unknown(t, s)
           r == s \o u
           n == Len(s)
<1>1. u \in Seq(Paths \cup {None}) /\ Len(u) = Len(t)
  <2>1. DOMAIN t = 1..Len(t) /\ Len(t) \in Nat
    OBVIOUS
  <2>2. u \in [1..Len(t) -> Paths \cup {None}]
    BY <2>1 DEF Unknown
  <2> QED
    BY <2>1, <2>2
<1>2. \A i \in DOMAIN t : u[i] = IF t[i] \in Range(s) THEN None ELSE t[i]
  BY DEF Unknown
<1> HIDE DEF u
<1>3. /\ r \in Seq(Paths \cup {None}) /\ n \in Nat /\ DOMAIN r = 1..(n + Len(t)) /\ DOMAIN s = 1..n
      /\ Len(t) \in Nat /\ DOMAIN t = 1..Len(t)
      /\ \A i \in DOMAIN s : r[i] = s[i]
      /\ \A i \in DOMAIN t : r[n + i] = u[i]
  <2>1. n \in Nat /\ DOMAIN s = 1..n /\ Len(t) \in Nat /\ DOMAIN t = 1..Len(t)
    OBVIOUS
  <2>2. r \in Seq(Paths \cup {None}) /\ DOMAIN r = 1..(n + Len(t))
    BY <1>1, SMTT(30)
  <2>3. \A i \in DOMAIN s : r[i] = s[i]
    BY <1>1, SMTT(30)
  <2>4. \A i \in DOMAIN t : r[n + i] = u[i]
    BY <1>1, SMTT(30)
  <2> QED
    BY <2>1, <2>2, <2>3, <2>4
<1>4. Joined(s, t) = r
  BY DEF Joined, u
<1> HIDE DEF r, n
<1>5. \A i \in Existing(s) : i \in Existing(r)
  BY <1>3 DEF Existing
<1>6. \A i \in DOMAIN s : s[i] \in Range(s)
  BY DEF Range
<1>7. \A x \in Range(s) : \E i \in DOMAIN s : s[i] = x
  BY DEF Range
<1>8. Existing(s) = {} => \A i \in Existing(t) : n + i \in Existing(r) /\ r[n + i] = t[i]
  <2> SUFFICES ASSUME Existing(s) = {}, NEW i \in Existing(t)
               PROVE  n + i \in Existing(r) /\ r[n + i] = t[i]
    OBVIOUS
  <2>1. i \in DOMAIN t /\ t[i] \in local
    BY DEF Existing
  <2>2. t[i] \notin Range(s)
    BY <1>7, <2>1 DEF Existing
  <2>3. r[n + i] = t[i] /\ n + i \in DOMAIN r
    BY <1>2, <1>3, <2>1, <2>2
  <2> QED
    BY <2>1, <2>3 DEF Existing
<1>9. ASSUME NEW i \in Existing(r), i \notin Existing(s) PROVE i - n \in Existing(t) /\ i > n
  <2>1. i \in DOMAIN r /\ r[i] \in local
    BY <1>9 DEF Existing
  <2>2. i > n
    BY <1>3, <1>9, <2>1 DEF Existing
  <2>3. i - n \in DOMAIN t /\ n + (i - n) = i
    BY <1>3, <2>1, <2>2
  <2>4. r[i] = u[i - n]
    BY <1>3, <2>3
  <2>5. u[i - n] = t[i - n]
    BY <1>2, <2>1, <2>3, <2>4
  <2> QED
    BY <2>1, <2>2, <2>3, <2>4, <2>5 DEF Existing
<1>10. Existing(r) = {} <=> Existing(s) = {} /\ Existing(t) = {}
  BY <1>5, <1>8, <1>9
<1>11. Existing(r) \in SUBSET Nat /\ Existing(s) \in SUBSET Nat /\ Existing(t) \in SUBSET Nat
  BY <1>3 DEF Existing
<1>12. ASSUME NEW m \in Existing(r), \A j \in Existing(r) : m <= j PROVE FirstExisting(r) = r[m]
  <2>1. Min(Existing(r)) = m
    BY <1>11, <1>12, MinOf
  <2> QED
    BY <2>1 DEF FirstExisting
<1>13. CASE Existing(s) # {}
  <2>1. PICK i \in Existing(s) : (\A j \in Existing(s) : i <= j) /\ FirstExisting(s) = s[i]
    BY <1>13, FirstIsThere
  <2>2. i \in Existing(r) /\ i \in DOMAIN s /\ r[i] = s[i] /\ i <= n /\ i \in Nat
    BY <1>3, <1>5 DEF Existing
  <2>3. ASSUME NEW j \in Existing(r) PROVE i <= j
    <3>1. CASE j \in Existing(s)
      BY <2>1, <3>1
    <3>2. CASE j \notin Existing(s)
      BY <1>3, <1>9, <1>11, <2>2, <3>2
    <3> QED
      BY <3>1, <3>2
  <2>4. FirstExisting(r) = r[i]
    BY <1>12, <2>2, <2>3
  <2> QED
    BY <1>3, <1>4, <1>10, <1>13, <2>1, <2>2, <2>4
<1>14. CASE Existing(s) = {} /\ Existing(t) # {}
  <2>1. PICK i \in Existing(t) : (\A j \in Existing(t) : i <= j) /\ FirstExisting(t) = t[i]
    BY <1>14, FirstIsThere
  <2>2. n + i \in Existing(r) /\ r[n + i] = t[i] /\ i \in Nat
    BY <1>8, <1>11, <1>14
  <2>3. ASSUME NEW j \in Existing(r) PROVE n + i <= j
    <3>1. j - n \in Existing(t) /\ j \in Nat
      BY <1>9, <1>11, <1>14
    <3>2. i <= j - n
      BY <2>1, <3>1
    <3> QED
      BY <1>3, <2>2, <3>1, <3>2
  <2>4. FirstExisting(r) = r[n + i]
    BY <1>12, <2>2, <2>3
  <2> QED
    BY <1>3, <1>4, <1>10, <1>14, <2>1, <2>2, <2>4
<1>15. CASE Existing(s) = {} /\ Existing(t) = {}
  BY <1>3, <1>4, <1>10, <1>15
<1> QED
  BY <1>13, <1>14, <1>15

LEMMA UpdatedEntry ==
    ASSUME NEW old \in Entries \cup {None}, NEW new \in Entries \cup {None}, None \notin local
    PROVE  /\ Updated(old, new) \in Entries \cup {None}
           /\ Updated(old, new) # None <=> old # None \/ new # None
           /\ old # None /\ new # None => Updated(old, new).paths = Joined(old.paths, new.paths)
<1>1. CASE old = None \/ new = None
  BY <1>1 DEF Updated
<1>2. CASE old # None /\ new # None
  <2>1. old \in Entries /\ new \in Entries
    BY <1>2
  <2>2. old.paths \in Seq(Paths \cup {None}) /\ new.paths \in Seq(Paths \cup {None})
    BY <2>1 DEF Entries
  <2>3. Joined(old.paths, new.paths) \in Seq(Paths \cup {None})
    BY <2>2, ExistingJoined
  <2>4. Updated(old, new) \in Entries /\ Updated(old, new).paths = Joined(old.paths, new.paths)
    BY <1>2, <2>1, <2>3 DEF Updated, Entries
  <2> QED
    BY <1>2, <2>4
<1> QED
  BY <1>1, <1>2

(* An entry of the table stands for those of the configs: it is there if one of *)
(* them is, and its first existing path is that of the first config that has    *)
(* one.                                                                         *)
HasPath(entry) == entry # None /\ Existing(entry.paths) # {}

FirstWithPath(cs, pl, n, i) == \A j \in 1..n : HasPath(cs[j][pl]) => i <= j

StandsFor(entry, cs, pl, n) ==
    /\ entry \in Entries \cup {None}
    /\ entry # None <=> \E i \in 1..n : cs[i][pl] # None
    /\ HasPath(entry) => \E i \in 1..n :
           /\ HasPath(cs[i][pl]) /\ FirstWithPath(cs, pl, n, i)
           /\ FirstExisting(entry.paths) = FirstExisting(cs[i][pl].paths)
    /\ ~HasPath(entry) => \A i \in 1..n : ~HasPath(cs[i][pl])

LEMMA NoneStands == ASSUME NEW cs, NEW pl PROVE StandsFor(None, cs, pl, 0)
<1>1. \A i \in 1..0 : FALSE
  OBVIOUS
<1> QED
  BY <1>1 DEF StandsFor, HasPath

LEMMA UpdatedStands ==
    ASSUME NEW cs \in Configs, NEW pl \in Platforms, NEW m \in Nat, NEW n \in Nat, n = m + 1,
           n <= Len(cs), NEW old, StandsFor(old, cs, pl, m), None \notin local
    PROVE  StandsFor(Updated(old, cs[n][pl]), cs, pl, n)
<1> DEFINE new == cs[n][pl]
           e   == Updated(old, new)
<1>1. new \in Entries \cup {None} /\ old \in Entries \cup {None}
  <2>1. cs \in Seq([Platforms -> Entries \cup {None}]) /\ n \in 1..Len(cs)
    OBVIOUS
  <2>2. cs[n] \in [Platforms -> Entries \cup {None}]
    BY <2>1
  <2> QED
    BY <2>2 DEF StandsFor
<1>2. 1..n = 1..m \cup {n} /\ n \notin 1..m /\ \A i \in 1..m : i < n /\ i \in Nat
  OBVIOUS
<1>3. /\ e \in Entries \cup {None}
      /\ e # None <=> old # None \/ new # None
      /\ old # None /\ new # None => e.paths = Joined(old.paths, new.paths)
      /\ old = None => e = new
      /\ new = None => e = old
  BY <1>1, UpdatedEntry DEF Updated
<1> HIDE DEF e
<1>4. /\ HasPath(e) <=> HasPath(old) \/ HasPath(new)
      /\ HasPath(old) => FirstExisting(e.paths) = FirstExisting(old.paths)
      /\ ~HasPath(old) /\ HasPath(new) => FirstExisting(e.paths) = FirstExisting(new.paths)
  <2>1. CASE old = None \/ new = None
    BY <2>1, <1>3 DEF HasPath
  <2>2. CASE old # None /\ new # None
    <3>1. old.paths \in Seq(Paths \cup {None}) /\ new.paths \in Seq(Paths \cup {None})
      BY <2>2, <1>1 DEF Entries
    <3> DEFINE s == old.paths
               t == new.paths
    <3>2. /\ Existing(Joined(s, t)) = {} <=> Existing(s) = {} /\ Existing(t) = {}
          /\ Existing(s) # {} => FirstExisting(Joined(s, t)) = FirstExisting(s)
          /\ Existing(s) = {} /\ Existing(t) # {} => FirstExisting(Joined(s, t)) = FirstExisting(t)
      BY <3>1, ExistingJoined
    <3>3. e.paths = Joined(s, t) /\ e # None
      BY <2>2, <1>3
    <3> HIDE DEF s, t
    <3>4. HasPath(old) <=> Existing(s) # {}
      BY <2>2 DEF HasPath, s
    <3>5. HasPath(new) <=> Existing(t) # {}
      BY <2>2 DEF HasPath, t
    <3>6. HasPath(e) <=> Existing(Joined(s, t)) # {}
      BY <3>3 DEF HasPath
    <3> QED
      BY <3>2, <3>3, <3>4, <3>5, <3>6 DEF s, t
  <2> QED
    BY <2>1, <2>2
<1>5. e # None <=> \E i \in 1..n : cs[i][pl] # None
  BY <1>2, <1>3 DEF StandsFor
<1>6. ASSUME ~HasPath(e), NEW i \in 1..n PROVE ~HasPath(cs[i][pl])
  BY <1>2, <1>4, <1>6 DEF StandsFor
<1>7. ASSUME HasPath(e)
      PROVE  \E i \in 1..n :
                /\ HasPath(cs[i][pl]) /\ FirstWithPath(cs, pl, n, i)
                /\ FirstExisting(e.paths) = FirstExisting(cs[i][pl].paths)
  <2>1. CASE HasPath(old)
    <3>1. PICK i \in 1..m :
             /\ HasPath(cs[i][pl]) /\ FirstWithPath(cs, pl, m, i)
             /\ FirstExisting(old.paths) = FirstExisting(cs[i][pl].paths)
      BY <2>1 DEF StandsFor
    <3>2. FirstWithPath(cs, pl, n, i)
      BY <3>1, <1>2 DEF FirstWithPath
    <3> QED
      BY <3>1, <3>2, <2>1, <1>2, <1>4
  <2>2. CASE ~HasPath(old)
    <3>1. \A i \in 1..m : ~HasPath(cs[i][pl])
      BY <2>2 DEF StandsFor
    <3>2. FirstWithPath(cs, pl, n, n)
      BY <3>1, <1>2 DEF FirstWithPath
    <3> QED
      BY <3>2, <2>2, <1>2, <1>4, <1>7
  <2> QED
    BY <2>1, <2>2
<1> HIDE DEF new
<1>8. StandsFor(e, cs, pl, n)
  BY <1>3, <1>5, <1>6, <1>7 DEF StandsFor
<1> QED
  BY <1>8 DEF e, new

LEMMA TableStands ==
    ASSUME NEW cs \in Configs, NEW pl \in Platforms, None \notin local
    PROVE  StandsFor(Table(cs)[pl], cs, pl, Len(cs))
<1> DEFINE N == Len(cs)
<1>1. N \in Nat
  OBVIOUS
<1>2. PICK f :
        /\ Table(cs) = f[N]
        /\ \A i \in 0..N : f[i] = [x \in Platforms |->
               IF i = 0 THEN None ELSE Updated(f[i - 1][x], cs[i][x])]
  BY MergedEquation
<1> HIDE DEF N
<1> DEFINE Bad == {n \in 0..N : ~StandsFor(f[n][pl], cs, pl, n)}
<1>3. Bad = {}
  <2> SUFFICES ASSUME Bad # {} PROVE FALSE
    OBVIOUS
  <2>1. PICK n \in Bad : \A m \in Bad : n <= m
    <3>1. Bad \in SUBSET Nat
      BY <1>1
    <3> QED
      BY <3>1, FirstOf
  <2>2. n \in 0..N /\ n \in Nat
    BY <1>1
  <2>3. CASE n = 0
    <3>1. f[n][pl] = None
      <4>1. f[0] = [x \in Platforms |-> None]
        BY <1>1, <1>2
      <4> QED
        BY <2>3, <4>1
    <3> QED
      BY <2>3, <3>1, NoneStands
  <2>4. CASE n # 0
    <3>1. PICK m \in Nat : n = m + 1 /\ m = n - 1 /\ m \in 0..N /\ m < n
      BY <1>1, <2>2, <2>4
    <3>2. StandsFor(f[m][pl], cs, pl, m)
      BY <2>1, <2>2, <3>1
    <3>3. f[n][pl] = Updated(f[m][pl], cs[n][pl])
      <4>1. f[n] = [x \in Platforms |-> Updated(f[n - 1][x], cs[n][x])]
        BY <1>2, <2>2, <2>4
      <4> QED
        BY <3>1, <4>1
    <3>4. n <= Len(cs)
      BY <1>1, <2>2 DEF N
    <3>5. StandsFor(Updated(f[m][pl], cs[n][pl]), cs, pl, n)
      BY <2>2, <3>1, <3>2, <3>4, UpdatedStands
    <3> QED
      BY <3>3, <3>5
  <2> QED
    BY <2>3, <2>4
<1>4. StandsFor(f[N][pl], cs, pl, N)
  BY <1>1, <1>3
<1> QED
  BY <1>2, <1>4 DEF N

--------------------------------------------------------------------------------
(* What a step of one call leaves alone.                                        *)

Active == {"unzip?", "stale", "open", "extract", "again?", "exists?"}

OthersSame(p) == \A q \in Procs \ {p} : job'[q] = job[q]

LEMMA Moves ==
    ASSUME TypeOK, CallInv, NEW p \in Procs, NEW c \in Jobs, CallOK(c), job' = [job EXCEPT ![p] = c]
    PROVE  job' \in [Procs -> Jobs] /\ job'[p] = c /\ OthersSame(p) /\ CallInv'
BY DEF TypeOK, OthersSame, CallInv

(* A version that the call was not extracting, and is not at now, is as it was. *)
LEMMA SpotKept ==
    ASSUME NEW pl, NEW h, SpotInv(pl, h), NEW p \in Procs, OthersSame(p),
           p \in Users(pl, h) => job[p].pc # "extract",
           p \in Users(pl, h)' => job'[p].pc \notin Active,
           file'[pl] = file[pl], dir'[pl][h] = dir[pl][h]
    PROVE  SpotInv(pl, h)'
<1>1. ASSUME NEW q \in Users(pl, h)', job'[q].pc \in Active
      PROVE  q \in Users(pl, h) /\ job'[q] = job[q] /\ q # p
  BY <1>1 DEF Users, OthersSame
<1>2. FileInv(pl, h)'
  BY <1>1 DEF SpotInv, FileInv, Active
<1>4. ExtractInv(pl, h)'
  BY <1>1 DEF SpotInv, ExtractInv, Active
<1>5. Extracted(pl, h) => Extracted(pl, h)'
  BY DEF Extracted, Users, OthersSame
<1>6. DirInv(pl, h)'
  BY <1>1, <1>5 DEF SpotInv, DirInv, Active
<1> QED
  BY <1>2, <1>4, <1>6 DEF SpotInv

(* A call that leaves, without having extracted in part, disturbs nothing.      *)
LEMMA LeaveKeeps ==
    ASSUME IInv, NEW p \in Procs, NEW c \in Jobs, CallOK(c), job' = [job EXCEPT ![p] = c],
           c.pc \notin Active, UNCHANGED <<configs, mac, file, dir>>, local' \subseteq Paths,
           events' \in 0..MaxEvents, spoilt \subseteq spoilt', spoilt' \subseteq Platforms \X Hashes,
           job[p].pc = "extract" /\ job[p].left # {} => At(p) \in spoilt'
    PROVE  IInv'
<1>1. job' \in [Procs -> Jobs] /\ job'[p] = c /\ OthersSame(p) /\ CallInv'
  BY Moves DEF IInv
<1>2. TypeOK'
  BY <1>1 DEF IInv, TypeOK
<1>3. ASSUME NEW pl \in Platforms, NEW h \in Hashes, <<pl, h>> \notin spoilt' PROVE SpotInv(pl, h)'
  <2>1. SpotInv(pl, h)
    BY <1>3 DEF IInv, ArchiveInv
  <2>2. p \in Users(pl, h)' => job'[p].pc \notin Active
    BY <1>1
  <2>3. CASE ~(p \in Users(pl, h) /\ job[p].pc = "extract")
    BY <2>1, <2>2, <2>3, <1>1, SpotKept
  <2>4. CASE p \in Users(pl, h) /\ job[p].pc = "extract"
    <3>1. At(p) = <<pl, h>>
      BY <2>4 DEF Users, At
    <3>2. job[p].left = {}
      BY <3>1, <2>4, <1>3
    <3>3. \A m \in Members : dir[pl][h][m] = h
      BY <3>2, <2>1, <2>4 DEF SpotInv, ExtractInv
    <3>4. dir[pl][h] = Whole(h)
      <4>1. dir[pl][h] \in [Members -> Hashes \cup {None}]
        BY DEF IInv, TypeOK
      <4> QED
        BY <4>1, <3>3 DEF Whole
    <3>5. ASSUME NEW q \in Users(pl, h)', job'[q].pc \in Active
          PROVE  q \in Users(pl, h) /\ job'[q] = job[q] /\ q # p
      BY <3>5, <1>1 DEF Users, OthersSame
    <3>6. FileInv(pl, h)' /\ ExtractInv(pl, h)'
      BY <3>5, <2>1 DEF SpotInv, FileInv, ExtractInv, Active
    <3>7. DirInv(pl, h)'
      BY <3>4 DEF DirInv, Whole
    <3> QED
      BY <3>6, <3>7 DEF SpotInv
  <2> QED
    BY <2>3, <2>4
<1> QED
  BY <1>1, <1>2, <1>3 DEF IInv, ArchiveInv

--------------------------------------------------------------------------------
(* Calls that begin, look up and end.                                           *)

LEMMA WantedPlaces ==
    /\ Len(Wanted) \in Nat /\ Len(Wanted) > 0 /\ Default \in Platforms
    /\ \A i \in 1..Len(Wanted) : Wanted[i] \in Platforms
BY DEF Platforms

LEMMA EndedCall ==
    ASSUME NEW path \in Paths \cup {"remote", None}
    PROVE  /\ Ended(path) \in Jobs /\ CallOK(Ended(path))
           /\ Ended(path).pc = "idle" /\ Ended(path).path = path
<1> DEFINE c == Ended(path)
<1>1. c \in Jobs /\ c.pc = "idle" /\ c.path = path
  BY WantedPlaces DEF Jobs, Ended, Call
<1> HIDE DEF c
<1>2. CallOK(c)
  BY <1>1 DEF CallOK
<1> QED
  BY <1>1, <1>2 DEF c

LEMMA StartedCall ==
    ASSUME NEW n \in 1..Len(Wanted), NEW prefetch \in BOOLEAN
    PROVE  /\ Started(n, prefetch) \in Jobs /\ CallOK(Started(n, prefetch))
           /\ Started(n, prefetch).pc = "lookup" /\ Started(n, prefetch).path = None
<1> DEFINE c == Started(n, prefetch)
<1>1. n \in 0..Len(Wanted) /\ n > 0
  BY WantedPlaces
<1>2. c \in Jobs /\ c.pc = "lookup" /\ c.path = None /\ c.turn = n
  BY <1>1, WantedPlaces DEF Jobs, Started, Call
<1> HIDE DEF c
<1>3. CallOK(c)
  BY <1>1, <1>2 DEF CallOK
<1> QED
  BY <1>2, <1>3 DEF c

LEMMA Field == ASSUME IInv, NEW p \in Procs
               PROVE  /\ job[p] \in Jobs /\ CallOK(job[p]) /\ job[p].place \in Platforms
                      /\ job[p].turn \in 0..Len(Wanted) /\ job[p].left \in SUBSET Members
                      /\ job[p].hash \in Hashes \cup {None} /\ job[p].source \in Hashes \cup {None}
                      /\ job[p].zip \in BOOLEAN /\ job[p].prefetch \in BOOLEAN
BY DEF IInv, TypeOK, CallInv, Jobs

LEMMA StartKeeps == ASSUME IInv, NEW p \in Procs, FetchPath(p) \/ PrefetchPaths(p) PROVE IInv'
<1>1. PICK n \in 1..Len(Wanted), prefetch \in BOOLEAN : job' = [job EXCEPT ![p] = Started(n, prefetch)]
  <2>1. 1 \in 1..Len(Wanted) /\ Len(Wanted) \in 1..Len(Wanted)
    BY WantedPlaces
  <2>2. CASE FetchPath(p)
    BY <2>1, <2>2 DEF FetchPath
  <2>3. CASE PrefetchPaths(p)
    BY <2>1, <2>3 DEF PrefetchPaths
  <2> QED
    BY <2>2, <2>3
<1> DEFINE c == Started(n, prefetch)
<1>2. c \in Jobs /\ CallOK(c) /\ c.pc = "lookup"
  BY StartedCall
<1>3. /\ UNCHANGED <<configs, mac, local, file, dir, events, spoilt>> /\ job[p].pc = "idle"
      /\ job' = [job EXCEPT ![p] = c]
  BY <1>1 DEF FetchPath, PrefetchPaths, disk
<1> HIDE DEF c
<1>4. /\ local' \subseteq Paths /\ events' \in 0..MaxEvents /\ spoilt' \subseteq Platforms \X Hashes
      /\ c.pc \notin Active /\ spoilt \subseteq spoilt'
  BY <1>2, <1>3 DEF IInv, TypeOK, Active
<1> QED
  BY <1>2, <1>3, <1>4, LeaveKeeps

(* The end of a call, however it comes.                                         *)
LEMMA EndKeeps ==
    ASSUME IInv, NEW p \in Procs, UNCHANGED <<configs, mac, file, dir>>, local' \subseteq Paths,
           events' \in 0..MaxEvents, spoilt \subseteq spoilt', spoilt' \subseteq Platforms \X Hashes,
           job[p].pc = "extract" /\ job[p].left # {} => At(p) \in spoilt',
           \/ Raise(p)
           \/ \E path \in Paths \cup {"remote", None} : Return(p, path)
           \/ NoPathFound(p)
    PROVE  IInv'
<1>1. ASSUME NEW path \in Paths \cup {"remote", None}, job' = [job EXCEPT ![p] = Ended(path)]
      PROVE  IInv'
  <2> DEFINE c == Ended(path)
  <2>1. job' = [job EXCEPT ![p] = c] /\ c \in Jobs /\ CallOK(c) /\ c.pc \notin Active
    BY <1>1, EndedCall DEF Active
  <2> HIDE DEF c
  <2> QED
    BY <2>1, LeaveKeeps
<1>2. CASE Raise(p) \/ \E path \in Paths \cup {"remote", None} : Return(p, path)
  BY <1>1, <1>2 DEF Raise, Return
<1>3. CASE NoPathFound(p)
  <2>1. CASE ~(job[p].turn < Len(Wanted))
    BY <2>1, <1>2, <1>3 DEF NoPathFound
  <2>2. CASE job[p].turn < Len(Wanted)
    <3>1. PICK n \in 1..Len(Wanted) : n = job[p].turn + 1
      BY <2>2, Field, WantedPlaces
    <3> DEFINE c == Started(n, FALSE)
    <3>2. job' = [job EXCEPT ![p] = c]
      BY <1>3, <2>2, <3>1 DEF NoPathFound
    <3>3. c \in Jobs /\ CallOK(c) /\ c.pc \notin Active
      BY StartedCall DEF Active
    <3> HIDE DEF c
    <3> QED
      BY <3>2, <3>3, LeaveKeeps
  <2> QED
    BY <2>1, <2>2
<1> QED
  BY <1>2, <1>3

(* What the table says of the platform that is asked for.                       *)
Place(p) == PlaceOf(Table(configs[p]), Wanted[job[p].turn])
Info(p)  == Table(configs[p])[Place(p)]

LEMMA LookedUp ==
    ASSUME IInv, NEW p \in Procs, job[p].pc = "lookup"
    PROVE  /\ Wanted[job[p].turn] \in Platforms /\ configs[p] \in Configs
           /\ Place(p) \in Platforms /\ Info(p) \in Entries \cup {None}
           /\ local \subseteq Paths /\ None \notin local
<1> local \subseteq Paths /\ None \notin local
  BY DEF IInv, TypeOK
<1>1. job[p].turn \in 1..Len(Wanted)
  BY Field, WantedPlaces DEF CallOK
<1>2. Wanted[job[p].turn] \in Platforms
  BY <1>1, WantedPlaces
<1>3. Place(p) \in Platforms
  BY <1>2, WantedPlaces DEF Place, PlaceOf
<1>4. configs[p] \in Configs
  BY DEF IInv, TypeOK
<1> QED
  BY <1>2, <1>3, <1>4, TableStands DEF Info, StandsFor

LEMMA LookupKeeps == ASSUME IInv, NEW p \in Procs, Lookup(p) PROVE IInv'
<1> DEFINE info == Info(p)
<1>1. /\ Place(p) \in Platforms /\ info \in Entries \cup {None}
      /\ local \subseteq Paths
      /\ job[p].pc = "lookup" /\ UNCHANGED <<configs, mac, local, file, dir, events, spoilt>>
  BY LookedUp DEF Lookup, disk
<1>2. /\ local' \subseteq Paths /\ events' \in 0..MaxEvents /\ spoilt' \subseteq Platforms \X Hashes
      /\ spoilt \subseteq spoilt'
  BY <1>1 DEF IInv, TypeOK
<1>3. \/ NoPathFound(p)
      \/ info # None /\ Existing(info.paths) # {} /\ Return(p, FirstExisting(info.paths))
      \/ /\ info # None /\ info.hash # None
         /\ job' = [job EXCEPT ![p].pc = "fetch", ![p].place = Place(p),
                               ![p].hash = info.hash, ![p].zip = info.zip]
  BY DEF Lookup, Info, Place
<1> HIDE DEF info
<1>4. CASE NoPathFound(p)
  BY <1>1, <1>2, <1>4, EndKeeps
<1>5. CASE info # None /\ Existing(info.paths) # {} /\ Return(p, FirstExisting(info.paths))
  <2>1. FirstExisting(info.paths) \in Paths
    <3>1. info.paths \in Seq(Paths \cup {None})
      BY <1>1, <1>5 DEF Entries
    <3> QED
      BY <3>1, <1>1, <1>5, FirstIsThere
  <2> QED
    BY <1>1, <1>2, <1>5, <2>1, EndKeeps
<1>6. CASE /\ info # None /\ info.hash # None
           /\ job' = [job EXCEPT ![p].pc = "fetch", ![p].place = Place(p),
                                 ![p].hash = info.hash, ![p].zip = info.zip]
  <2> DEFINE c1 == [job[p] EXCEPT !.pc = "fetch"]
             c2 == [c1 EXCEPT !.place = Place(p)]
             c3 == [c2 EXCEPT !.hash = info.hash]
             c  == [c3 EXCEPT !.zip = info.zip]
  <2>1. info.hash \in Hashes \cup {None} /\ info.zip \in BOOLEAN
    BY <1>1, <1>6 DEF Entries
  <2>2. job[p] \in Jobs /\ job[p].path = None
    BY <1>1, Field DEF CallOK
  <2>3. c \in Jobs /\ c.pc = "fetch" /\ c.hash = info.hash /\ c.path = None
    <3>1. c1 \in Jobs /\ c1.pc = "fetch" /\ c1.path = None
      BY <2>2 DEF Jobs
    <3> HIDE DEF c1
    <3>2. c2 \in Jobs /\ c2.pc = "fetch" /\ c2.path = None
      BY <1>1, <3>1 DEF Jobs
    <3> HIDE DEF c2
    <3>3. c3 \in Jobs /\ c3.pc = "fetch" /\ c3.path = None /\ c3.hash = info.hash
      BY <2>1, <3>2 DEF Jobs
    <3> HIDE DEF c3
    <3> QED
      BY <2>1, <3>3 DEF Jobs
  <2>4. job' = [job EXCEPT ![p] = c]
    BY <1>6
  <2> HIDE DEF c
  <2>5. CallOK(c) /\ c.pc \notin Active
    BY <1>6, <2>3 DEF CallOK, Active
  <2> QED
    BY <1>1, <1>2, <2>3, <2>4, <2>5, LeaveKeeps
<1> QED
  BY <1>3, <1>4, <1>5, <1>6

LEMMA DownloadFailsKeeps == ASSUME IInv, NEW p \in Procs, DownloadFails(p) PROVE IInv'
<1>1. /\ UNCHANGED <<configs, mac, local, file, dir, spoilt>> /\ Raise(p) /\ job[p].pc = "fetch"
      /\ events < MaxEvents /\ events' = events + 1
  BY DEF DownloadFails, disk, Event
<1>2. /\ local' \subseteq Paths /\ events' \in 0..MaxEvents /\ spoilt' \subseteq Platforms \X Hashes
      /\ spoilt \subseteq spoilt'
  BY <1>1 DEF IInv, TypeOK
<1> QED
  BY <1>1, <1>2, EndKeeps

LEMMA ReturnRemoteKeeps == ASSUME IInv, NEW p \in Procs, ReturnRemote(p) PROVE IInv'
<1>1. /\ UNCHANGED <<configs, mac, local, file, dir, events, spoilt>> /\ job[p].pc = "exists?"
      /\ Return(p, "remote") \/ NoPathFound(p)
  BY DEF ReturnRemote, disk
<1>2. /\ local' \subseteq Paths /\ events' \in 0..MaxEvents /\ spoilt' \subseteq Platforms \X Hashes
      /\ spoilt \subseteq spoilt'
  BY <1>1 DEF IInv, TypeOK
<1> QED
  BY <1>1, <1>2, EndKeeps

LEMMA DieKeeps == ASSUME IInv, NEW p \in Procs, Die(p) PROVE IInv'
<1>1. /\ UNCHANGED <<configs, mac, local, file, dir>> /\ Raise(p)
      /\ events < MaxEvents /\ events' = events + 1
      /\ spoilt' = IF job[p].pc = "extract" /\ job[p].left # {} THEN spoilt \cup {At(p)} ELSE spoilt
  BY DEF Die, disk, Event
<1>2. job[p].pc = "extract" => At(p) \in Platforms \X Hashes
  BY Field DEF CallOK, At
<1>3. /\ local' \subseteq Paths /\ events' \in 0..MaxEvents
      /\ spoilt' \subseteq Platforms \X Hashes /\ spoilt \subseteq spoilt'
  BY <1>1, <1>2 DEF IInv, TypeOK
<1> QED
  BY <1>1, <1>3, EndKeeps

LEMMA LocalChangeKeeps == ASSUME IInv, LocalChange PROVE IInv'
<1>1. /\ UNCHANGED <<configs, mac, file, dir, job, spoilt>> /\ local' \subseteq Paths
      /\ events' \in 0..MaxEvents
  BY DEF LocalChange, Event, IInv, TypeOK
<1>2. TypeOK' /\ CallInv'
  BY <1>1 DEF IInv, TypeOK, CallInv
<1>3. ArchiveInv'
  BY <1>1 DEF IInv, ArchiveInv, SpotInv, FileInv, ExtractInv, DirInv, Extracted, Users
<1> QED
  BY <1>2, <1>3 DEF IInv

--------------------------------------------------------------------------------
(* Steps of a call that stays at its version.                                   *)

AfterFetch == {"unzip?", "stale", "open", "extract", "again?"}

LEMMA GoesOn ==
    ASSUME IInv, NEW p \in Procs, NEW there \in AfterFetch \cup {"exists?"},
           job[p].pc \notin {"idle", "lookup"}, there \in AfterFetch => job[p].zip, Go(p, there)
    PROVE  /\ job' \in [Procs -> Jobs] /\ OthersSame(p) /\ CallInv'
           /\ job'[p].pc = there /\ job'[p].zip = job[p].zip
           /\ job'[p].left = job[p].left /\ job'[p].source = job[p].source
           /\ job'[p].place = job[p].place /\ job'[p].hash = job[p].hash
           /\ job[p].place \in Platforms /\ job[p].hash \in Hashes
           /\ \A pl, h : Users(pl, h)' = Users(pl, h)
<1> DEFINE c == [job[p] EXCEPT !.pc = there]
<1>1. job[p] \in Jobs /\ job[p].path = None /\ job[p].hash # None
  BY Field DEF CallOK
<1>2. there # "idle" /\ there # "lookup"
  BY DEF AfterFetch
<1>3. /\ c \in Jobs /\ c.pc = there /\ c.path = None /\ c.hash = job[p].hash /\ c.zip = job[p].zip
      /\ c.place = job[p].place /\ c.left = job[p].left /\ c.source = job[p].source
  BY <1>1 DEF Jobs, AfterFetch
<1>4. job' = [job EXCEPT ![p] = c]
  BY DEF Go
<1> HIDE DEF c
<1>5. CallOK(c)
  BY <1>1, <1>2, <1>3 DEF CallOK, AfterFetch
<1>6. job' \in [Procs -> Jobs] /\ job'[p] = c /\ OthersSame(p) /\ CallInv'
  BY <1>3, <1>4, <1>5, Moves DEF IInv
<1>7. job[p].place \in Platforms /\ job[p].hash \in Hashes
  BY <1>1, Field
<1>8. ASSUME NEW pl, NEW h PROVE Users(pl, h)' = Users(pl, h)
  BY <1>3, <1>6 DEF Users, OthersSame
<1> QED
  BY <1>3, <1>6, <1>7, <1>8

LEMMA GotKeeps ==
    ASSUME IInv, NEW p \in Procs, NEW version \in Hashes, job[p].pc = "fetch", Got(p, version),
           events' \in 0..MaxEvents
    PROVE  IInv'
<1> DEFINE there == IF job[p].zip THEN "unzip?" ELSE "exists?"
           hit == {q \in Others(p, {"unzip?", "stale", "open", "exists?"}) \cup {p} :
                      job[q].hash # version}
<1>1. /\ job[p].pc = "fetch" /\ file' = [file EXCEPT ![job[p].place] = version]
      /\ spoilt' = spoilt \cup {At(q) : q \in hit} /\ Go(p, there)
      /\ UNCHANGED <<configs, mac, local, dir>>
  BY DEF Got
<1>2. /\ there \in AfterFetch \cup {"exists?"} /\ (there \in AfterFetch => job[p].zip)
      /\ (job[p].zip => there = "unzip?") /\ (~job[p].zip => there = "exists?")
  BY DEF AfterFetch
<1>3. hit \subseteq Procs /\ \A q \in hit : job[q].pc \notin {"idle", "lookup"}
  BY <1>1 DEF Others
<1> HIDE DEF there
<1>4. /\ job' \in [Procs -> Jobs] /\ OthersSame(p) /\ CallInv'
      /\ job'[p].pc = there /\ job'[p].zip = job[p].zip
      /\ job'[p].place = job[p].place /\ job'[p].hash = job[p].hash
      /\ job[p].place \in Platforms /\ job[p].hash \in Hashes
      /\ \A pl, h : Users(pl, h)' = Users(pl, h)
  BY <1>1, <1>2, GoesOn
<1>5. TypeOK'
  <2>1. \A q \in hit : At(q) \in Platforms \X Hashes
    BY <1>3, Field DEF CallOK, At
  <2> HIDE DEF hit
  <2>2. spoilt' \subseteq Platforms \X Hashes
    BY <1>1, <2>1 DEF IInv, TypeOK
  <2> QED
    BY <1>1, <1>4, <2>2 DEF IInv, TypeOK
<1>6. ASSUME NEW pl \in Platforms, NEW h \in Hashes, <<pl, h>> \notin spoilt' PROVE SpotInv(pl, h)'
  <2>1. SpotInv(pl, h)
    BY <1>1, <1>6 DEF IInv, ArchiveInv
  <2>2. dir'[pl][h] = dir[pl][h]
    BY <1>1
  <2>3. ASSUME NEW q \in Users(pl, h), q # p PROVE job'[q] = job[q]
    BY <2>3, <1>4 DEF OthersSame, Users
  <2>4. job'[p].pc \notin {"open", "extract", "stale", "again?"} /\ job'[p].pc \in {"unzip?", "exists?"}
    BY <1>2, <1>4
  <2>5. ExtractInv(pl, h)'
    BY <1>4, <2>1, <2>2, <2>3, <2>4 DEF SpotInv, ExtractInv
  <2>6. Extracted(pl, h) => Extracted(pl, h)'
    BY <1>1, <1>4, <2>3 DEF Extracted
  <2>7. job'[p].pc = "exists?" => ~job'[p].zip
    BY <1>2, <1>4
  <2>8. DirInv(pl, h)'
    BY <1>4, <2>1, <2>2, <2>3, <2>4, <2>6, <2>7 DEF SpotInv, DirInv
  <2>9. FileInv(pl, h)'
    <3>1. CASE pl = job[p].place /\ h = version
      <4>1. file'[pl] = h
        BY <1>1, <1>4, <3>1 DEF IInv, TypeOK
      <4> QED
        BY <4>1 DEF FileInv
    <3>2. CASE pl = job[p].place /\ h # version
      <4>1. ASSUME NEW q \in Users(pl, h), q # p
            PROVE  job[q].pc \notin {"unzip?", "stale", "open", "exists?"}
        <5>1. CASE job[q].pc \in {"unzip?", "stale", "open", "exists?"}
          <6>1. q \in hit /\ At(q) = <<pl, h>>
            BY <5>1, <3>2, <4>1 DEF Users, Others, At
          <6> QED
            BY <6>1, <1>1, <1>6
        <5> QED
          BY <5>1
      <4>2. p \notin Users(pl, h)
        <5>1. CASE p \in Users(pl, h)
          <6>1. p \in hit /\ At(p) = <<pl, h>>
            BY <5>1, <3>2 DEF Users, At
          <6> QED
            BY <6>1, <1>1, <1>6
        <5> QED
          BY <5>1
      <4> QED
        BY <1>4, <2>3, <4>1, <4>2 DEF FileInv
    <3>3. CASE pl # job[p].place
      <4>1. p \notin Users(pl, h) /\ file'[pl] = file[pl]
        BY <1>1, <3>3 DEF Users
      <4> QED
        BY <1>4, <2>1, <2>3, <4>1 DEF SpotInv, FileInv
    <3> QED
      BY <3>1, <3>2, <3>3
  <2> QED
    BY <2>5, <2>8, <2>9 DEF SpotInv
<1> QED
  BY <1>4, <1>5, <1>6 DEF IInv, ArchiveInv

LEMMA GetIfHashChangedKeeps ==
    ASSUME IInv, NEW p \in Procs, GetIfHashChanged(p) \/ WrongDownload(p) PROVE IInv'
<1>1. job[p].pc = "fetch" /\ \E version \in Hashes \cup {job[p].hash} : Got(p, version)
  BY DEF GetIfHashChanged, WrongDownload
<1>2. job[p].hash \in Hashes
  BY <1>1, Field DEF CallOK
<1>3. events' \in 0..MaxEvents
  BY DEF GetIfHashChanged, WrongDownload, Event, IInv, TypeOK
<1> QED
  BY <1>1, <1>2, <1>3, GotKeeps

(* A step of the call that changes no file, and its directory at most.          *)
LEMMA ElsewhereKept ==
    ASSUME NEW p \in Procs, OthersSame(p), NEW pl, NEW h, SpotInv(pl, h), p \notin Users(pl, h),
           Users(pl, h)' = Users(pl, h), file' = file, dir'[pl][h] = dir[pl][h]
    PROVE  SpotInv(pl, h)'
BY SpotKept

LEMMA ShouldUnzipKeeps == ASSUME IInv, NEW p \in Procs, ShouldUnzip(p) PROVE IInv'
<1> DEFINE there == IF DependencyIsMissing(Here(p)) THEN "stale" ELSE "exists?"
<1>1. job[p].pc = "unzip?" /\ Go(p, there) /\ UNCHANGED <<configs, mac, local, file, dir, events, spoilt>>
  BY DEF ShouldUnzip, disk
<1>2. there \in AfterFetch \cup {"exists?"} /\ job[p].zip
  BY <1>1, Field DEF AfterFetch, CallOK
<1>3. there \in {"stale", "exists?"} /\ (there = "exists?" => Here(p)["dependency"] # None)
  BY DEF DependencyIsMissing
<1> HIDE DEF there
<1>4. /\ job' \in [Procs -> Jobs] /\ OthersSame(p) /\ CallInv'
      /\ job'[p].pc = there /\ job'[p].zip = job[p].zip
      /\ job'[p].place = job[p].place /\ job'[p].hash = job[p].hash
      /\ job[p].place \in Platforms /\ job[p].hash \in Hashes
      /\ \A pl, h : Users(pl, h)' = Users(pl, h)
  BY <1>1, <1>2, GoesOn
<1>5. TypeOK'
  BY <1>1, <1>4 DEF IInv, TypeOK
<1>6. ASSUME NEW pl \in Platforms, NEW h \in Hashes, <<pl, h>> \notin spoilt' PROVE SpotInv(pl, h)'
  <2>1. SpotInv(pl, h)
    BY <1>1, <1>6 DEF IInv, ArchiveInv
  <2>2. CASE p \notin Users(pl, h)
    BY <1>1, <1>4, <2>1, <2>2, ElsewhereKept
  <2>3. CASE p \in Users(pl, h)
    <3>1. ASSUME NEW q \in Users(pl, h), q # p PROVE job'[q] = job[q]
      BY <3>1, <1>4 DEF OthersSame, Users
    <3>2. FileInv(pl, h)'
      BY <1>1, <1>2, <1>3, <1>4, <2>1, <2>3, <3>1 DEF SpotInv, FileInv
    <3>3. ExtractInv(pl, h)'
      BY <1>1, <1>3, <1>4, <2>1, <3>1 DEF SpotInv, ExtractInv
    <3>4. Extracted(pl, h) => Extracted(pl, h)'
      BY <1>1, <1>4, <3>1 DEF Extracted
    <3>5. job'[p].pc = "exists?" => dir[pl][h]["dependency"] # None
      BY <1>3, <1>4, <2>3 DEF Users, Here
    <3>7. DirInv(pl, h)'
      BY <1>1, <1>3, <1>4, <2>1, <3>1, <3>4, <3>5 DEF SpotInv, DirInv, Whole
    <3> QED
      BY <3>2, <3>3, <3>7 DEF SpotInv
  <2> QED
    BY <2>2, <2>3
<1> QED
  BY <1>4, <1>5, <1>6 DEF IInv, ArchiveInv

(* A directory that is being removed is spoilt; the others stay as they are.    *)
LEMMA RemoveStaleKeeps == ASSUME IInv, NEW p \in Procs, RemoveStale(p) PROVE IInv'
<1>1. PICK g \in Hashes, m \in Members :
        /\ dir' = [dir EXCEPT ![job[p].place][g][m] = None]
        /\ spoilt' = spoilt \cup {<<job[p].place, g>>}
  BY DEF RemoveStale
<1>2. UNCHANGED <<configs, mac, local, file, job, events>>
  BY DEF RemoveStale
<1>3. dir \in [Platforms -> [Hashes -> [Members -> Hashes \cup {None}]]] /\ job[p].place \in Platforms
  BY Field DEF IInv, TypeOK
<1>4. dir' \in [Platforms -> [Hashes -> [Members -> Hashes \cup {None}]]]
  BY <1>1, <1>3
<1>5. TypeOK' /\ CallInv'
  BY <1>1, <1>2, <1>3, <1>4 DEF IInv, TypeOK, CallInv
<1>6. ASSUME NEW pl \in Platforms, NEW h \in Hashes, <<pl, h>> \notin spoilt' PROVE SpotInv(pl, h)'
  <2>1. SpotInv(pl, h)
    BY <1>1, <1>6 DEF IInv, ArchiveInv
  <2>2. pl # job[p].place \/ h # g
    BY <1>1, <1>6
  <2>3. dir'[pl][h] = dir[pl][h]
    BY <1>1, <1>3, <2>2
  <2> QED
    BY <1>2, <2>1, <2>3 DEF SpotInv, FileInv, ExtractInv, DirInv, Extracted, Users
<1> QED
  BY <1>5, <1>6 DEF IInv, ArchiveInv

(* Versions are no longer spoilt when nobody uses the platform's files, and     *)
(* what was left of them lacks the dependency.                                  *)
LEMMA StaleRemovedKeeps == ASSUME IInv, NEW p \in Procs, StaleRemoved(p) PROVE IInv'
<1> DEFINE hit  == Others(p, {"unzip?", "stale", "open", "extract", "again?", "exists?"})
           kept == {x \in spoilt : x[1] = job[p].place => dir[x[1]][x[2]]["dependency"] # None}
<1>1. /\ job[p].pc = "stale" /\ Go(p, "open") /\ UNCHANGED <<configs, mac, local, file, dir, events>>
      /\ spoilt' = IF hit # {} \/ file[job[p].place] # job[p].hash THEN spoilt ELSE kept
  BY DEF StaleRemoved, disk
<1>2. "open" \in AfterFetch /\ job[p].zip
  BY <1>1, Field DEF AfterFetch, CallOK
<1>3. /\ job' \in [Procs -> Jobs] /\ OthersSame(p) /\ CallInv'
      /\ job'[p].pc = "open" /\ job'[p].zip = job[p].zip
      /\ job'[p].place = job[p].place /\ job'[p].hash = job[p].hash
      /\ job[p].place \in Platforms /\ job[p].hash \in Hashes
      /\ \A pl, h : Users(pl, h)' = Users(pl, h)
  BY <1>1, <1>2, GoesOn
<1>4. TypeOK'
  BY <1>1, <1>3 DEF IInv, TypeOK
<1>5. \A q \in Procs : q # p /\ job[q].pc \in Active /\ job[q].place = job[p].place => q \in hit
  BY DEF Others, Active
<1> HIDE DEF hit
<1>6. ASSUME NEW pl \in Platforms, NEW h \in Hashes, <<pl, h>> \notin spoilt' PROVE SpotInv(pl, h)'
  <2>1. ASSUME NEW q \in Users(pl, h), q # p PROVE job'[q] = job[q]
    BY <2>1, <1>3 DEF OthersSame, Users
  <2>2. CASE <<pl, h>> \notin spoilt
    <3>1. SpotInv(pl, h)
      BY <2>2 DEF IInv, ArchiveInv
    <3>2. FileInv(pl, h)' /\ ExtractInv(pl, h)'
      BY <1>1, <1>3, <2>1, <3>1 DEF SpotInv, FileInv, ExtractInv
    <3>3. Extracted(pl, h) => Extracted(pl, h)'
      BY <1>1, <1>3, <2>1 DEF Extracted
    <3>4. DirInv(pl, h)'
      BY <1>1, <1>3, <2>1, <3>1, <3>3 DEF SpotInv, DirInv
    <3> QED
      BY <3>2, <3>4 DEF SpotInv
  <2>3. CASE <<pl, h>> \in spoilt
    <3>1. /\ hit = {} /\ file[job[p].place] = job[p].hash /\ pl = job[p].place
          /\ dir[pl][h]["dependency"] = None
      BY <1>1, <1>6, <2>3
    <3>2. ASSUME NEW q \in Users(pl, h), q # p PROVE job'[q].pc \notin Active
      BY <3>2, <3>1, <2>1, <1>5 DEF Users
    <3>3. p \in Users(pl, h) => file[pl] = h
      BY <3>1 DEF Users
    <3>4. FileInv(pl, h)'
      BY <1>1, <1>3, <3>2, <3>3 DEF FileInv, Active
    <3>5. ExtractInv(pl, h)' /\ DirInv(pl, h)'
      BY <1>1, <1>3, <3>1, <3>2 DEF ExtractInv, DirInv, Active
    <3> QED
      BY <3>4, <3>5 DEF SpotInv
  <2> QED
    BY <2>2, <2>3
<1> QED
  BY <1>3, <1>4, <1>6 DEF IInv, ArchiveInv

LEMMA NotAnArchiveKeeps == ASSUME IInv, NEW p \in Procs, NotAnArchive(p) PROVE IInv'
<1>1. /\ UNCHANGED <<configs, mac, local, file, dir, events, spoilt>> /\ job[p].pc = "open" /\ Raise(p)
  BY DEF NotAnArchive, disk
<1>2. /\ local' \subseteq Paths /\ events' \in 0..MaxEvents /\ spoilt' \subseteq Platforms \X Hashes
      /\ spoilt \subseteq spoilt'
  BY <1>1 DEF IInv, TypeOK
<1> QED
  BY <1>1, <1>2, EndKeeps

LEMMA LookAgainKeeps == ASSUME IInv, NEW p \in Procs, LookAgain(p) PROVE IInv'
<1>1. /\ job[p].pc = "again?" /\ UNCHANGED <<configs, mac, local, file, dir, events, spoilt>>
      /\ \/ Raise(p)
         \/ Go(p, "exists?") /\ Here(p)["dependency"] # None
  BY DEF LookAgain, disk, DependencyIsMissing
<1>2. CASE Raise(p)
  <2>1. /\ local' \subseteq Paths /\ events' \in 0..MaxEvents
        /\ spoilt' \subseteq Platforms \X Hashes /\ spoilt \subseteq spoilt'
    BY <1>1 DEF IInv, TypeOK
  <2> QED
    BY <1>1, <1>2, <2>1, EndKeeps
<1>3. CASE Go(p, "exists?") /\ Here(p)["dependency"] # None
  <2>1. "exists?" \notin AfterFetch
    BY DEF AfterFetch
  <2>2. /\ job' \in [Procs -> Jobs] /\ OthersSame(p) /\ CallInv'
        /\ job'[p].pc = "exists?" /\ job'[p].zip = job[p].zip
        /\ job'[p].place = job[p].place /\ job'[p].hash = job[p].hash
        /\ job[p].place \in Platforms /\ job[p].hash \in Hashes
        /\ \A pl, h : Users(pl, h)' = Users(pl, h)
    BY <1>1, <1>3, <2>1, GoesOn
  <2>3. TypeOK'
    BY <1>1, <2>2 DEF IInv, TypeOK
  <2>4. ASSUME NEW pl \in Platforms, NEW h \in Hashes, <<pl, h>> \notin spoilt' PROVE SpotInv(pl, h)'
    <3>1. SpotInv(pl, h)
      BY <1>1, <2>4 DEF IInv, ArchiveInv
    <3>2. CASE p \notin Users(pl, h)
      BY <1>1, <2>2, <3>1, <3>2, ElsewhereKept
    <3>3. CASE p \in Users(pl, h)
      <4>1. ASSUME NEW q \in Users(pl, h), q # p PROVE job'[q] = job[q]
        BY <4>1, <2>2 DEF OthersSame, Users
      <4>2. job'[p].zip
        BY <1>1, <2>2, Field DEF CallOK
      <4>3. FileInv(pl, h)' /\ ExtractInv(pl, h)'
        BY <1>1, <2>2, <3>1, <4>1, <4>2 DEF SpotInv, FileInv, ExtractInv
      <4>4. Extracted(pl, h) => Extracted(pl, h)'
        BY <1>1, <2>2, <4>1 DEF Extracted
      <4>5. DirInv(pl, h)'
        BY <1>1, <2>2, <3>1, <3>3, <4>1, <4>4 DEF SpotInv, DirInv, Whole
      <4> QED
        BY <4>3, <4>5 DEF SpotInv
    <3> QED
      BY <3>2, <3>3
  <2> QED
    BY <2>2, <2>3, <2>4 DEF IInv, ArchiveInv
<1> QED
  BY <1>1, <1>2, <1>3

LEMMA OpenArchiveKeeps == ASSUME IInv, NEW p \in Procs, OpenArchive(p) PROVE IInv'
<1> DEFINE c1 == [job[p] EXCEPT !.pc = "extract"]
           c2 == [c1 EXCEPT !.source = file[job[p].place]]
           c  == [c2 EXCEPT !.left = Members]
<1>1. /\ job[p].pc = "open" /\ UNCHANGED <<configs, mac, local, file, dir, events, spoilt>>
      /\ job' = [job EXCEPT ![p] = c]
  BY DEF OpenArchive, disk
<1>2. /\ job[p] \in Jobs /\ job[p].path = None /\ job[p].zip /\ job[p].place \in Platforms
      /\ job[p].hash \in Hashes
  BY <1>1, Field DEF CallOK
<1>3. /\ c \in Jobs /\ c.pc = "extract" /\ c.path = None /\ c.zip /\ c.source = file[job[p].place]
      /\ c.left = Members /\ c.place = job[p].place /\ c.hash = job[p].hash
  <2>1. /\ c1 \in Jobs /\ c1.pc = "extract" /\ c1.path = None /\ c1.zip
        /\ c1.place = job[p].place /\ c1.hash = job[p].hash
    BY <1>2 DEF Jobs
  <2> HIDE DEF c1
  <2>2. /\ c2 \in Jobs /\ c2.pc = "extract" /\ c2.path = None /\ c2.zip
        /\ c2.place = job[p].place /\ c2.hash = job[p].hash /\ c2.source = file[job[p].place]
    <3>1. file[job[p].place] \in Hashes \cup {None}
      BY <1>2 DEF IInv, TypeOK
    <3> QED
      BY <2>1, <3>1 DEF Jobs
  <2> HIDE DEF c2
  <2> QED
    BY <2>2 DEF Jobs
<1> HIDE DEF c
<1>4. CallOK(c)
  BY <1>2, <1>3 DEF CallOK
<1>5. job' \in [Procs -> Jobs] /\ job'[p] = c /\ OthersSame(p) /\ CallInv'
  BY <1>1, <1>3, <1>4, Moves DEF IInv
<1>6. TypeOK'
  BY <1>1, <1>5 DEF IInv, TypeOK
<1>7. ASSUME NEW pl \in Platforms, NEW h \in Hashes, <<pl, h>> \notin spoilt' PROVE SpotInv(pl, h)'
  <2>1. SpotInv(pl, h)
    BY <1>1, <1>7 DEF IInv, ArchiveInv
  <2>2. Users(pl, h)' = Users(pl, h)
    BY <1>3, <1>5 DEF Users, OthersSame
  <2>3. CASE p \notin Users(pl, h)
    BY <1>1, <1>5, <2>1, <2>2, <2>3, ElsewhereKept
  <2>4. CASE p \in Users(pl, h)
    <3>1. ASSUME NEW q \in Users(pl, h), q # p PROVE job'[q] = job[q]
      BY <3>1, <1>5 DEF OthersSame, Users
    <3>2. pl = job[p].place /\ h = job[p].hash
      BY <2>4 DEF Users
    <3>3. file[pl] = h
      BY <1>1, <2>1, <2>4 DEF SpotInv, FileInv
    <3>4. FileInv(pl, h)'
      BY <1>1, <1>3, <1>5, <2>1, <2>2, <2>4, <3>1 DEF SpotInv, FileInv
    <3>5. c.source = h /\ Members \ c.left = {}
      BY <1>3, <3>2, <3>3
    <3>6. ExtractInv(pl, h)'
      BY <1>1, <1>3, <1>5, <2>1, <2>2, <3>1, <3>5 DEF SpotInv, ExtractInv
    <3>7. DirInv(pl, h)'
      BY <1>3, <1>5, <2>2, <2>4 DEF DirInv, Extracted
    <3> QED
      BY <3>4, <3>6, <3>7 DEF SpotInv
  <2> QED
    BY <2>3, <2>4
<1> QED
  BY <1>5, <1>6, <1>7 DEF IInv, ArchiveInv

LEMMA ExtractKeeps == ASSUME IInv, NEW p \in Procs, Extract(p) PROVE IInv'
<1>1. PICK m \in job[p].left :
        /\ dir' = [dir EXCEPT ![job[p].place][job[p].hash][m] = job[p].source]
        /\ job' = [job EXCEPT ![p].left = @ \ {m}]
  BY DEF Extract
<1>2. job[p].pc = "extract" /\ UNCHANGED <<configs, mac, local, file, events, spoilt>>
  BY DEF Extract
<1> DEFINE c == [job[p] EXCEPT !.left = job[p].left \ {m}]
<1>3. /\ job[p] \in Jobs /\ CallOK(job[p]) /\ job[p].place \in Platforms
      /\ job[p].hash \in Hashes /\ job[p].left \in SUBSET Members /\ m \in Members
      /\ job[p].source \in Hashes \cup {None}
  BY <1>2, Field DEF CallOK
<1>4. /\ c \in Jobs /\ c.pc = job[p].pc /\ c.path = job[p].path /\ c.zip = job[p].zip
      /\ c.source = job[p].source /\ c.left = job[p].left \ {m} /\ c.place = job[p].place
      /\ c.hash = job[p].hash /\ c.turn = job[p].turn
  BY <1>3 DEF Jobs
<1>5. job' = [job EXCEPT ![p] = c]
  BY <1>1
<1> HIDE DEF c
<1>6. CallOK(c)
  BY <1>3, <1>4 DEF CallOK
<1>7. job' \in [Procs -> Jobs] /\ job'[p] = c /\ OthersSame(p) /\ CallInv'
  BY <1>4, <1>5, <1>6, Moves DEF IInv
<1>8. dir' \in [Platforms -> [Hashes -> [Members -> Hashes \cup {None}]]]
  <2>1. dir \in [Platforms -> [Hashes -> [Members -> Hashes \cup {None}]]]
    BY DEF IInv, TypeOK
  <2> QED
    BY <1>1, <1>3, <2>1
<1>9. TypeOK'
  BY <1>2, <1>7, <1>8 DEF IInv, TypeOK
<1>10. ASSUME NEW pl \in Platforms, NEW h \in Hashes, <<pl, h>> \notin spoilt' PROVE SpotInv(pl, h)'
  <2>1. SpotInv(pl, h)
    BY <1>2, <1>10 DEF IInv, ArchiveInv
  <2>2. Users(pl, h)' = Users(pl, h)
    BY <1>4, <1>7 DEF Users, OthersSame
  <2>3. dir \in [Platforms -> [Hashes -> [Members -> Hashes \cup {None}]]]
    BY DEF IInv, TypeOK
  <2>4. CASE p \notin Users(pl, h)
    <3>1. pl # job[p].place \/ h # job[p].hash
      BY <2>4 DEF Users
    <3>2. dir'[pl][h] = dir[pl][h]
      BY <1>1, <1>3, <2>3, <3>1
    <3> QED
      BY <1>2, <1>7, <2>1, <2>2, <2>4, <3>2, ElsewhereKept
  <2>5. CASE p \in Users(pl, h)
    <3>1. ASSUME NEW q \in Users(pl, h), q # p PROVE job'[q] = job[q]
      BY <3>1, <1>7 DEF OthersSame, Users
    <3>2. pl = job[p].place /\ h = job[p].hash
      BY <2>5 DEF Users
    <3>4. FileInv(pl, h)'
      BY <1>2, <1>4, <1>7, <2>1, <2>2, <2>5, <3>1 DEF SpotInv, FileInv
    <3>5. job[p].source = h /\ \A x \in Members \ job[p].left : dir[pl][h][x] = h
      BY <1>2, <2>1, <2>5 DEF SpotInv, ExtractInv
    <3>6. dir'[pl][h] = [dir[pl][h] EXCEPT ![m] = h]
      BY <1>1, <1>3, <2>3, <3>2, <3>5
    <3>9. \A x \in Members : dir'[pl][h][x] = IF x = m THEN h ELSE dir[pl][h][x]
      BY <2>3, <3>6
    <3>10. \A x \in Members \ c.left : dir'[pl][h][x] = h
      BY <1>4, <3>5, <3>9
    <3>7. ExtractInv(pl, h)'
      BY <1>2, <1>4, <1>7, <2>1, <2>2, <3>1, <3>5, <3>9, <3>10 DEF SpotInv, ExtractInv
    <3>8. DirInv(pl, h)'
      BY <1>2, <1>4, <1>7, <2>2, <2>5 DEF DirInv, Extracted
    <3> QED
      BY <3>4, <3>7, <3>8 DEF SpotInv
  <2> QED
    BY <2>4, <2>5
<1> QED
  BY <1>7, <1>9, <1>10 DEF IInv, ArchiveInv

LEMMA AbandonedKeeps ==
    ASSUME IInv, NEW p \in Procs, job[p].pc = "extract", Abandoned(p), UNCHANGED <<configs, mac, local, file>>,
           events' \in 0..MaxEvents
    PROVE  IInv'
<1>0. PICK kept \in SUBSET Members :
        /\ dir' = [dir EXCEPT ![job[p].place][job[p].hash] = AfterFailure(@, kept)]
        /\ spoilt' = spoilt \cup {At(q) : q \in
            {q \in Others(p, {"extract", "again?", "exists?"}) : job[q].hash = job[p].hash}
                \cup (IF kept = {} THEN {} ELSE {p})}
  BY DEF Abandoned
<1> DEFINE hit  == {q \in Others(p, {"extract", "again?", "exists?"}) : job[q].hash = job[p].hash}
                      \cup (IF kept = {} THEN {} ELSE {p})
           left == AfterFailure(dir[job[p].place][job[p].hash], kept)
<1>1. /\ dir' = [dir EXCEPT ![job[p].place][job[p].hash] = left]
      /\ spoilt' = spoilt \cup {At(q) : q \in hit}
      /\ job' = [job EXCEPT ![p] = Ended(None)]
  BY <1>0 DEF Abandoned, Raise
<1>2. job[p].place \in Platforms /\ job[p].hash \in Hashes
  BY Field DEF CallOK
<1>3. Ended(None) \in Jobs /\ CallOK(Ended(None)) /\ Ended(None).pc = "idle"
  BY EndedCall
<1>4. job' \in [Procs -> Jobs] /\ job'[p].pc = "idle" /\ OthersSame(p) /\ CallInv'
  BY <1>1, <1>3, Moves DEF IInv
<1>5. dir \in [Platforms -> [Hashes -> [Members -> Hashes \cup {None}]]]
  BY DEF IInv, TypeOK
<1>6. left \in [Members -> Hashes \cup {None}] /\ (kept = {} => left["dependency"] = None)
  BY <1>2, <1>5 DEF AfterFailure, Members
<1> HIDE DEF left
<1>7. dir' \in [Platforms -> [Hashes -> [Members -> Hashes \cup {None}]]]
  BY <1>1, <1>2, <1>5, <1>6
<1>8. spoilt' \subseteq Platforms \X Hashes
  <2>1. \A q \in hit : At(q) \in Platforms \X Hashes
    BY Field, <1>2 DEF Others, At
  <2> HIDE DEF hit
  <2> QED
    BY <1>1, <2>1 DEF IInv, TypeOK
<1>9. TypeOK'
  BY <1>4, <1>7, <1>8 DEF IInv, TypeOK
<1>10. \A q \in Procs : /\ q # p /\ job[q].pc \in {"extract", "again?", "exists?"}
                        /\ job[q].place = job[p].place /\ job[q].hash = job[p].hash
                        => q \in hit /\ At(q) = At(p)
  BY DEF Others, At
<1>12. kept # {} => p \in hit
  OBVIOUS
<1> HIDE DEF hit
<1>11. ASSUME NEW pl \in Platforms, NEW h \in Hashes, <<pl, h>> \notin spoilt' PROVE SpotInv(pl, h)'
  <2>1. SpotInv(pl, h)
    BY <1>1, <1>11 DEF IInv, ArchiveInv
  <2>2. p \in Users(pl, h)' => job'[p].pc \notin Active
    BY <1>4 DEF Active
  <2>3. CASE p \notin Users(pl, h)
    <3>1. pl # job[p].place \/ h # job[p].hash
      BY <2>3 DEF Users
    <3>2. dir'[pl][h] = dir[pl][h] /\ file'[pl] = file[pl]
      BY <1>1, <1>2, <1>5, <3>1
    <3> QED
      BY <1>4, <2>1, <2>2, <2>3, <3>2, SpotKept
  <2>4. CASE p \in Users(pl, h)
    <3>1. pl = job[p].place /\ h = job[p].hash /\ At(p) = <<pl, h>>
      BY <2>4 DEF Users, At
    <3>2. dir'[pl][h]["dependency"] = None
      <4>1. kept = {}
        BY <1>1, <1>11, <1>12, <3>1
      <4> QED
        BY <4>1, <1>1, <1>2, <1>5, <1>6, <3>1
    <3>3. ASSUME NEW q \in Users(pl, h)', q # p
          PROVE  q \in Users(pl, h) /\ job'[q] = job[q]
      BY <3>3, <1>4 DEF Users, OthersSame
    <3>4. ASSUME NEW q \in Users(pl, h), q # p
          PROVE  job[q].pc \notin {"extract", "again?", "exists?"}
      <4>1. CASE job[q].pc \in {"extract", "again?", "exists?"}
        <5>1. q \in hit /\ At(q) = <<pl, h>>
          BY <3>4, <4>1, <1>10, <3>1 DEF Users
        <5> QED
          BY <5>1, <1>1, <1>11
      <4> QED
        BY <4>1
    <3>5. FileInv(pl, h)' /\ ExtractInv(pl, h)'
      BY <1>4, <2>1, <3>3, <3>4 DEF SpotInv, FileInv, ExtractInv
    <3>6. DirInv(pl, h)'
      BY <1>4, <3>2, <3>3, <3>4 DEF DirInv
    <3> QED
      BY <3>5, <3>6 DEF SpotInv
  <2> QED
    BY <2>3, <2>4
<1> QED
  BY <1>4, <1>9, <1>11 DEF IInv, ArchiveInv

LEMMA SetPermissionsKeeps ==
    ASSUME IInv, NEW p \in Procs, ExtractFails(p) \/ SetPermissions(p) PROVE IInv'
<1>1. CASE ExtractFails(p)
  <2>1. job[p].pc = "extract" /\ Abandoned(p) /\ UNCHANGED <<configs, mac, local, file>>
    BY <1>1 DEF ExtractFails
  <2>2. events' \in 0..MaxEvents
    BY <1>1 DEF ExtractFails, Event, IInv, TypeOK
  <2> QED
    BY <2>1, <2>2, AbandonedKeeps
<1>2. CASE SetPermissions(p)
  <2>1. /\ job[p].pc = "extract" /\ job[p].left = {} /\ UNCHANGED <<configs, mac, local, file, events>>
        /\ Abandoned(p) \/ (Go(p, "again?") /\ UNCHANGED <<dir, spoilt>>)
    BY <1>2 DEF SetPermissions
  <2>2. CASE Abandoned(p)
    <3>1. events' \in 0..MaxEvents
      BY <2>1 DEF IInv, TypeOK
    <3> QED
      BY <2>1, <2>2, <3>1, AbandonedKeeps
  <2>3. CASE Go(p, "again?") /\ UNCHANGED <<dir, spoilt>>
    <3>1. "again?" \in AfterFetch /\ job[p].zip
      BY <2>1, Field DEF AfterFetch, CallOK
    <3>2. /\ job' \in [Procs -> Jobs] /\ OthersSame(p) /\ CallInv'
          /\ job'[p].pc = "again?" /\ job'[p].zip = job[p].zip
          /\ job'[p].place = job[p].place /\ job'[p].hash = job[p].hash
          /\ job[p].place \in Platforms /\ job[p].hash \in Hashes
          /\ \A pl, h : Users(pl, h)' = Users(pl, h)
      BY <2>1, <2>3, <3>1, GoesOn
    <3>3. TypeOK'
      BY <2>1, <2>3, <3>2 DEF IInv, TypeOK
    <3>4. ASSUME NEW pl \in Platforms, NEW h \in Hashes, <<pl, h>> \notin spoilt'
          PROVE  SpotInv(pl, h)'
      <4>1. SpotInv(pl, h)
        BY <2>3, <3>4 DEF IInv, ArchiveInv
      <4>2. CASE p \notin Users(pl, h)
        BY <2>1, <2>3, <3>2, <4>1, <4>2, ElsewhereKept
      <4>3. CASE p \in Users(pl, h)
        <5>1. ASSUME NEW q \in Users(pl, h), q # p PROVE job'[q] = job[q]
          BY <5>1, <3>2 DEF OthersSame, Users
        <5>2. FileInv(pl, h)' /\ ExtractInv(pl, h)'
          BY <2>1, <2>3, <3>2, <4>1, <5>1 DEF SpotInv, FileInv, ExtractInv
        <5>3. \A m \in Members : dir[pl][h][m] = h
          BY <2>1, <4>1, <4>3 DEF SpotInv, ExtractInv
        <5>4. dir'[pl][h] = Whole(h)
          <6>1. dir[pl][h] \in [Members -> Hashes \cup {None}]
            BY DEF IInv, TypeOK
          <6> QED
            BY <6>1, <5>3, <2>3 DEF Whole
        <5>5. DirInv(pl, h)'
          BY <5>4 DEF DirInv, Whole
        <5> QED
          BY <5>2, <5>5 DEF SpotInv
      <4> QED
        BY <4>2, <4>3
    <3> QED
      BY <3>2, <3>3, <3>4 DEF IInv, ArchiveInv
  <2> QED
    BY <2>1, <2>2, <2>3
<1> QED
  BY <1>1, <1>2

(* ditto that fails leaves the version spoilt.                                  *)
LEMMA DittoFailsKeeps == ASSUME IInv, NEW p \in Procs, DittoFails(p) PROVE IInv'
<1>1. /\ job[p].pc = "extract" /\ Go(p, "again?") /\ UNCHANGED <<configs, mac, local, file, dir>>
      /\ spoilt' = spoilt \cup {At(p)}
  BY DEF DittoFails, disk
<1>2. "again?" \in AfterFetch /\ job[p].zip
  BY <1>1, Field DEF AfterFetch, CallOK
<1>3. /\ job' \in [Procs -> Jobs] /\ OthersSame(p) /\ CallInv'
      /\ job'[p].pc = "again?" /\ job'[p].zip = job[p].zip
      /\ job'[p].place = job[p].place /\ job'[p].hash = job[p].hash
      /\ job[p].place \in Platforms /\ job[p].hash \in Hashes
      /\ \A pl, h : Users(pl, h)' = Users(pl, h)
  BY <1>1, <1>2, GoesOn
<1>4. TypeOK'
  BY <1>1, <1>3 DEF IInv, TypeOK, At, DittoFails, Event
<1>5. ASSUME NEW pl \in Platforms, NEW h \in Hashes, <<pl, h>> \notin spoilt' PROVE SpotInv(pl, h)'
  <2>1. SpotInv(pl, h)
    BY <1>1, <1>5 DEF IInv, ArchiveInv
  <2>2. p \notin Users(pl, h)
    BY <1>1, <1>5 DEF Users, At
  <2> QED
    BY <1>1, <1>3, <2>1, <2>2, ElsewhereKept
<1> QED
  BY <1>3, <1>4, <1>5 DEF IInv, ArchiveInv

--------------------------------------------------------------------------------
(* The invariant, and what a step returns.                                      *)

LEMMA InitInv == Init => IInv
<1> SUFFICES ASSUME Init PROVE IInv
  OBVIOUS
<1>1. Ended(None) \in Jobs /\ CallOK(Ended(None)) /\ Ended(None).pc = "idle"
  BY EndedCall
<1>2. job \in [Procs -> Jobs] /\ \A p \in Procs : job[p] = Ended(None)
  BY <1>1 DEF Init
<1>3. dir \in [Platforms -> [Hashes -> [Members -> Hashes \cup {None}]]]
  BY DEF Init, Empty
<1>4. TypeOK
  <2>1. configs \in [Procs -> Configs] /\ mac \in BOOLEAN
    BY DEF Init
  <2>2. file \in [Platforms -> Hashes \cup {None}] /\ local \subseteq Paths
    BY DEF Init
  <2>3. events \in 0..MaxEvents /\ spoilt \subseteq Platforms \X Hashes
    BY DEF Init
  <2> QED
    BY <1>2, <1>3, <2>1, <2>2, <2>3 DEF TypeOK
<1>5. CallInv
  BY <1>1, <1>2 DEF CallInv
<1>6. ASSUME NEW pl \in Platforms, NEW h \in Hashes PROVE SpotInv(pl, h)
  <2>1. \A p \in Users(pl, h) : job[p].pc = "idle"
    BY <1>1, <1>2 DEF Users
  <2>2. dir[pl][h]["dependency"] = None
    BY <1>6 DEF Init, Empty, Members
  <2> QED
    BY <2>1, <2>2 DEF SpotInv, FileInv, ExtractInv, DirInv
<1> QED
  BY <1>4, <1>5, <1>6 DEF IInv, ArchiveInv

Step(p) == \/ FetchPath(p) \/ PrefetchPaths(p) \/ Lookup(p)
           \/ GetIfHashChanged(p) \/ WrongDownload(p) \/ DownloadFails(p)
           \/ GetUnzippedPath(p) \/ ReturnRemote(p) \/ Die(p)

LEMMA StepInv == IInv /\ [Next]_vars => IInv'
<1> SUFFICES ASSUME IInv, [Next]_vars PROVE IInv'
  OBVIOUS
<1>1. ASSUME NEW p \in Procs, Step(p) PROVE IInv'
  <2>1. CASE FetchPath(p) \/ PrefetchPaths(p)
    BY <2>1, StartKeeps
  <2>2. CASE Lookup(p)
    BY <2>2, LookupKeeps
  <2>3. CASE GetIfHashChanged(p) \/ WrongDownload(p)
    BY <2>3, GetIfHashChangedKeeps
  <2>4. CASE DownloadFails(p)
    BY <2>4, DownloadFailsKeeps
  <2>5. CASE GetUnzippedPath(p)
    <3>1. CASE ShouldUnzip(p)
      BY <3>1, ShouldUnzipKeeps
    <3>2. CASE RemoveStale(p) \/ StaleRemoved(p)
      BY <3>2, RemoveStaleKeeps, StaleRemovedKeeps
    <3>3. CASE OpenArchive(p) \/ NotAnArchive(p)
      BY <3>3, OpenArchiveKeeps, NotAnArchiveKeeps
    <3>4. CASE Extract(p)
      BY <3>4, ExtractKeeps
    <3>5. CASE ExtractFails(p) \/ SetPermissions(p) \/ DittoFails(p)
      BY <3>5, SetPermissionsKeeps, DittoFailsKeeps
    <3>6. CASE LookAgain(p)
      BY <3>6, LookAgainKeeps
    <3> QED
      BY <2>5, <3>1, <3>2, <3>3, <3>4, <3>5, <3>6 DEF GetUnzippedPath
  <2>6. CASE ReturnRemote(p)
    BY <2>6, ReturnRemoteKeeps
  <2>7. CASE Die(p)
    BY <2>7, DieKeeps
  <2> QED
    BY <1>1, <2>1, <2>2, <2>3, <2>4, <2>5, <2>6, <2>7 DEF Step
<1>2. CASE LocalChange
  BY <1>2, LocalChangeKeeps
<1>3. CASE UNCHANGED vars
  <2>1. UNCHANGED <<configs, mac, local, file, dir, job, events, spoilt>>
    BY <1>3 DEF vars, disk
  <2>2. TypeOK' /\ CallInv'
    BY <2>1 DEF IInv, TypeOK, CallInv
  <2>3. ArchiveInv'
    BY <2>1 DEF IInv, ArchiveInv, SpotInv, FileInv, ExtractInv, DirInv, Extracted, Users
  <2> QED
    BY <2>2, <2>3 DEF IInv
<1> QED
  BY <1>1, <1>2, <1>3 DEF Next, Step

LEMMA OthersStay ==
    ASSUME IInv, NEW q \in Procs, Step(q), NEW p \in Procs, p # q
    PROVE  job'[p] = job[p]
<1> job \in [Procs -> Jobs]
  BY DEF IInv, TypeOK
<1>1. CASE FetchPath(q) \/ PrefetchPaths(q) \/ GetIfHashChanged(q) \/ WrongDownload(q)
           \/ DownloadFails(q)
  BY <1>1 DEF FetchPath, PrefetchPaths, GetIfHashChanged, WrongDownload, Got, DownloadFails, Go, Raise
<1>2. CASE Lookup(q)
  BY <1>2 DEF Lookup, NoPathFound, Return, Raise
<1>3. CASE GetUnzippedPath(q)
  BY <1>3 DEF GetUnzippedPath, ShouldUnzip, RemoveStale, StaleRemoved, OpenArchive,
     NotAnArchive, Extract, ExtractFails, DittoFails, SetPermissions, LookAgain, Abandoned, Go, Raise
<1>4. CASE ReturnRemote(q) \/ Die(q)
  BY <1>4 DEF ReturnRemote, Die, NoPathFound, Return, Raise
<1> QED
  BY <1>1, <1>2, <1>3, <1>4 DEF Step

(* A path comes of a step of the call that returns it.                          *)
LEMMA PathComes ==
    ASSUME IInv, [Next]_vars, NEW p \in Procs, job[p].pc # "idle", job'[p].path # None
    PROVE  Step(p)
<1>1. job[p].path = None
  BY Field DEF CallOK
<1>2. job'[p] # job[p]
  BY <1>1
<1>3. ~UNCHANGED vars /\ ~LocalChange
  BY <1>2 DEF vars, LocalChange
<1>4. PICK q \in Procs : Step(q)
  BY <1>3 DEF Next, Step
<1> QED
  BY <1>2, <1>4, OthersStay

LEMMA ReturnedStep ==
    ASSUME IInv, [Next]_vars, NEW p \in Procs, job[p].pc = "exists?", job'[p].path = "remote",
           At(p) \notin spoilt, \A q \in Others(p, {"extract"}) : job[q].hash # job[p].hash
    PROVE  IF job[p].zip THEN Here(p) = [m \in Members |-> job[p].hash]
                         ELSE file[job[p].place] = job[p].hash
<1> DEFINE pl == job[p].place
           h  == job[p].hash
<1>1. pl \in Platforms /\ h \in Hashes /\ p \in Users(pl, h) /\ <<pl, h>> \notin spoilt
  BY Field DEF CallOK, Users, At
<1>2. SpotInv(pl, h)
  BY <1>1 DEF IInv, ArchiveInv
<1>3. ~Extracted(pl, h)
  BY DEF Extracted, Users, Others
<1>4. Here(p) = dir[pl][h]
  BY DEF Here
<1> HIDE DEF pl, h
<1>5. CASE job[p].zip
  <2>1. dir[pl][h] = Whole(h)
    BY <1>1, <1>2, <1>3, <1>5 DEF SpotInv, DirInv
  <2> QED
    BY <2>1, <1>4, <1>5 DEF Whole, h
<1>6. CASE ~job[p].zip
  <2>1. file[pl] = h
    BY <1>1, <1>2, <1>6 DEF SpotInv, FileInv
  <2> QED
    BY <2>1, <1>6 DEF pl, h
<1> QED
  BY <1>5, <1>6

(* A local path is the first existing one of the entry that was looked up.      *)
LEMMA LocalStep ==
    ASSUME IInv, [Next]_vars, NEW p \in Procs, job[p].pc = "lookup", job'[p].path \in Paths
    PROVE  HasPath(Info(p)) /\ job'[p].path = FirstExisting(Info(p).paths)
<1>1. None \notin Paths
  OBVIOUS
<1>2. Step(p)
  BY <1>1, PathComes
<1>3. Lookup(p) \/ Die(p)
  BY <1>2 DEF Step, FetchPath, PrefetchPaths, GetIfHashChanged, WrongDownload, DownloadFails,
     GetUnzippedPath, ShouldUnzip, RemoveStale, StaleRemoved, OpenArchive, NotAnArchive, Extract,
     ExtractFails, DittoFails, SetPermissions, LookAgain, ReturnRemote
<1>4. job \in [Procs -> Jobs] /\ job[p].path = None /\ job[p] \in Jobs
  BY Field DEF IInv, TypeOK, CallOK
<1>5. ASSUME NEW c, job' = [job EXCEPT ![p] = c] PROVE job'[p] = c
  BY <1>4, <1>5
<1>6. ~Raise(p)
  BY <1>1, <1>5, EndedCall DEF Raise
<1>7. ~NoPathFound(p)
  <2>1. ASSUME job' = [job EXCEPT ![p] = Started(job[p].turn + 1, FALSE)] PROVE FALSE
    <3>1. Started(job[p].turn + 1, FALSE).path = None
      BY DEF Started, Call
    <3>2. job'[p] = Started(job[p].turn + 1, FALSE)
      BY <2>1, <1>5
    <3> QED
      BY <3>1, <3>2, <1>1
  <2> QED
    BY <2>1, <1>6 DEF NoPathFound
<1>8. Lookup(p)
  BY <1>3, <1>6 DEF Die
<1> DEFINE info == Info(p)
<1>9. \/ info # None /\ Existing(info.paths) # {} /\ Return(p, FirstExisting(info.paths))
      \/ job' = [job EXCEPT ![p].pc = "fetch", ![p].place = Place(p),
                            ![p].hash = info.hash, ![p].zip = info.zip]
  BY <1>7, <1>8 DEF Lookup, Info, Place
<1> HIDE DEF info
<1>10. CASE job' = [job EXCEPT ![p].pc = "fetch", ![p].place = Place(p),
                              ![p].hash = info.hash, ![p].zip = info.zip]
  <2>1. job'[p].path = job[p].path
    BY <1>10, <1>4 DEF Jobs
  <2> QED
    BY <2>1, <1>1, <1>4
<1>11. CASE info # None /\ Existing(info.paths) # {} /\ Return(p, FirstExisting(info.paths))
  <2>1. FirstExisting(info.paths) \in Paths
    <3>1. info \in Entries
      BY <1>11, LookedUp DEF info
    <3>2. info.paths \in Seq(Paths \cup {None})
      BY <3>1 DEF Entries
    <3> QED
      BY <3>2, <1>11, FirstIsThere, LookedUp
  <2>2. job'[p].path = FirstExisting(info.paths)
    BY <1>11, <2>1, <1>5, EndedCall DEF Return
  <2> QED
    BY <1>11, <2>2 DEF HasPath, info
<1> QED
  BY <1>9, <1>10, <1>11

LEMMA InOrder ==
    ASSUME IInv, NEW p \in Procs, job[p].pc = "lookup", HasPath(Info(p))
    PROVE  LET cs    == configs[p]
               pl    == Wanted[job[p].turn]
               place == IF \E i \in DOMAIN cs : cs[i][pl] # None THEN pl ELSE Default
               has   == {i \in DOMAIN cs : cs[i][place] # None /\ Existing(cs[i][place].paths) # {}}
           IN  \E i \in has : /\ \A j \in has : i <= j
                              /\ FirstExisting(Info(p).paths) = FirstExisting(cs[i][place].paths)
<1> DEFINE cs    == configs[p]
           pl    == Wanted[job[p].turn]
           place == IF \E i \in DOMAIN cs : cs[i][pl] # None THEN pl ELSE Default
           has   == {i \in DOMAIN cs : cs[i][place] # None /\ Existing(cs[i][place].paths) # {}}
<1>1. pl \in Platforms /\ cs \in Configs /\ Place(p) \in Platforms /\ None \notin local
  BY LookedUp
<1>2. DOMAIN cs = 1..Len(cs)
  BY <1>1
<1>3. Place(p) = PlaceOf(Table(cs), pl) /\ Info(p) = Table(cs)[Place(p)]
  BY DEF Place, Info
<1> HIDE DEF cs, pl
<1>4. StandsFor(Table(cs)[pl], cs, pl, Len(cs))
  BY <1>1, TableStands
<1>5. Place(p) = place
  BY <1>2, <1>3, <1>4 DEF StandsFor, PlaceOf
<1> HIDE DEF place
<1>6. StandsFor(Info(p), cs, place, Len(cs))
  BY <1>1, <1>3, <1>5, TableStands
<1>7. PICK i \in 1..Len(cs) :
        /\ HasPath(cs[i][place]) /\ FirstWithPath(cs, place, Len(cs), i)
        /\ FirstExisting(Info(p).paths) = FirstExisting(cs[i][place].paths)
  BY <1>6 DEF StandsFor
<1>8. i \in has /\ \A j \in has : i <= j
  BY <1>2, <1>7 DEF HasPath, FirstWithPath
<1> QED
  BY <1>7, <1>8 DEF cs, pl, place

LEMMA Invariance == Spec => []IInv
BY InitInv, StepInv, PTL DEF Spec

--------------------------------------------------------------------------------
(* What the variables may be.                                                   *)
THEOREM TypeCorrect == Spec => []TypeOK
<1>1. IInv => TypeOK
  BY DEF IInv
<1> QED
  BY <1>1, Invariance, PTL

(* A call that returns a downloaded path finds there the whole version its      *)
(* config names, for any number of processes that replace the archive, remove   *)
(* stale directories file by file, extract, fail and die, but for the versions  *)
(* named at ReturnedIsWhole: being extracted; changed by another under the      *)
(* call, or removed half-way; downloaded wrong; and extracted in part by one    *)
(* that died, by ditto, or before a RemoveDir that failed.                      *)
THEOREM ReturnedWholes == Spec => ReturnedIsWhole
<1>1. IInv /\ [Next]_vars => [\A p \in Procs :
        /\ job[p].pc = "exists?" /\ job'[p].path = "remote"
        /\ At(p) \notin spoilt
        /\ \A q \in Others(p, {"extract"}) : job[q].hash # job[p].hash
        => IF job[p].zip THEN Here(p) = [m \in Members |-> job[p].hash]
                         ELSE file[job[p].place] = job[p].hash]_vars
  BY ReturnedStep
<1> QED
  BY <1>1, Invariance, PTL DEF Spec, ReturnedIsWhole

(* A local path that is returned is the first existing one of the first config  *)
(* that has one for the platform, for any sequences of configs.                 *)
THEOREM LocalPathsKeepOrder == Spec => LocalPathsInOrder
<1>1. IInv /\ [Next]_vars => [\A p \in Procs :
        job[p].pc = "lookup" /\ job'[p].path \in Paths =>
        LET cs    == configs[p]
            pl    == Wanted[job[p].turn]
            place == IF \E i \in DOMAIN cs : cs[i][pl] # None THEN pl ELSE Default
            has   == {i \in DOMAIN cs : cs[i][place] # None /\ Existing(cs[i][place].paths) # {}}
        IN  \E i \in has : /\ \A j \in has : i <= j
                           /\ job'[p].path = FirstExisting(cs[i][place].paths)]_vars
  BY LocalStep, InOrder
<1> QED
  BY <1>1, Invariance, PTL DEF Spec, LocalPathsInOrder
================================================================================
