------------------------------ MODULE DevilProofs ------------------------------
(* What devil's utilities promise.                                              *)
(* ThreadGroups: the search for an enclosing timeout terminates and finds it,   *)
(* so timeouts are never nested, for any number of threads and groups and       *)
(* however decorated calls, RunAsync and pMap are nested.                       *)
(* TimeoutRetry: what Run promises whatever the timeout, the number of retries, *)
(* the join period and the retryable exceptions, and that every step of it is a *)
(* step of RetriedCall or a stutter.                                            *)
(* PortAllocation: AllocateTestServerPort is process-safe for any number of     *)
(* processes and any range of ports, until somebody resets the counter.         *)
EXTENDS ThreadGroups, TimeoutRetry, PortAllocation, WellFoundedInduction, TLAPS

--------------------------------------------------------------------------------
(* ThreadGroups.                                                                *)

(* A link is the group of the thread that started the group, so it matters that *)
(* threads belong to groups that exist.                                         *)
OwnersExist == \A t \in All: owner[t] <= groups

LinksInv == GroupsTypeOK /\ OwnersExist /\ LinksDescend

(* Groups know the thread that started them, which belonged to an older group;   *)
(* a group of RunAsync is linked to that one while its creator waits for it.    *)
GroupsInv ==
    \A g \in 1..groups:
        /\ kind[g] # "none"
        /\ state[creator[g]] # "new" /\ owner[creator[g]] < g
        /\ kind[g] = "async" /\ joining[creator[g]] = g => link[g] = owner[creator[g]]

(* Only its creator waits for a group. *)
JoinInv ==
    \A t \in All: joining[t] # NoGroup =>
        /\ joining[t] <= groups /\ creator[joining[t]] = t
        /\ state[t] = "running"

GroupsIInv == LinksInv /\ GroupsInv /\ JoinInv /\ NoNestedTimeouts

USE MaxGroupsAssumption, MainAssumption

--------------------------------------------------------------------------------
(* Before the first call there is no group and no link. *)
LEMMA InitLinks == GroupsInit => LinksInv
<1> SUFFICES ASSUME GroupsInit PROVE LinksInv
  OBVIOUS
<1>1. GroupsTypeOK
  BY DEF GroupsInit, GroupsTypeOK, All, Groups, NoGroup
<1>2. OwnersExist
  BY DEF GroupsInit, OwnersExist, NoGroup
<1>3. LinksDescend
  BY DEF GroupsInit, LinksDescend, Groups, NoGroup
<1> QED
  BY <1>1, <1>2, <1>3 DEF LinksInv

(* Whoever starts a group, of whatever kind and members, and whether or not he   *)
(* then blocks on it: the owners of threads exist and the new link descends.    *)
LEMMA StartAllLinks ==
    ASSUME LinksInv,
           NEW t \in All, NEW members \in SUBSET Threads,
           NEW k \in {"timeout", "async", "map"}, NEW willBlock \in BOOLEAN,
           StartAll(t, members, k, willBlock),
           joining' \in [All -> Groups \cup {NoGroup}]
    PROVE  LinksInv'
<1> DEFINE new == groups + 1
<1>1. /\ groups < MaxGroups /\ groups' = new
      /\ kind' = [kind EXCEPT ![new] = k]
      /\ creator' = [creator EXCEPT ![new] = t]
      /\ owner' = [m \in All |-> IF m \in members THEN new ELSE owner[m]]
      /\ state' = [m \in All |-> IF m \in members THEN "running" ELSE state[m]]
      /\ link' = [link EXCEPT ![new] = IF willBlock THEN owner[t] ELSE NoGroup]
  BY DEF StartAll
<1>2. /\ groups \in 0..MaxGroups
      /\ kind \in [Groups -> {"none", "timeout", "async", "map"}]
      /\ creator \in [Groups -> All]
      /\ link \in [Groups -> Groups \cup {NoGroup}]
      /\ owner \in [All -> Groups \cup {NoGroup}]
      /\ state \in [All -> {"new", "running", "over"}]
  BY DEF LinksInv, GroupsTypeOK
<1>3. new \in Groups /\ new \in Nat
  BY <1>1, <1>2 DEF Groups
<1>4. GroupsTypeOK'
  <2>1. groups' \in 0..MaxGroups
    BY <1>1, <1>2
  <2>2. kind' \in [Groups -> {"none", "timeout", "async", "map"}]
    BY <1>1, <1>2, <1>3
  <2>3. creator' \in [Groups -> All]
    BY <1>1, <1>2, <1>3
  <2>4. link' \in [Groups -> Groups \cup {NoGroup}]
    BY <1>1, <1>2, <1>3
  <2>5. owner' \in [All -> Groups \cup {NoGroup}]
    BY <1>1, <1>2, <1>3
  <2>6. state' \in [All -> {"new", "running", "over"}]
    BY <1>1, <1>2
  <2> QED
    BY <2>1, <2>2, <2>3, <2>4, <2>5, <2>6 DEF GroupsTypeOK
<1>5. OwnersExist'
  <2> SUFFICES ASSUME NEW m \in All PROVE owner'[m] <= groups'
    BY DEF OwnersExist
  <2>1. CASE m \in members
    BY <1>1, <1>3, <2>1
  <2>2. CASE m \notin members
    <3>1. owner'[m] = owner[m] /\ owner[m] <= groups
      BY <1>1, <2>2 DEF LinksInv, OwnersExist
    <3>2. owner[m] \in Int
      BY <1>2 DEF Groups, NoGroup
    <3> QED
      BY <1>1, <1>2, <3>1, <3>2
  <2> QED
    BY <2>1, <2>2
<1>6. LinksDescend'
  <2> SUFFICES ASSUME NEW g \in Groups PROVE link'[g] < g
    BY DEF LinksDescend
  <2>1. CASE g = new
    <3>1. owner[t] <= groups /\ owner[t] \in Int
      BY <1>2 DEF LinksInv, OwnersExist, Groups, NoGroup
    <3>2. link'[g] = owner[t] \/ link'[g] = 0
      BY <1>1, <1>2, <1>3, <2>1 DEF NoGroup
    <3> QED
      BY <1>2, <2>1, <3>1, <3>2
  <2>2. CASE g # new
    BY <1>1, <1>2, <2>2 DEF LinksInv, LinksDescend
  <2> QED
    BY <2>1, <2>2
<1> QED
  BY <1>4, <1>5, <1>6 DEF LinksInv

(* The end of a join may only remove a link. *)
LEMMA UnlinkLinks ==
    ASSUME LinksInv, NEW g \in Groups,
           link' = [link EXCEPT ![g] = NoGroup],
           joining' \in [All -> Groups \cup {NoGroup}],
           UNCHANGED <<groups, kind, creator, owner, state>>
    PROVE  LinksInv'
<1>1. GroupsTypeOK'
  BY DEF LinksInv, GroupsTypeOK
<1>2. OwnersExist'
  BY DEF LinksInv, OwnersExist
<1>3. LinksDescend'
  BY DEF LinksInv, GroupsTypeOK, LinksDescend, Groups, NoGroup
<1> QED
  BY <1>1, <1>2, <1>3 DEF LinksInv

(* Steps that leave groups, their links and their members alone. *)
LEMMA OtherLinks ==
    ASSUME LinksInv,
           joining' \in [All -> Groups \cup {NoGroup}],
           state' \in [All -> {"new", "running", "over"}],
           UNCHANGED <<groups, kind, creator, link, owner>>
    PROVE  LinksInv'
BY DEF LinksInv, GroupsTypeOK, OwnersExist, LinksDescend

(* Every step keeps the invariant. *)
LEMMA StepLinks == LinksInv /\ [GroupsNext]_groupsVars => LinksInv'
<1> SUFFICES ASSUME LinksInv, [GroupsNext]_groupsVars PROVE LinksInv'
  OBVIOUS
<1>t. /\ joining \in [All -> Groups \cup {NoGroup}]
      /\ state \in [All -> {"new", "running", "over"}]
      /\ groups \in 0..MaxGroups
  BY DEF LinksInv, GroupsTypeOK
<1>0. ASSUME NEW t \in All, groups < MaxGroups,
             joining' = [joining EXCEPT ![t] = groups + 1]
      PROVE  joining' \in [All -> Groups \cup {NoGroup}]
  <2>1. groups + 1 \in Groups
    BY <1>t, <1>0 DEF Groups
  <2> QED
    BY <1>t, <1>0, <2>1
<1>1. ASSUME NEW t \in All, NEW m \in Threads, RunWithTimeout(t, m) PROVE LinksInv'
  <2>1. /\ StartAll(t, {m}, "timeout", TRUE)
        /\ joining' = [joining EXCEPT ![t] = groups + 1]
    BY <1>1 DEF RunWithTimeout
  <2>2. groups < MaxGroups
    BY <2>1 DEF StartAll
  <2> QED
    BY <1>0, <2>1, <2>2, StartAllLinks
<1>2. ASSUME NEW t \in All, NEW members \in SUBSET Threads, RunAsync(t, members) PROVE LinksInv'
  <2>1. /\ StartAll(t, members, "async", TRUE)
        /\ joining' = [joining EXCEPT ![t] = groups + 1]
    BY <1>2 DEF RunAsync
  <2>2. groups < MaxGroups
    BY <2>1 DEF StartAll
  <2> QED
    BY <1>0, <2>1, <2>2, StartAllLinks
<1>3. ASSUME NEW t \in All, NEW members \in SUBSET Threads, PMap(t, members) PROVE LinksInv'
  <2>1. StartAll(t, members, "map", FALSE) /\ joining' = joining
    BY <1>3 DEF PMap
  <2> QED
    BY <1>t, <2>1, StartAllLinks
<1>4. ASSUME NEW t \in All, NEW g \in Groups, PFinish(t, g) PROVE LinksInv'
  <2>1. /\ joining' = [joining EXCEPT ![t] = g]
        /\ UNCHANGED <<groups, kind, creator, link, owner, state>>
    BY <1>4 DEF PFinish
  <2> QED
    BY <1>t, <2>1, OtherLinks
<1>5. ASSUME NEW t \in All, JoinPeriodEnds(t) PROVE LinksInv'
  <2>1. /\ joining[t] \in Groups
        /\ link' = [link EXCEPT ![joining[t]] = NoGroup]
        /\ UNCHANGED <<groups, kind, creator, owner, state, joining>>
    BY <1>t, <1>5 DEF JoinPeriodEnds
  <2> QED
    BY <1>t, <2>1, UnlinkLinks
<1>6. ASSUME NEW t \in All, JoinAllEnds(t) PROVE LinksInv'
  <2>1. /\ joining[t] \in Groups
        /\ link' = [link EXCEPT ![joining[t]] = NoGroup] \/ link' = link
        /\ joining' = [joining EXCEPT ![t] = NoGroup]
        /\ UNCHANGED <<groups, kind, creator, owner, state>>
    BY <1>t, <1>6 DEF JoinAllEnds
  <2>2. joining' \in [All -> Groups \cup {NoGroup}]
    BY <1>t, <2>1
  <2>3. CASE link' = [link EXCEPT ![joining[t]] = NoGroup]
    BY <2>1, <2>2, <2>3, UnlinkLinks
  <2>4. CASE link' = link
    BY <1>t, <2>1, <2>2, <2>4, OtherLinks
  <2> QED
    BY <2>1, <2>3, <2>4
<1>7. ASSUME NEW t \in All, FunctionEnds(t) PROVE LinksInv'
  <2>1. /\ state' = [state EXCEPT ![t] = "over"]
        /\ UNCHANGED <<groups, kind, creator, link, owner, joining>>
    BY <1>7 DEF FunctionEnds
  <2>2. state' \in [All -> {"new", "running", "over"}]
    BY <1>t, <2>1
  <2> QED
    BY <1>t, <2>1, <2>2, OtherLinks
<1>8. CASE UNCHANGED groupsVars
  BY <1>t, <1>8, OtherLinks DEF groupsVars
<1> QED
  BY <1>1, <1>2, <1>3, <1>4, <1>5, <1>6, <1>7, <1>8 DEF GroupsNext

--------------------------------------------------------------------------------
(* A nonempty set of group ids has a first one: induction over older groups.    *)
LEMMA FirstOf ==
    ASSUME NEW S, S \subseteq Nat, S # {}
    PROVE  \E x \in S: \A y \in S: x <= y
<1>1. PICK x \in S: \A y \in S: ~(<<y, x>> \in OpToRel(<, Nat))
  BY NatLessThanWellFounded, WFMin
<1>2. ASSUME NEW y \in S PROVE x <= y
  <2>1. x \in Nat /\ y \in Nat
    OBVIOUS
  <2>2. ~(y < x)
    BY <1>1, <2>1 DEF OpToRel
  <2> QED
    BY <2>1, <2>2
<1> QED
  BY <1>2

(* The loop of CurrentTimeoutThreadGroup computes a function, as links descend:  *)
(* one that its recursive definition names.                                     *)
LEMMA SearchEquation ==
    ASSUME LinksInv
    PROVE  \A g \in Groups \cup {NoGroup}:
               TimeoutGroupFrom[g] =
                   IF g = NoGroup \/ kind[g] = "timeout" THEN g ELSE TimeoutGroupFrom[link[g]]
<1> DEFINE D == 0..MaxGroups
           Solves(f, n) == \A g \in 0..n:
                f[g] = IF g = NoGroup \/ kind[g] = "timeout" THEN g ELSE f[link[g]]
           Bad == {n \in D: ~\E f: f = [g \in 0..n |-> f[g]] /\ Solves(f, n)}
<1>1. D = Groups \cup {NoGroup}
  BY DEF Groups, NoGroup
<1>2. \A g \in Groups: link[g] \in D /\ link[g] < g
  BY <1>1 DEF LinksInv, GroupsTypeOK, LinksDescend
<1>3. Bad = {}
  <2> SUFFICES ASSUME Bad # {} PROVE FALSE
    OBVIOUS
  <2>1. PICK n \in Bad: \A m \in Bad: n <= m
    <3>1. Bad \subseteq Nat
      OBVIOUS
    <3> QED
      BY <3>1, FirstOf
  <2>2. n \in D /\ n \in Nat
    OBVIOUS
  <2>3. CASE n = 0
    <3> DEFINE f == [g \in 0..0 |-> 0]
    <3>1. f = [g \in 0..0 |-> f[g]] /\ Solves(f, 0)
      BY DEF NoGroup
    <3> QED
      BY <2>3, <3>1
  <2>4. CASE n # 0
    <3>1. n - 1 \in D /\ n - 1 < n /\ n \in Groups
      BY <2>2, <2>4 DEF Groups
    <3>2. PICK f: Solves(f, n - 1)
      BY <2>1, <3>1
    <3> DEFINE last == IF kind[n] = "timeout" THEN n ELSE f[link[n]]
               h == [g \in 0..n |-> IF g = n THEN last ELSE f[g]]
    <3>3. link[n] \in 0..(n - 1)
      BY <1>2, <2>2, <3>1
    <3>4. ASSUME NEW g \in 0..n
          PROVE  h[g] = IF g = NoGroup \/ kind[g] = "timeout" THEN g ELSE h[link[g]]
      <4>1. CASE g = n
        <5>1. h[g] = last /\ h[link[n]] = f[link[n]]
          BY <2>2, <3>3, <4>1
        <5> QED
          BY <2>4, <4>1, <5>1 DEF NoGroup
      <4>2. CASE g # n
        <5>1. g \in 0..(n - 1) /\ g \in D
          BY <2>2, <4>2
        <5>2. f[g] = IF g = NoGroup \/ kind[g] = "timeout" THEN g ELSE f[link[g]]
          BY <3>2, <5>1
        <5>3. CASE g = NoGroup \/ kind[g] = "timeout"
          BY <4>2, <5>2, <5>3
        <5>4. CASE ~(g = NoGroup \/ kind[g] = "timeout")
          <6>1. link[g] \in 0..n /\ link[g] # n
            BY <1>1, <1>2, <2>2, <5>1, <5>4
          <6> QED
            BY <4>2, <5>2, <5>4, <6>1
        <5> QED
          BY <5>3, <5>4
      <4> QED
        BY <4>1, <4>2
    <3>5. h = [g \in 0..n |-> h[g]]
      OBVIOUS
    <3> HIDE DEF h
    <3> QED
      BY <3>4, <3>5
  <2> QED
    BY <2>3, <2>4
<1>4. PICK f: f = [g \in D |-> f[g]] /\ Solves(f, MaxGroups)
  <2>1. MaxGroups \in D
    OBVIOUS
  <2> QED
    BY <1>3, <2>1
<1>5. f = [g \in Groups \cup {NoGroup} |->
            IF g = NoGroup \/ kind[g] = "timeout" THEN g ELSE f[link[g]]]
  BY <1>1, <1>4
<1>6. TimeoutGroupFrom = [g \in Groups \cup {NoGroup} |->
            IF g = NoGroup \/ kind[g] = "timeout" THEN g ELSE TimeoutGroupFrom[link[g]]]
  BY <1>5 DEF TimeoutGroupFrom
<1> QED
  BY <1>6

(* The search finds what covers the thread: if it comes back without a timeout  *)
(* group, no timeout covers the threads of the group it began at.               *)
LEMMA SearchFinds ==
    ASSUME GroupsIInv, NEW g \in Groups \cup {NoGroup}, Covered(g)
    PROVE  TimeoutGroupFrom[g] # NoGroup
<1>1. PICK around \in SUBSET Groups:
        /\ g \in around
        /\ \A h \in around:
            /\ joining[creator[h]] = h
            /\ kind[h] # "map"
            /\ kind[h] = "timeout" \/ owner[creator[h]] \in around
  BY DEF Covered
<1> DEFINE Missed == {h \in around: TimeoutGroupFrom[h] = NoGroup}
<1>2. Missed = {}
  <2> SUFFICES ASSUME Missed # {} PROVE FALSE
    OBVIOUS
  <2>1. PICK h \in Missed: \A x \in Missed: h <= x
    <3>1. Groups \subseteq Nat
      BY DEF Groups
    <3>2. Missed \subseteq Nat
      BY <3>1
    <3> QED
      BY <3>2, FirstOf
  <2>2. /\ h \in Groups /\ h # NoGroup
        /\ TimeoutGroupFrom[h] = IF kind[h] = "timeout" THEN h ELSE TimeoutGroupFrom[link[h]]
    <3>1. h \in Groups /\ h # NoGroup
      BY DEF Groups, NoGroup
    <3> QED
      BY <3>1, SearchEquation DEF GroupsIInv
  <2>3. kind[h] # "timeout" /\ TimeoutGroupFrom[link[h]] = NoGroup
    BY <2>2
  <2>4. h \in 1..groups
    <3>1. creator[h] \in All /\ joining[creator[h]] = h
      BY <1>1, <2>2 DEF GroupsIInv, LinksInv, GroupsTypeOK
    <3> QED
      BY <2>2, <3>1 DEF GroupsIInv, JoinInv, LinksInv, GroupsTypeOK, Groups
  <2>5. kind[h] = "async"
    <3>1. kind[h] \in {"none", "timeout", "async", "map"} /\ kind[h] # "none"
      BY <2>2, <2>4 DEF GroupsIInv, LinksInv, GroupsTypeOK, GroupsInv
    <3> QED
      BY <1>1, <2>3, <3>1
  <2>6. link[h] \in around /\ link[h] < h
    BY <1>1, <2>3, <2>4, <2>5 DEF GroupsIInv, GroupsInv
  <2>7. link[h] \in Missed
    BY <2>3, <2>6
  <2>8. h <= link[h]
    BY <2>1, <2>7
  <2>9. h \in Nat /\ link[h] \in Nat
    <3>1. link[h] \in Groups
      BY <2>6
    <3> QED
      BY <2>2, <3>1 DEF Groups
  <2> QED
    BY <2>6, <2>8, <2>9
<1> QED
  BY <1>1, <1>2

(* No step puts the threads of a group that exists under a timeout: only a pMap  *)
(* group can be waited for anew, and it covers nothing.                         *)
LEMMA CoverShrinks ==
    ASSUME GroupsIInv, NEW g \in 0..groups, Covered(g)',
           \A h \in 1..groups:
                /\ kind'[h] = kind[h] /\ creator'[h] = creator[h]
                /\ owner'[creator[h]] = owner[creator[h]]
                /\ joining'[creator[h]] = h => joining[creator[h]] = h \/ kind[h] = "map"
    PROVE  Covered(g)
<1>1. PICK around \in SUBSET Groups:
        /\ g \in around
        /\ \A h \in around:
            /\ joining'[creator'[h]] = h
            /\ kind'[h] # "map"
            /\ kind'[h] = "timeout" \/ owner'[creator'[h]] \in around
  BY DEF Covered
<1> DEFINE old == around \cap (1..groups)
<1>2. groups \in 0..MaxGroups
  BY DEF GroupsIInv, LinksInv, GroupsTypeOK
<1>3. g \in old
  BY <1>1, <1>2 DEF Groups
<1>4. ASSUME NEW h \in old
      PROVE  /\ joining[creator[h]] = h
             /\ kind[h] # "map"
             /\ kind[h] = "timeout" \/ owner[creator[h]] \in old
  <2>1. /\ kind'[h] = kind[h] /\ creator'[h] = creator[h]
        /\ owner'[creator[h]] = owner[creator[h]]
        /\ joining'[creator[h]] = h => joining[creator[h]] = h \/ kind[h] = "map"
    OBVIOUS
  <2>2. joining[creator[h]] = h /\ kind[h] # "map"
    BY <1>1, <2>1
  <2>3. kind[h] = "timeout" \/ owner[creator[h]] \in around
    BY <1>1, <2>1
  <2>4. owner[creator[h]] < h
    BY DEF GroupsIInv, GroupsInv
  <2>5. owner[creator[h]] \in around => owner[creator[h]] \in 1..groups
    <3> SUFFICES ASSUME owner[creator[h]] \in around PROVE owner[creator[h]] \in 1..groups
      OBVIOUS
    <3>1. h \in 1..groups /\ owner[creator[h]] \in Groups
      OBVIOUS
    <3> QED
      BY <1>2, <2>4, <3>1 DEF Groups
  <2> QED
    BY <2>2, <2>3, <2>5
<1> QED
  BY <1>2, <1>3, <1>4 DEF Covered, Groups

(* A new group, of whatever kind, whose creator then waits for it or not.       *)
LEMMA StartAllInv ==
    ASSUME GroupsIInv, LinksInv',
           NEW t \in All, NEW members \in SUBSET Threads,
           NEW k \in {"timeout", "async", "map"}, NEW willBlock \in BOOLEAN,
           StartAll(t, members, k, willBlock),
           \A m \in All: joining'[m] = joining[m] \/ (m = t /\ joining'[m] = groups + 1),
           k = "async" => willBlock = TRUE,
           k = "timeout" => CurrentTimeoutThreadGroup(t) = NoGroup
    PROVE  GroupsIInv'
<1> DEFINE new == groups + 1
<1>1. /\ state[t] = "running" /\ joining[t] = NoGroup
      /\ \A m \in members: state[m] = "new"
      /\ groups < MaxGroups /\ groups' = new
      /\ kind' = [kind EXCEPT ![new] = k]
      /\ creator' = [creator EXCEPT ![new] = t]
      /\ owner' = [m \in All |-> IF m \in members THEN new ELSE owner[m]]
      /\ state' = [m \in All |-> IF m \in members THEN "running" ELSE state[m]]
      /\ link' = [link EXCEPT ![new] = IF willBlock THEN owner[t] ELSE NoGroup]
  BY DEF StartAll, Free
<1>2. /\ groups \in 0..MaxGroups
      /\ kind \in [Groups -> {"none", "timeout", "async", "map"}]
      /\ creator \in [Groups -> All]
      /\ link \in [Groups -> Groups \cup {NoGroup}]
      /\ owner \in [All -> Groups \cup {NoGroup}]
      /\ joining \in [All -> Groups \cup {NoGroup}]
  BY DEF GroupsIInv, LinksInv, GroupsTypeOK
<1>3. new \in Groups /\ new \in Nat /\ new \notin 1..groups /\ 1..groups \subseteq Groups
  BY <1>1, <1>2 DEF Groups
<1>4. \A h \in 1..groups: /\ kind'[h] = kind[h] /\ creator'[h] = creator[h]
                          /\ link'[h] = link[h]
  BY <1>1, <1>2, <1>3
<1>5. kind'[new] = k /\ creator'[new] = t /\ (willBlock => link'[new] = owner[t])
  BY <1>1, <1>2, <1>3
<1>6. \A m \in All: state[m] # "new" =>
        owner'[m] = owner[m] /\ state'[m] = state[m]
  BY <1>1
<1>7. \A m \in All: \/ joining'[m] = joining[m]
                    \/ m = t /\ joining'[m] = new
  OBVIOUS
<1>8. owner[t] \in 0..groups
  BY <1>2 DEF GroupsIInv, LinksInv, OwnersExist, Groups, NoGroup
<1>9. GroupsInv'
  <2> SUFFICES ASSUME NEW g \in 1..new
               PROVE  /\ kind'[g] # "none"
                      /\ state'[creator'[g]] # "new" /\ owner'[creator'[g]] < g
                      /\ kind'[g] = "async" /\ joining'[creator'[g]] = g =>
                            link'[g] = owner'[creator'[g]]
    BY <1>1 DEF GroupsInv
  <2>1. CASE g = new
    <3>1. owner'[t] = owner[t] /\ state'[t] = "running"
      BY <1>1, <1>6
    <3> QED
      BY <1>2, <1>5, <1>8, <2>1, <3>1
  <2>2. CASE g # new
    <3>1. g \in 1..groups
      BY <1>2, <2>2
    <3>2. /\ kind[g] # "none"
          /\ creator[g] \in All /\ state[creator[g]] # "new" /\ owner[creator[g]] < g
          /\ kind[g] = "async" /\ joining[creator[g]] = g => link[g] = owner[creator[g]]
      BY <1>2, <1>3, <3>1 DEF GroupsIInv, GroupsInv
    <3>3. joining'[creator[g]] = g => joining[creator[g]] = g
      BY <1>7, <2>2, <3>2
    <3> QED
      BY <1>4, <1>6, <3>1, <3>2, <3>3
  <2> QED
    BY <2>1, <2>2
<1>10. JoinInv'
  <2> SUFFICES ASSUME NEW m \in All, joining'[m] # NoGroup
               PROVE  /\ joining'[m] <= groups' /\ creator'[joining'[m]] = m
                      /\ state'[m] = "running"
    BY DEF JoinInv
  <2>1. CASE joining'[m] = joining[m]
    <3>1. /\ joining[m] <= groups /\ creator[joining[m]] = m
          /\ state[m] = "running"
      BY <2>1 DEF GroupsIInv, JoinInv
    <3>2. joining[m] \in 1..groups
      BY <1>2, <2>1, <3>1 DEF Groups, NoGroup
    <3> QED
      BY <1>1, <1>2, <1>4, <1>6, <2>1, <3>1, <3>2
  <2>2. CASE m = t /\ joining'[m] = new
    BY <1>1, <1>3, <1>5, <1>6, <2>2
  <2> QED
    BY <1>7, <2>1, <2>2
<1>11. ASSUME NEW g \in 0..groups, Covered(g)'
       PROVE  Covered(g)
  <2>1. ASSUME NEW h \in 1..groups
        PROVE  /\ kind'[h] = kind[h] /\ creator'[h] = creator[h]
               /\ owner'[creator[h]] = owner[creator[h]]
               /\ joining'[creator[h]] = h => joining[creator[h]] = h \/ kind[h] = "map"
    <3>1. creator[h] \in All /\ state[creator[h]] # "new"
      BY <1>2, <1>3 DEF GroupsIInv, GroupsInv
    <3> QED
      BY <1>3, <1>4, <1>6, <1>7, <3>1
  <2> QED
    BY <1>11, <2>1, CoverShrinks
<1>12. NoNestedTimeouts'
  <2> SUFFICES ASSUME NEW m \in All, joining'[m] # NoGroup, kind'[joining'[m]] = "timeout",
                      NEW x, x = owner[m], Covered(x)'
               PROVE  FALSE
    <3>1. \A m \in All: joining'[m] # NoGroup => owner'[m] = owner[m]
      BY <1>1, <1>6, <1>7 DEF GroupsIInv, JoinInv
    <3> QED
      BY <3>1 DEF NoNestedTimeouts, Covered
  <2>1. x \in 0..groups
    BY <1>2 DEF GroupsIInv, LinksInv, OwnersExist, Groups, NoGroup
  <2>2. Covered(x)
    BY <1>11, <2>1
  <2>3. CASE joining'[m] = joining[m]
    <3>1. joining[m] \in 1..groups
      BY <1>2, <2>3 DEF GroupsIInv, JoinInv, Groups, NoGroup
    <3> QED
      BY <1>4, <2>2, <2>3, <3>1 DEF GroupsIInv, NoNestedTimeouts
  <2>4. CASE m = t /\ joining'[m] = new
    <3>1. k = "timeout" /\ TimeoutGroupFrom[owner[t]] = NoGroup
      BY <1>5, <2>4 DEF CurrentTimeoutThreadGroup
    <3>2. owner[t] \in Groups \cup {NoGroup}
      BY <1>2
    <3> QED
      BY <2>2, <2>4, <3>1, <3>2, SearchFinds
  <2> QED
    BY <1>7, <2>3, <2>4
<1> QED
  BY <1>9, <1>10, <1>12 DEF GroupsIInv

(* A join that begins on a pMap group, ends, or loses its link.                 *)
LEMMA JoinKeeps ==
    ASSUME GroupsIInv, LinksInv',
           UNCHANGED <<groups, kind, creator, owner>>,
           \A t \in All: state'[t] = state[t] \/ (joining'[t] = NoGroup /\ state'[t] = "over"),
           \A t \in All:
                \/ joining'[t] \in {NoGroup, joining[t]}
                \/ /\ joining'[t] \in 1..groups /\ kind[joining'[t]] = "map"
                   /\ creator[joining'[t]] = t /\ state'[t] = "running",
           \A g \in 1..groups:
                kind[g] = "async" /\ joining'[creator[g]] = g => link'[g] = link[g]
    PROVE  GroupsIInv'
<1>1. /\ groups \in 0..MaxGroups
      /\ creator \in [Groups -> All]
      /\ joining \in [All -> Groups \cup {NoGroup}]
      /\ 1..groups \subseteq Groups /\ NoGroup \notin Groups
  BY DEF GroupsIInv, LinksInv, GroupsTypeOK, Groups, NoGroup
<1>2. \A g \in 1..groups: creator[g] \in All
  BY <1>1
<1>3. \A g \in 1..groups:
        joining'[creator[g]] = g => joining[creator[g]] = g \/ kind[g] = "map"
  BY <1>1, <1>2
<1>4. GroupsInv'
  <2> SUFFICES ASSUME NEW g \in 1..groups
               PROVE  /\ kind[g] # "none"
                      /\ state'[creator[g]] # "new" /\ owner[creator[g]] < g
                      /\ kind[g] = "async" /\ joining'[creator[g]] = g =>
                            link'[g] = owner[creator[g]]
    BY DEF GroupsInv
  <2>1. /\ kind[g] # "none"
        /\ state[creator[g]] # "new" /\ owner[creator[g]] < g
        /\ kind[g] = "async" /\ joining[creator[g]] = g => link[g] = owner[creator[g]]
    BY DEF GroupsIInv, GroupsInv
  <2> QED
    BY <1>2, <1>3, <2>1
<1>5. JoinInv'
  <2> SUFFICES ASSUME NEW t \in All, joining'[t] # NoGroup
               PROVE  /\ joining'[t] <= groups /\ creator[joining'[t]] = t
                      /\ state'[t] = "running"
    BY DEF JoinInv
  <2>1. CASE joining'[t] = joining[t]
    BY <2>1 DEF GroupsIInv, JoinInv
  <2>2. CASE joining'[t] # joining[t]
    BY <1>1, <2>2
  <2> QED
    BY <2>1, <2>2
<1>6. NoNestedTimeouts'
  <2> SUFFICES ASSUME NEW t \in All, joining'[t] # NoGroup, kind[joining'[t]] = "timeout",
                      Covered(owner[t])'
               PROVE  FALSE
    BY DEF NoNestedTimeouts, Covered
  <2>1. joining'[t] = joining[t]
    OBVIOUS
  <2>2. owner[t] \in 0..groups
    BY <1>1 DEF GroupsIInv, LinksInv, GroupsTypeOK, OwnersExist, Groups, NoGroup
  <2>3. Covered(owner[t])
    BY <1>3, <2>2, CoverShrinks
  <2> QED
    BY <2>1, <2>3 DEF GroupsIInv, NoNestedTimeouts
<1> QED
  BY <1>4, <1>5, <1>6 DEF GroupsIInv

LEMMA GroupsStepInv == GroupsIInv /\ [GroupsNext]_groupsVars => GroupsIInv'
<1> SUFFICES ASSUME GroupsIInv, [GroupsNext]_groupsVars PROVE GroupsIInv'
  OBVIOUS
<1>1. LinksInv'
  BY StepLinks DEF GroupsIInv
<1>2. /\ groups \in 0..MaxGroups
      /\ joining \in [All -> Groups \cup {NoGroup}]
      /\ state \in [All -> {"new", "running", "over"}]
      /\ link \in [Groups -> Groups \cup {NoGroup}]
      /\ creator \in [Groups -> All]
      /\ 1..groups \subseteq Groups
  BY DEF GroupsIInv, LinksInv, GroupsTypeOK, Groups
<1>3. ASSUME NEW t \in All, NEW m \in Threads, RunWithTimeout(t, m) PROVE GroupsIInv'
  <2>1. /\ StartAll(t, {m}, "timeout", TRUE) /\ CurrentTimeoutThreadGroup(t) = NoGroup
        /\ joining' = [joining EXCEPT ![t] = groups + 1]
        /\ {m} \in SUBSET Threads
    BY <1>3 DEF RunWithTimeout
  <2>2. \A u \in All: joining'[u] = joining[u] \/ (u = t /\ joining'[u] = groups + 1)
    BY <1>2, <2>1
  <2> QED
    BY <1>1, <2>1, <2>2, StartAllInv
<1>4. ASSUME NEW t \in All, NEW members \in SUBSET Threads, RunAsync(t, members) PROVE GroupsIInv'
  <2>1. /\ StartAll(t, members, "async", TRUE)
        /\ joining' = [joining EXCEPT ![t] = groups + 1]
    BY <1>4 DEF RunAsync
  <2>2. \A u \in All: joining'[u] = joining[u] \/ (u = t /\ joining'[u] = groups + 1)
    BY <1>2, <2>1
  <2> QED
    BY <1>1, <2>1, <2>2, StartAllInv
<1>5. ASSUME NEW t \in All, NEW members \in SUBSET Threads, PMap(t, members) PROVE GroupsIInv'
  BY <1>1, <1>5, StartAllInv DEF PMap
<1>6. ASSUME NEW t \in All, NEW g \in Groups, PFinish(t, g) PROVE GroupsIInv'
  <2>1. /\ state[t] = "running" /\ g \in 1..groups /\ creator[g] = t /\ kind[g] = "map"
        /\ joining' = [joining EXCEPT ![t] = g]
        /\ UNCHANGED <<groups, kind, creator, link, owner, state>>
    BY <1>6 DEF PFinish, Free
  <2>2. \A u \in All: joining'[u] = IF u = t THEN g ELSE joining[u]
    BY <1>2, <2>1
  <2> QED
    BY <1>1, <2>1, <2>2, JoinKeeps
<1>7. ASSUME NEW t \in All, JoinPeriodEnds(t) PROVE GroupsIInv'
  <2>1. /\ joining[t] \in Groups /\ kind[joining[t]] = "timeout"
        /\ link' = [link EXCEPT ![joining[t]] = NoGroup]
        /\ UNCHANGED <<groups, kind, creator, owner, state, joining>>
    BY <1>2, <1>7 DEF JoinPeriodEnds
  <2>2. \A g \in 1..groups: kind[g] = "async" => link'[g] = link[g]
    BY <1>2, <2>1
  <2> QED
    BY <1>1, <2>1, <2>2, JoinKeeps
<1>8. ASSUME NEW t \in All, JoinAllEnds(t) PROVE GroupsIInv'
  <2>1. /\ joining[t] \in Groups
        /\ link' = [link EXCEPT ![joining[t]] = NoGroup] \/ link' = link
        /\ joining' = [joining EXCEPT ![t] = NoGroup]
        /\ UNCHANGED <<groups, kind, creator, owner, state>>
    BY <1>2, <1>8 DEF JoinAllEnds
  <2>2. \A u \in All: joining'[u] = IF u = t THEN NoGroup ELSE joining[u]
    BY <1>2, <2>1
  <2>3. creator[joining[t]] = t
    BY <2>1 DEF GroupsIInv, JoinInv, Groups, NoGroup
  <2>4. ASSUME NEW g \in 1..groups, joining'[creator[g]] = g PROVE link'[g] = link[g]
    <3>1. g # joining[t]
      <4>1. g # NoGroup /\ creator[g] \in All
        BY <1>2 DEF Groups, NoGroup
      <4> QED
        BY <2>2, <2>3, <2>4, <4>1
    <3> QED
      BY <1>2, <2>1, <3>1
  <2> QED
    BY <1>1, <2>1, <2>2, <2>4, JoinKeeps
<1>9. ASSUME NEW t \in All, FunctionEnds(t) PROVE GroupsIInv'
  <2>1. /\ joining[t] = NoGroup
        /\ state' = [state EXCEPT ![t] = "over"]
        /\ UNCHANGED <<groups, kind, creator, link, owner, joining>>
    BY <1>9 DEF FunctionEnds, Free
  <2>2. \A u \in All: state'[u] = IF u = t THEN "over" ELSE state[u]
    BY <1>2, <2>1
  <2> QED
    BY <1>1, <2>1, <2>2, JoinKeeps
<1>10. CASE UNCHANGED groupsVars
  <2>1. UNCHANGED <<groups, kind, creator, link, owner, state, joining>>
    BY <1>10 DEF groupsVars
  <2> QED
    BY <1>1, <2>1, JoinKeeps
<1> QED
  BY <1>3, <1>4, <1>5, <1>6, <1>7, <1>8, <1>9, <1>10 DEF GroupsNext

LEMMA GroupsInitInv == GroupsInit => GroupsIInv
<1> SUFFICES ASSUME GroupsInit PROVE GroupsIInv
  OBVIOUS
<1>1. LinksInv
  BY InitLinks
<1>2. GroupsInv
  BY DEF GroupsInit, GroupsInv
<1>3. JoinInv /\ NoNestedTimeouts
  BY DEF GroupsInit, JoinInv, NoNestedTimeouts
<1> QED
  BY <1>1, <1>2, <1>3 DEF GroupsIInv

(* The inductive invariant holds in every reachable state. *)
THEOREM GroupsInvariance == GroupsSpec => []GroupsIInv
BY GroupsInitInv, GroupsStepInv, PTL DEF GroupsSpec

(* Groups, links and owners are well-typed, for any number of threads and groups. *)
THEOREM GroupsTypeCorrect == GroupsSpec => []GroupsTypeOK
<1>1. GroupsIInv => GroupsTypeOK
  BY DEF GroupsIInv, LinksInv
<1> QED
  BY <1>1, GroupsInvariance, PTL

(* Links lead to older groups only, so the loop of CurrentTimeoutThreadGroup     *)
(* ends, whatever other threads do to the links meanwhile.                       *)
THEOREM SearchDescends == GroupsSpec => []LinksDescend
<1>1. GroupsIInv => LinksDescend
  BY DEF GroupsIInv, LinksInv
<1> QED
  BY <1>1, GroupsInvariance, PTL

(* "Don't wrap if there's already an outer timeout thread": no thread waits in   *)
(* a timeout group of its own while its callers wait for it under one, but for   *)
(* threads started by pMap.                                                     *)
THEOREM TimeoutsAreNotNested == GroupsSpec => []NoNestedTimeouts
<1>1. GroupsIInv => NoNestedTimeouts
  BY DEF GroupsIInv
<1> QED
  BY <1>1, GroupsInvariance, PTL

--------------------------------------------------------------------------------
(* TimeoutRetry.  Each conjunct of the strengthening ties one piece of state to *)
(* where the calling thread is.                                                 *)

(* The try in progress has a thread from Start on, and no cause until it ends.  *)
CurrentTry ==
    /\ pc = "start" => thread[num_try] = "none"
    /\ pc \notin {"start", "raised"} => thread[num_try] # "none"
    /\ pc = "raised" <=> cause[num_try] # "none"
    /\ pc = "returned" => thread[num_try] = "value"

(* JoinAll believes the thread dead only when it is.                            *)
JoinedIsOver == pc # "start" /\ joined => thread[num_try] # "alive"

(* Run raised what its last try raised, or what was raised while it waited.     *)
RaisedByLastTry ==
    pc = "raised" =>
        /\ raiser[num_try] \in Raisers
        /\ raiser[num_try] = "thread" => cause[num_try] = thread[num_try]
        /\ raiser[num_try] = "watchdog" => cause[num_try] = TimeoutError
        /\ raiser[num_try] = "dump" => thread[num_try] \in Ends
        /\ cause[num_try] \in RetryIf \ {Exit} => num_try = Retries + 1

(* The watchdog counts at least the slices waited; a join begins only before it *)
(* expires.                                                                     *)
SlicesWatched ==
    Watched =>
        /\ slices <= elapsed
        /\ pc = "join" => slices <= Timeout

IInv ==
    /\ TypeOK
    /\ TriesInOrder
    /\ OnlyOutsidersAbandon
    /\ CurrentTry
    /\ JoinedIsOver
    /\ RaisedByLastTry
    /\ SlicesWatched

--------------------------------------------------------------------------------
USE TimeoutAssumption, RetriesAssumption, JoinPeriodAssumption, RetryIfAssumption

(* Strings as sets of distinct values, for the steps below. *)
LEMMA ErrorsDistinct ==
    /\ Errors = {"TimeoutError", "Exception", "BaseException"}
    /\ "alive" \notin Errors /\ "value" \notin Errors /\ "none" \notin Errors
    /\ TimeoutError \in Errors
BY DEF Errors, TimeoutError, Failure, Exit

(* The initial state satisfies the invariant. *)
LEMMA InitInv == Init => IInv
<1> SUFFICES ASSUME Init PROVE IInv
  OBVIOUS
<1>1. 1 \in Attempts
  BY DEF Attempts
<1>2. TypeOK
  <2>1. /\ pc \in {"start", "loop", "join", "dump", "reraise", "check"} \cup Done
        /\ num_try \in Attempts
        /\ elapsed \in 0..(Timeout + 1)
        /\ waited \in 0..JoinPeriod
        /\ slices \in Nat
    BY <1>1 DEF Init
  <2>2. joined \in BOOLEAN
    BY DEF Init
  <2>3. /\ thread \in [Attempts -> {"none", "alive"} \cup Ends]
        /\ cause \in [Attempts -> {"none"} \cup Errors]
        /\ raiser \in [Attempts -> {"none"} \cup Raisers]
    BY DEF Init
  <2> QED
    BY <2>1, <2>2, <2>3 DEF TypeOK
<1>3. TriesInOrder
  BY DEF Init, TriesInOrder, Attempts
<1>4. OnlyOutsidersAbandon /\ CurrentTry
  BY <1>1 DEF Init, OnlyOutsidersAbandon, CurrentTry
<1>5. JoinedIsOver /\ RaisedByLastTry /\ SlicesWatched
  BY DEF Init, JoinedIsOver, RaisedByLastTry, SlicesWatched
<1> QED
  BY <1>2, <1>3, <1>4, <1>5 DEF IInv

(* The except clauses of Run keep the invariant, whoever raised the exception.  *)
LEMMA HandleInv ==
    ASSUME NEW e \in Errors, NEW by \in Raisers, IInv, Handle(e, by),
           pc \notin Done, pc = "start" => e = Exit,
           by = "thread" => e = thread[num_try],
           by = "watchdog" => e = TimeoutError,
           by = "dump" => thread[num_try] \in Ends,
           thread[num_try] = "alive" => by \in {"watchdog", "signal"},
           UNCHANGED <<thread, joined, elapsed, waited, slices>>
    PROVE  IInv'
<1>1. /\ num_try \in Attempts
      /\ cause \in [Attempts -> {"none"} \cup Errors]
      /\ raiser \in [Attempts -> {"none"} \cup Raisers]
      /\ thread \in [Attempts -> {"none", "alive"} \cup Ends]
  BY DEF IInv, TypeOK
<1>2. cause' = [cause EXCEPT ![num_try] = e] /\ raiser' = [raiser EXCEPT ![num_try] = by]
  BY DEF Handle
<1>3. /\ cause'[num_try] = e /\ raiser'[num_try] = by
      /\ \A a \in Attempts \ {num_try}: cause'[a] = cause[a] /\ raiser'[a] = raiser[a]
  BY <1>1, <1>2
<1>4. CASE e = Exit \/ num_try > Retries \/ e \notin RetryIf
  <2>1. pc' = "raised" /\ num_try' = num_try
    BY <1>4 DEF Handle
  <2>2. TypeOK'
    BY <1>1, <1>2, <2>1 DEF IInv, TypeOK, Done
  <2>3. TriesInOrder'
    BY <1>1, <1>3, <2>1 DEF IInv, TriesInOrder, Attempts
  <2>4. OnlyOutsidersAbandon'
    BY <1>1, <1>3, ErrorsDistinct DEF IInv, OnlyOutsidersAbandon
  <2>5. CurrentTry'
    BY <1>3, <2>1, ErrorsDistinct DEF IInv, CurrentTry
  <2>6. RaisedByLastTry'
    BY <1>1, <1>3, <1>4, <2>1 DEF RaisedByLastTry, Attempts
  <2>7. JoinedIsOver' /\ SlicesWatched'
    BY <2>1 DEF IInv, CurrentTry, JoinedIsOver, SlicesWatched
  <2> QED
    BY <2>2, <2>3, <2>4, <2>5, <2>6, <2>7 DEF IInv
<1>5. CASE ~(e = Exit \/ num_try > Retries \/ e \notin RetryIf)
  <2>1. pc' = "start" /\ num_try' = num_try + 1
    BY <1>5 DEF Handle
  <2>2. num_try' \in Attempts /\ num_try' > num_try
    BY <1>1, <1>5, <2>1 DEF Attempts
  <2>3. TypeOK'
    BY <1>1, <1>2, <2>1, <2>2 DEF IInv, TypeOK
  <2>4. TriesInOrder'
    <3>1. thread[num_try] # "none"
      BY <1>5 DEF IInv, CurrentTry, Done
    <3>2. e \in RetryIf \ {Exit}
      BY <1>5
    <3> QED
      BY <1>1, <1>3, <2>1, <3>1, <3>2 DEF IInv, TriesInOrder, Attempts
  <2>5. OnlyOutsidersAbandon'
    BY <1>1, <1>3, ErrorsDistinct DEF IInv, OnlyOutsidersAbandon
  <2>6. CurrentTry'
    BY <1>1, <1>3, <2>1, <2>2 DEF IInv, TriesInOrder, CurrentTry
  <2> QED
    BY <2>1, <2>3, <2>4, <2>5, <2>6
    DEF IInv, JoinedIsOver, RaisedByLastTry, SlicesWatched
<1> QED
  BY <1>4, <1>5

(* Every step keeps the invariant. *)
LEMMA StepInv == IInv /\ [Next]_vars => IInv'
<1> SUFFICES ASSUME IInv, [Next]_vars PROVE IInv'
  OBVIOUS
<1>t. /\ num_try \in Attempts
      /\ thread \in [Attempts -> {"none", "alive"} \cup Ends]
      /\ elapsed \in 0..(Timeout + 1)
      /\ waited \in 0..JoinPeriod
      /\ slices \in Nat
  BY DEF IInv, TypeOK
<1>1. CASE Start
  <2>1. /\ pc = "start" /\ pc' = "loop"
        /\ thread' = [thread EXCEPT ![num_try] = "alive"]
        /\ joined' = FALSE /\ elapsed' = 0 /\ waited' = 0 /\ slices' = 0
        /\ num_try' = num_try /\ cause' = cause /\ raiser' = raiser
    BY <1>1 DEF Start
  <2>2. thread'[num_try] = "alive" /\ \A a \in Attempts \ {num_try}: thread'[a] = thread[a]
    BY <1>t, <2>1
  <2>3. TypeOK'
    <3>1. joined' \in BOOLEAN
      BY <2>1
    <3>2. thread' \in [Attempts -> {"none", "alive"} \cup Ends]
      BY <1>t, <2>1
    <3> QED
      BY <2>1, <3>1, <3>2 DEF IInv, TypeOK
  <2>4. TriesInOrder'
    BY <1>t, <2>1, <2>2 DEF IInv, TriesInOrder, Attempts
  <2>5. cause[num_try] = "none"
    BY <2>1 DEF IInv, CurrentTry
  <2>6. OnlyOutsidersAbandon'
    BY <1>t, <2>1, <2>2, <2>5 DEF IInv, OnlyOutsidersAbandon
  <2>7. CurrentTry' /\ JoinedIsOver' /\ RaisedByLastTry' /\ SlicesWatched'
    BY <2>1, <2>2, <2>5
    DEF CurrentTry, JoinedIsOver, RaisedByLastTry, SlicesWatched
  <2> QED
    BY <2>3, <2>4, <2>6, <2>7 DEF IInv
<1>2. CASE Watch
  <2>1. pc = "loop" /\ UNCHANGED <<thread, joined, elapsed, waited, slices>>
    BY <1>2 DEF Watch
  <2>2. CASE joined \/ waited >= JoinPeriod
    <3>1. pc' = "reraise" /\ UNCHANGED <<num_try, cause, raiser>>
      BY <1>2, <2>2 DEF Watch
    <3> QED
      BY <2>1, <3>1
      DEF IInv, TypeOK, TriesInOrder, OnlyOutsidersAbandon, CurrentTry, JoinedIsOver,
          RaisedByLastTry, SlicesWatched, Attempts, Errors, Ends, Done
  <2>3. CASE ~(joined \/ waited >= JoinPeriod) /\ IsTimedOut
    <3>1. CASE thread[num_try] = "alive"
      <4>1. pc' = "dump" /\ UNCHANGED <<num_try, cause, raiser>>
        BY <1>2, <2>3, <3>1 DEF Watch
      <4> QED
        BY <2>1, <4>1
        DEF IInv, TypeOK, TriesInOrder, OnlyOutsidersAbandon, CurrentTry, JoinedIsOver,
            RaisedByLastTry, SlicesWatched, Attempts, Errors, Ends, Done
    <3>2. CASE thread[num_try] # "alive"
      <4>1. Handle(TimeoutError, "watchdog")
        BY <1>2, <2>3, <3>2 DEF Watch
      <4> QED
        BY <2>1, <3>2, <4>1, HandleInv, ErrorsDistinct DEF Raisers, Done
    <3> QED
      BY <3>1, <3>2
  <2>4. CASE ~(joined \/ waited >= JoinPeriod) /\ ~IsTimedOut
    <3>1. pc' = "join" /\ UNCHANGED <<num_try, cause, raiser>>
      BY <1>2, <2>4 DEF Watch
    <3>2. Watched => slices <= Timeout
      BY <1>t, <2>4 DEF IInv, SlicesWatched, IsTimedOut
    <3>3. SlicesWatched'
      BY <2>1, <3>1, <3>2 DEF IInv, SlicesWatched, Watched
    <3> QED
      BY <2>1, <3>1, <3>3
      DEF IInv, TypeOK, TriesInOrder, OnlyOutsidersAbandon, CurrentTry, JoinedIsOver,
          RaisedByLastTry, Attempts, Errors, Ends, Done
  <2> QED
    BY <2>2, <2>3, <2>4
<1>3. CASE JoinEnds
  <2>1. /\ pc = "join" /\ pc' = "loop" /\ thread[num_try] # "alive" /\ joined' = TRUE
        /\ UNCHANGED <<num_try, thread, elapsed, waited, cause, raiser, slices>>
    BY <1>3 DEF JoinEnds
  <2> QED
    BY <2>1
    DEF IInv, TypeOK, TriesInOrder, OnlyOutsidersAbandon, CurrentTry, JoinedIsOver,
        RaisedByLastTry, SlicesWatched, Watched, Attempts, Errors, Ends, Done
<1>4. CASE JoinExpires
  <2>1. /\ pc = "join" /\ pc' = "loop"
        /\ UNCHANGED <<num_try, thread, joined, cause, raiser>>
    BY <1>4 DEF JoinExpires
  <2>2. /\ elapsed' = IF Watched THEN Later(elapsed, Timeout + 1) ELSE 0
        /\ waited' = Later(waited, JoinPeriod)
        /\ slices' = IF Watched THEN slices + 1 ELSE 0
    BY <1>4 DEF JoinExpires, Advance
  <2>3. elapsed' \in 0..(Timeout + 1) /\ waited' \in 0..JoinPeriod /\ slices' \in Nat
    BY <1>t, <2>2 DEF Later
  <2>4. SlicesWatched'
    BY <1>t, <2>1, <2>2 DEF IInv, SlicesWatched, Later, Watched
  <2>5. TypeOK'
    BY <2>1, <2>3 DEF IInv, TypeOK
  <2> QED
    BY <2>1, <2>4, <2>5
    DEF IInv, TriesInOrder, OnlyOutsidersAbandon, CurrentTry, JoinedIsOver,
        RaisedByLastTry, Attempts
<1>5. CASE Reraise
  <2>1. pc = "reraise" /\ UNCHANGED <<thread, joined, elapsed, waited, slices>>
    BY <1>5 DEF Reraise
  <2>2. CASE thread[num_try] \in Errors
    BY <1>5, <2>1, <2>2, HandleInv, ErrorsDistinct DEF Reraise, Raisers, Done
  <2>3. CASE thread[num_try] \notin Errors
    <3>1. pc' = "check" /\ UNCHANGED <<num_try, cause, raiser>>
      BY <1>5, <2>3 DEF Reraise
    <3> QED
      BY <2>1, <3>1
      DEF IInv, TypeOK, TriesInOrder, OnlyOutsidersAbandon, CurrentTry, JoinedIsOver,
          RaisedByLastTry, SlicesWatched, Watched, Attempts, Errors, Ends, Done
  <2> QED
    BY <2>2, <2>3
<1>6. CASE Check
  <2>1. pc = "check" /\ UNCHANGED <<thread, joined, elapsed, slices>>
    BY <1>6 DEF Check
  <2>2. CASE /\ thread[num_try] = "alive" /\ pc' = "loop" /\ waited' = 0
             /\ UNCHANGED <<num_try, cause, raiser>>
    BY <2>1, <2>2
    DEF IInv, TypeOK, TriesInOrder, OnlyOutsidersAbandon, CurrentTry, JoinedIsOver,
        RaisedByLastTry, SlicesWatched, Watched, Attempts, Errors, Ends, Done
  <2>3. CASE thread[num_try] \in Errors /\ Handle(thread[num_try], "thread") /\ UNCHANGED waited
    BY <2>1, <2>3, HandleInv, ErrorsDistinct DEF Raisers, Done
  <2>4. CASE /\ thread[num_try] = "value" /\ pc' = "returned"
             /\ UNCHANGED <<num_try, waited, cause, raiser>>
    BY <2>1, <2>4
    DEF IInv, TypeOK, TriesInOrder, OnlyOutsidersAbandon, CurrentTry, JoinedIsOver,
        RaisedByLastTry, SlicesWatched, Watched, Attempts, Errors, Ends, Done
  <2> QED
    BY <1>6, <2>2, <2>3, <2>4 DEF Check
<1>7. CASE Tick
  <2>1. /\ pc \notin Done
        /\ UNCHANGED <<pc, num_try, thread, joined, cause, raiser, slices>>
        /\ elapsed' = IF Watched THEN Later(elapsed, Timeout + 1) ELSE 0
        /\ waited' = Later(waited, JoinPeriod)
    BY <1>7 DEF Tick, Advance
  <2>2. elapsed' \in 0..(Timeout + 1) /\ waited' \in 0..JoinPeriod
    BY <1>t, <2>1 DEF Later
  <2>3. SlicesWatched'
    BY <1>t, <2>1 DEF IInv, SlicesWatched, Later, Watched
  <2> QED
    BY <2>1, <2>2, <2>3
    DEF IInv, TypeOK, TriesInOrder, OnlyOutsidersAbandon, CurrentTry, JoinedIsOver,
        RaisedByLastTry, Attempts
<1>8. ASSUME NEW a \in Attempts, ThreadEnds(a) PROVE IInv'
  <2>1. /\ thread[a] = "alive"
        /\ UNCHANGED <<pc, num_try, joined, elapsed, waited, cause, raiser, slices>>
    BY <1>8 DEF ThreadEnds
  <2>2. PICK end \in Ends: thread' = [thread EXCEPT ![a] = end]
    BY <1>8 DEF ThreadEnds
  <2>3. thread'[a] = end /\ \A b \in Attempts \ {a}: thread'[b] = thread[b]
    BY <1>t, <2>2
  <2>4. end \notin {"none", "alive"}
    BY ErrorsDistinct DEF Ends
  <2>5. TypeOK'
    BY <2>1, <2>2 DEF IInv, TypeOK
  <2>6. TriesInOrder'
    BY <2>1, <2>3, <2>4 DEF IInv, TriesInOrder
  <2>7. OnlyOutsidersAbandon'
    BY <2>1, <2>3 DEF IInv, OnlyOutsidersAbandon
  <2>8. CurrentTry' /\ JoinedIsOver'
    BY <1>t, <2>1, <2>3, <2>4 DEF IInv, CurrentTry, JoinedIsOver
  <2>9. RaisedByLastTry'
    BY <1>t, <2>1, <2>3, ErrorsDistinct
    DEF IInv, OnlyOutsidersAbandon, CurrentTry, RaisedByLastTry
  <2> QED
    BY <2>1, <2>5, <2>6, <2>7, <2>8, <2>9 DEF IInv, SlicesWatched
<1>9. CASE Dump
  <2>1. pc = "dump" /\ UNCHANGED <<thread, joined, elapsed, waited, slices>>
    BY <1>9 DEF Dump
  <2>2. CASE Handle(TimeoutError, "watchdog")
    BY <2>1, <2>2, HandleInv, ErrorsDistinct DEF Raisers, Done
  <2>3. CASE thread[num_try] # "alive" /\ Handle(Failure, "dump")
    <3>1. thread[num_try] \in Ends
      BY <1>t, <2>1, <2>3 DEF IInv, CurrentTry
    <3> QED
      BY <2>1, <2>3, <3>1, HandleInv DEF Raisers, Done, Errors
  <2> QED
    BY <1>9, <2>2, <2>3 DEF Dump
<1>10. ASSUME NEW e \in {Failure, Exit}, Interrupt(e) PROVE IInv'
  <2>1. /\ pc \notin Done /\ (pc = "start" => e = Exit) /\ Handle(e, "signal")
        /\ UNCHANGED <<thread, joined, elapsed, waited, slices>>
    BY <1>10 DEF Interrupt
  <2>2. e \in Errors /\ "signal" \in Raisers
    BY DEF Errors, Raisers
  <2> QED
    BY <2>1, <2>2, HandleInv
<1>11. CASE UNCHANGED vars
  BY <1>11
  DEF vars, IInv, TypeOK, TriesInOrder, OnlyOutsidersAbandon, CurrentTry, JoinedIsOver,
      RaisedByLastTry, SlicesWatched, Watched, Attempts, Errors, Ends, Done
<1> QED
  BY <1>1, <1>2, <1>3, <1>4, <1>5, <1>6, <1>7, <1>8, <1>9, <1>10, <1>11 DEF Next, Caller

(* The inductive invariant holds in every reachable state. *)
THEOREM Invariance == Spec => []IInv
<1>1. Init => IInv
  BY InitInv
<1>2. IInv /\ [Next]_vars => IInv'
  BY StepInv
<1> QED
  BY <1>1, <1>2, PTL DEF Spec

(* Every state of Run is well-typed: no try past Retries + 1 is ever begun.     *)
THEOREM TypeCorrect == Spec => []TypeOK
<1>1. IInv => TypeOK
  BY DEF IInv
<1> QED
  BY <1>1, Invariance, PTL

(* Tries are made one after the other, each after a retryable exception of the  *)
(* one before it.                                                               *)
THEOREM TriesAreInOrder == Spec => []TriesInOrder
<1>1. IInv => TriesInOrder
  BY DEF IInv
<1> QED
  BY <1>1, Invariance, PTL

(* Only the watchdog, a signal or the dump of a stack leaves a running thread,  *)
(* or a value, behind.                                                          *)
THEOREM OnlyOutsidersLeaveThreads == Spec => []OnlyOutsidersAbandon
<1>1. IInv => OnlyOutsidersAbandon
  BY DEF IInv
<1> QED
  BY <1>1, Invariance, PTL

(* Run ends with the outcome of its last try, never with that of an abandoned   *)
(* one.                                                                         *)
THEOREM LastTryDecides == Spec => []OutcomeOfLastTry
<1>1. IInv => OutcomeOfLastTry
  BY DEF IInv, OutcomeOfLastTry, CurrentTry, RaisedByLastTry, Raisers
<1> QED
  BY <1>1, Invariance, PTL

(* Whatever the scheduling, a try blocks its caller for at most Timeout + 1     *)
(* slices.                                                                      *)
THEOREM WaitIsBounded == Spec => []BoundedWait
<1>1. IInv => BoundedWait
  <2> SUFFICES ASSUME IInv, Watched PROVE slices <= Timeout + 1
    BY DEF BoundedWait
  <2>1. slices <= elapsed /\ elapsed \in 0..(Timeout + 1) /\ slices \in Nat
    BY DEF IInv, TypeOK, SlicesWatched
  <2> QED
    BY <2>1
<1> QED
  BY <1>1, Invariance, PTL

--------------------------------------------------------------------------------
(* Run implements the retried call: the safety part of ImplementsRetriedCall.   *)

(* The except clauses of Run are a Retry or a Raise of the abstract call.       *)
LEMMA HandleRefines ==
    ASSUME NEW e \in Errors, NEW by, Handle(e, by), TypeOK, pc \notin Done
    PROVE  Abstract!Next
<1>1. num_try \in Nat /\ cause \in [Attempts -> {"none"} \cup Errors] /\ num_try \in Attempts
  BY DEF TypeOK, Attempts
<1>2. Outcome = "pending"
  BY DEF Outcome, Done
<1>3. CASE e = Exit \/ num_try > Retries \/ e \notin RetryIf
  <2>1. pc' = "raised" /\ num_try' = num_try /\ cause'[num_try] = e
    BY <1>1, <1>3 DEF Handle
  <2>2. Outcome' = e
    BY <2>1 DEF Outcome
  <2>3. Abstract!Raise(e)
    BY <1>2, <1>3, <2>1, <2>2 DEF Abstract!Raise
  <2> QED
    BY <2>3 DEF Abstract!Next
<1>4. CASE ~(e = Exit \/ num_try > Retries \/ e \notin RetryIf)
  <2>1. pc' = "start" /\ num_try' = num_try + 1
    BY <1>4 DEF Handle
  <2>2. Outcome' = "pending"
    BY <2>1 DEF Outcome
  <2>3. Abstract!Retry
    BY <1>1, <1>2, <1>4, <2>1, <2>2 DEF Abstract!Retry
  <2> QED
    BY <2>3 DEF Abstract!Next
<1> QED
  BY <1>3, <1>4

(* A step between two places of Run is invisible to the caller of Run.          *)
LEMMA Stutter ==
    ASSUME num_try' = num_try, cause' = cause, pc \notin Done, pc' \notin Done
    PROVE  UNCHANGED Abstract!vars
<1>1. Outcome' = Outcome
  BY DEF Outcome, Done
<1> QED
  BY <1>1 DEF Abstract!vars

(* Every step of Run is a step of the retried call, or a stutter.               *)
LEMMA StepRefines == IInv /\ [Next]_vars => [Abstract!Next]_(Abstract!vars)
<1> SUFFICES ASSUME IInv, [Next]_vars PROVE [Abstract!Next]_(Abstract!vars)
  OBVIOUS
<1>t. TypeOK
  BY DEF IInv
<1>1. CASE Start
  BY <1>1, Stutter DEF Start, Done
<1>2. CASE Watch
  <2>1. CASE Handle(TimeoutError, "watchdog")
    BY <1>2, <1>t, <2>1, HandleRefines, ErrorsDistinct DEF Watch, Done
  <2>2. CASE pc' \in {"reraise", "join", "dump"} /\ UNCHANGED <<num_try, cause, raiser>>
    BY <1>2, <2>2, Stutter DEF Watch, Done
  <2> QED
    BY <1>2, <2>1, <2>2 DEF Watch
<1>3. CASE JoinEnds
  BY <1>3, Stutter DEF JoinEnds, Done
<1>4. CASE JoinExpires
  BY <1>4, Stutter DEF JoinExpires, Done
<1>5. CASE Reraise
  <2>1. CASE thread[num_try] \in Errors
    BY <1>5, <1>t, <2>1, HandleRefines DEF Reraise, Done
  <2>2. CASE thread[num_try] \notin Errors
    BY <1>5, <2>2, Stutter DEF Reraise, Done
  <2> QED
    BY <2>1, <2>2
<1>6. CASE Check
  <2>1. CASE pc' = "loop" /\ UNCHANGED <<num_try, cause, raiser>>
    BY <1>6, <2>1, Stutter DEF Check, Done
  <2>2. CASE thread[num_try] \in Errors /\ Handle(thread[num_try], "thread")
    BY <1>6, <1>t, <2>2, HandleRefines DEF Check, Done
  <2>3. CASE pc' = "returned" /\ UNCHANGED <<num_try, cause, raiser>>
    <3>1. Outcome = "pending" /\ Outcome' = "value"
      BY <1>6, <2>3 DEF Check, Outcome
    <3> QED
      BY <2>3, <3>1 DEF Abstract!Next, Abstract!Return
  <2> QED
    BY <1>6, <2>1, <2>2, <2>3 DEF Check
<1>7. CASE Tick
  BY <1>7, Stutter DEF Tick
<1>8. ASSUME NEW a \in Attempts, ThreadEnds(a) PROVE UNCHANGED Abstract!vars
  <2>1. pc' = pc /\ num_try' = num_try /\ cause' = cause
    BY <1>8 DEF ThreadEnds
  <2> QED
    BY <2>1 DEF Abstract!vars, Outcome
<1>9. CASE Dump
  <2>1. pc = "dump" /\ \E e \in {TimeoutError, Failure}, by \in Raisers: Handle(e, by)
    BY <1>9 DEF Dump, Raisers
  <2> QED
    BY <1>t, <2>1, HandleRefines DEF Errors, Done
<1>10. ASSUME NEW e \in {Failure, Exit}, Interrupt(e) PROVE Abstract!Next
  BY <1>t, <1>10, HandleRefines DEF Interrupt, Errors
<1>11. CASE UNCHANGED vars
  <2>1. pc' = pc /\ num_try' = num_try /\ cause' = cause
    BY <1>11 DEF vars
  <2> QED
    BY <2>1 DEF Abstract!vars, Outcome
<1> QED
  BY <1>1, <1>2, <1>3, <1>4, <1>5, <1>6, <1>7, <1>8, <1>9, <1>10, <1>11 DEF Next, Caller

(* Run is a retried call: what the caller sees are the steps of RetriedCall.    *)
THEOREM RunImplementsRetriedCall == Spec => Abstract!Init /\ [][Abstract!Next]_(Abstract!vars)
<1>1. Init => Abstract!Init
  BY DEF Init, Abstract!Init, Outcome
<1>2. IInv /\ [Next]_vars => [Abstract!Next]_(Abstract!vars)
  BY StepRefines
<1> QED
  BY <1>1, <1>2, Invariance, PTL DEF Spec

--------------------------------------------------------------------------------
(* PortAllocation.                                                              *)

(* The lock file is held by the process inside the critical section.            *)
Exclusion == \A p \in Procs: stage[p] \in InLock <=> lock = p

(* What a process in the critical section knows.                                *)
Progress ==
    \A p \in Procs:
        /\ stage[p] \in {"creating", "opened", "probing", "chosen", "resetting"} => file # Absent
        /\ stage[p] \in {"probing", "chosen"} => port[p] \in Counter

(* Until a reset only the holder of the lock writes the file, the counter never *)
(* falls behind the search for a port, and the search has found all it passed   *)
(* in use.                                                                      *)
CounterGrows ==
    \A p \in Procs:
        /\ stage[p] # "resetting"
        /\ stage[p] = "creating" => file = Empty
        /\ stage[p] \in {"probing", "chosen"} =>
            /\ file \in Counter /\ port[p] >= file
            /\ \A n \in Ports: file <= n /\ n < port[p] => n \in tried[p]

PortsIInv ==
    /\ PortsTypeOK
    /\ Exclusion
    /\ Progress
    /\ ~reset => CounterGrows
    /\ CounterPastGiven
    /\ GivenPortsDistinct

--------------------------------------------------------------------------------
USE PortsAssumption, MaxOpsAssumption, ProcsAssumption

(* The initial state satisfies the invariant, whatever counter the file holds.  *)
LEMMA PortsInitInv == PortsInit => PortsIInv
<1> SUFFICES ASSUME PortsInit PROVE PortsIInv
  OBVIOUS
<1>1. PortsTypeOK
  <2>1. /\ reset \in BOOLEAN /\ logged \in [Procs -> BOOLEAN]
        /\ tried \in [Procs -> SUBSET Ports] /\ bound \in [Procs -> SUBSET Ports]
    BY DEF PortsInit
  <2> QED
    BY <2>1 DEF PortsInit, PortsTypeOK, Ports, None, Absent, Empty
<1>2. Exclusion /\ Progress /\ CounterGrows /\ CounterPastGiven /\ GivenPortsDistinct
  BY DEF PortsInit, Exclusion, Progress, CounterGrows, CounterPastGiven, GivenPortsDistinct,
         InLock, Ports, None, Nobody
<1> QED
  BY <1>1, <1>2 DEF PortsIInv

(* A step that takes ports away, or gives up results, keeps those that are left *)
(* distinct and below a counter that does not go back.                          *)
LEMMA FewerGiven ==
    ASSUME PortsIInv, reset' \in BOOLEAN, ~reset' => ~reset,
           unrecorded \subseteq unrecorded',
           \A p \in Procs: given'[p] \in Ports => given'[p] = given[p] \/ given'[p] \in unrecorded',
           \A p \in Procs: bound'[p] \subseteq bound[p],
           ~reset' => file' = file \/ (file \in {Absent, Empty} /\ file' \in Int)
    PROVE  CounterPastGiven' /\ GivenPortsDistinct'
<1>t. /\ given \in [Procs -> {None, 0} \cup Counter]
      /\ bound \in [Procs -> SUBSET Ports]
      /\ file \in {Absent, Empty} \cup Counter
  BY DEF PortsIInv, PortsTypeOK
<1> SUFFICES ASSUME ~reset' PROVE CounterPastGiven' /\ GivenPortsDistinct'
  BY DEF CounterPastGiven, GivenPortsDistinct
<1>1. ASSUME NEW p \in Procs, given'[p] \in Ports \ unrecorded'
      PROVE  given'[p] = given[p] /\ given[p] \in Ports \ unrecorded
  BY <1>1
<1>2. ASSUME NEW p \in Procs, NEW n \in bound'[p] \ unrecorded'
      PROVE  n \in bound[p] \ unrecorded /\ n \in Ports
  BY <1>2, <1>t
<1>3. \A n \in Ports: file > n => file' > n
  BY <1>t DEF Absent, Empty, Counter, Ports
<1>4. CounterPastGiven'
  <2>1. ASSUME NEW p \in Procs, given'[p] \in Ports \ unrecorded' PROVE file' > given'[p]
    BY <1>1, <1>3, <2>1 DEF PortsIInv, CounterPastGiven
  <2>2. ASSUME NEW p \in Procs, NEW n \in bound'[p] \ unrecorded' PROVE file' > n
    BY <1>2, <1>3, <2>2 DEF PortsIInv, CounterPastGiven
  <2> QED
    BY <2>1, <2>2 DEF CounterPastGiven
<1>5. GivenPortsDistinct'
  <2> SUFFICES ASSUME NEW p \in Procs, given'[p] \in Ports \ unrecorded', NEW q \in Procs
               PROVE  given'[p] \notin bound'[q] /\ (q # p => given'[q] # given'[p])
    BY DEF GivenPortsDistinct
  <2>1. given'[p] = given[p] /\ given[p] \in Ports \ unrecorded
    BY <1>1
  <2>2. given[p] \notin bound[q] /\ (q # p => given[q] # given[p])
    BY <2>1 DEF PortsIInv, GivenPortsDistinct
  <2>3. ASSUME q # p, given'[q] = given'[p] PROVE FALSE
    BY <1>1, <2>1, <2>2, <2>3
  <2> QED
    BY <2>1, <2>2, <2>3
<1> QED
  BY <1>4, <1>5

(* A step that leaves the file and the search of every process alone.           *)
LEMMA SameSearch ==
    ASSUME PortsIInv, UNCHANGED <<file, lock, stage, port, tried>>, ~reset' => ~reset
    PROVE  Exclusion' /\ Progress' /\ (~reset' => CounterGrows')
BY DEF PortsIInv, Exclusion, Progress, CounterGrows

(* The call of p ends: it holds the lock no more.                               *)
LEMMA UnlockSearch ==
    ASSUME PortsIInv, NEW p \in Procs, stage[p] \in InLock,
           NEW n, NEW x, Unlock(p, n, x), reset' = reset,
           file' = file \/ (file # Absent /\ file' # Absent)
    PROVE  Exclusion' /\ Progress' /\ (~reset' => CounterGrows')
<1>t. /\ stage \in [Procs -> InLock \cup {"idle", "resetting"}]
      /\ port \in [Procs -> {0} \cup Counter]
      /\ tried \in [Procs -> SUBSET Ports]
  BY DEF PortsIInv, PortsTypeOK
<1>1. /\ lock' = Nobody /\ stage' = [stage EXCEPT ![p] = "idle"]
      /\ port' = [port EXCEPT ![p] = 0] /\ tried' = [tried EXCEPT ![p] = {}]
  BY DEF Unlock
<1>2. lock = p /\ \A q \in Procs \ {p}: stage[q] \notin InLock
  BY DEF PortsIInv, Exclusion
<1>3. stage'[p] = "idle" /\ \A q \in Procs \ {p}: stage'[q] = stage[q] /\ port'[q] = port[q]
  BY <1>t, <1>1
<1>4. Exclusion'
  BY <1>1, <1>2, <1>3 DEF Exclusion, InLock
<1>5. Progress'
  BY <1>3 DEF PortsIInv, Progress
<1>6. ~reset' => CounterGrows'
  BY <1>2, <1>3 DEF PortsIInv, CounterGrows, InLock
<1> QED
  BY <1>4, <1>5, <1>6

LEMMA UnlockType ==
    ASSUME PortsIInv, NEW p \in Procs, NEW n \in {0} \cup Counter, NEW x \in BOOLEAN, Unlock(p, n, x)
    PROVE  /\ lock' \in Procs \cup {Nobody}
           /\ stage' \in [Procs -> InLock \cup {"idle", "resetting"}]
           /\ port' \in [Procs -> {0} \cup Counter]
           /\ tried' \in [Procs -> SUBSET Ports]
           /\ given' \in [Procs -> {None, 0} \cup Counter]
           /\ logged' \in [Procs -> BOOLEAN]
BY DEF PortsIInv, PortsTypeOK, Unlock

(* Every step keeps the invariant. *)
LEMMA PortsStepInv == PortsIInv /\ [PortsNext]_portsVars => PortsIInv'
<1> SUFFICES ASSUME PortsIInv, [PortsNext]_portsVars PROVE PortsIInv'
  OBVIOUS
<1>t. /\ stage \in [Procs -> InLock \cup {"idle", "resetting"}]
      /\ port \in [Procs -> {0} \cup Counter]
      /\ tried \in [Procs -> SUBSET Ports]
      /\ bound \in [Procs -> SUBSET Ports]
      /\ given \in [Procs -> {None, 0} \cup Counter]
      /\ logged \in [Procs -> BOOLEAN]
      /\ ops \in [Procs -> 0..MaxOps]
      /\ file \in {Absent, Empty} \cup Counter
      /\ busy \subseteq Ports
      /\ reset \in BOOLEAN
      /\ unrecorded \subseteq Counter
      /\ lock \in Procs \cup {Nobody}
  BY DEF PortsIInv, PortsTypeOK
<1>n. None \notin Ports /\ 0 \notin Ports /\ 0 \notin Counter
  BY DEF None, Ports, Counter
<1>1. ASSUME NEW p \in Procs, Lock(p) PROVE PortsIInv'
  <2>1. /\ stage[p] = "idle" /\ lock = Nobody /\ lock' = p
        /\ stage' = [stage EXCEPT ![p] = "locked"]
        /\ ops[p] < MaxOps /\ ops' = [ops EXCEPT ![p] = ops[p] + 1]
        /\ UNCHANGED <<file, port, tried, bound, given, logged, busy, reset, unrecorded>>
    BY <1>1 DEF Lock
  <2>2. PortsTypeOK'
    <3>1. ops' \in [Procs -> 0..MaxOps]
      BY <1>t, <2>1
    <3>2. stage' \in [Procs -> InLock \cup {"idle", "resetting"}] /\ lock' \in Procs
      BY <1>t, <2>1 DEF InLock
    <3> QED
      BY <1>t, <2>1, <3>1, <3>2 DEF PortsTypeOK
  <2>3. Exclusion'
    BY <1>t, <2>1 DEF PortsIInv, Exclusion, InLock
  <2>4. Progress' /\ (~reset' => CounterGrows')
    BY <1>t, <2>1 DEF PortsIInv, Progress, CounterGrows
  <2>5. CounterPastGiven' /\ GivenPortsDistinct'
    BY <2>1, FewerGiven, <1>t
  <2> QED
    BY <2>2, <2>3, <2>4, <2>5 DEF PortsIInv
<1>2. ASSUME NEW p \in Procs, Open(p) \/ Create(p) PROVE PortsIInv'
  <2>1. /\ stage[p] \in {"locked", "creating"}
        /\ UNCHANGED <<lock, port, tried, bound, given, logged, busy, ops, reset, unrecorded>>
    BY <1>2 DEF Open, Create
  <2>2. \/ stage[p] = "locked" /\ file' = file /\ file # Absent /\ stage' = [stage EXCEPT ![p] = "opened"]
        \/ file = Absent /\ file' = Empty /\ stage' = [stage EXCEPT ![p] = "creating"]
        \/ /\ stage[p] = "creating" /\ file' \in {First, file}
           /\ stage' = [stage EXCEPT ![p] = "opened"]
    BY <1>2 DEF Open, Create
  <2>3. stage'[p] \in {"opened", "creating"} /\ \A q \in Procs \ {p}: stage'[q] = stage[q]
    BY <1>t, <2>2
  <2>4. \A q \in Procs \ {p}: stage[q] \notin InLock
    BY <2>1 DEF PortsIInv, Exclusion, InLock
  <2>5. file' \in {Absent, Empty} \cup Counter
    BY <1>t, <2>2 DEF Counter
  <2>6. PortsTypeOK'
    <3>1. stage' \in [Procs -> InLock \cup {"idle", "resetting"}]
      BY <1>t, <2>2 DEF InLock
    <3> QED
      BY <1>t, <2>1, <2>5, <3>1 DEF PortsTypeOK
  <2>7. Exclusion'
    BY <2>1, <2>3 DEF PortsIInv, Exclusion, InLock
  <2>8. Progress'
    <3>1. file # Absent => file' # Absent
      BY <2>2, <1>t DEF Absent, Empty
    <3>2. file' # Absent
      <4>1. stage[p] = "creating" => file # Absent
        BY DEF PortsIInv, Progress
      <4> QED
        BY <2>2, <4>1 DEF Absent, Empty
    <3> QED
      BY <2>1, <2>3, <3>1, <3>2 DEF PortsIInv, Progress
  <2>9. ~reset' => CounterGrows'
    <3>1. stage'[p] = "creating" => file' = Empty
      BY <1>t, <2>2
    <3> QED
      BY <2>1, <2>3, <2>4, <3>1 DEF PortsIInv, CounterGrows, InLock
  <2>10. CounterPastGiven' /\ GivenPortsDistinct'
    <3>1. ~reset => file' = file \/ (file \in {Absent, Empty} /\ file' \in Int)
      BY <2>2 DEF PortsIInv, CounterGrows, Empty
    <3> QED
      BY <1>t, <2>1, <3>1, FewerGiven
  <2> QED
    BY <2>6, <2>7, <2>8, <2>9, <2>10 DEF PortsIInv
<1>3. ASSUME NEW p \in Procs, NEW n \in {0} \cup Counter, NEW x \in BOOLEAN, Unlock(p, n, x),
             stage[p] \in InLock, n \in Counter => n \in unrecorded',
             unrecorded \subseteq unrecorded', unrecorded' \subseteq Counter,
             UNCHANGED <<file, bound, busy, ops, reset>>
      PROVE  PortsIInv'
  <2>1. PortsTypeOK'
    BY <1>t, <1>3, UnlockType DEF PortsTypeOK
  <2>2. Exclusion' /\ Progress' /\ (~reset' => CounterGrows')
    BY <1>3, UnlockSearch
  <2>3. \A q \in Procs: given'[q] \in Ports => given'[q] = given[q] \/ given'[q] \in unrecorded'
    BY <1>t, <1>n, <1>3 DEF Unlock
  <2>4. CounterPastGiven' /\ GivenPortsDistinct'
    BY <1>t, <1>3, <2>3, FewerGiven
  <2> QED
    BY <2>1, <2>2, <2>4 DEF PortsIInv
<1>4. ASSUME NEW p \in Procs, OpenFails(p) PROVE PortsIInv'
  <2>1. /\ stage[p] \in InLock /\ Unlock(p, 0, TRUE)
        /\ UNCHANGED <<file, bound, busy, ops, reset, unrecorded>>
    BY <1>4 DEF OpenFails, InLock
  <2> QED
    BY <1>t, <1>n, <1>3, <2>1
<1>5. ASSUME NEW p \in Procs, ProbeOrWriteFails(p) PROVE PortsIInv'
  <2>1. stage[p] \in {"probing", "chosen"} /\ port[p] \in Counter
    BY <1>5 DEF ProbeOrWriteFails, PortsIInv, Progress
  <2> QED
    BY <1>t, <1>3, <1>5, <2>1 DEF ProbeOrWriteFails, InLock
<1>6. ASSUME NEW p \in Procs, Read(p) PROVE PortsIInv'
  <2>1. stage[p] = "opened" /\ UNCHANGED <<file, bound, busy, ops, reset, unrecorded>>
    BY <1>6 DEF Read
  <2>2. CASE file = Empty
    <3>1. stage[p] \in InLock /\ Unlock(p, 0, TRUE)
      BY <1>6, <2>1, <2>2 DEF Read, InLock
    <3> QED
      BY <1>t, <1>n, <1>3, <2>1, <3>1
  <2>3. CASE file # Empty
    <3>1. /\ stage' = [stage EXCEPT ![p] = "probing"] /\ port' = [port EXCEPT ![p] = file]
          /\ UNCHANGED <<lock, tried, given, logged>>
      BY <1>6, <2>3 DEF Read
    <3>2. file \in Counter
      BY <1>t, <2>1, <2>3 DEF PortsIInv, Progress
    <3>3. PortsTypeOK'
      BY <1>t, <2>1, <3>1, <3>2 DEF PortsTypeOK, InLock
    <3>4. Exclusion'
      BY <1>t, <2>1, <3>1 DEF PortsIInv, Exclusion, InLock
    <3>5. Progress'
      BY <1>t, <2>1, <3>1, <3>2 DEF PortsIInv, Progress
    <3>6. ~reset' => CounterGrows'
      <4>1. port'[p] = file /\ file' = file
        BY <1>t, <2>1, <3>1
      <4>2. \A n \in Ports: ~(file' <= n /\ n < port'[p])
        BY <3>2, <4>1 DEF Counter, Ports
      <4>3. port'[p] >= file'
        BY <3>2, <4>1 DEF Counter
      <4> QED
        BY <1>t, <2>1, <3>1, <3>2, <4>2, <4>3 DEF PortsIInv, CounterGrows
    <3>7. CounterPastGiven' /\ GivenPortsDistinct'
      BY <1>t, <2>1, <3>1, FewerGiven
    <3> QED
      BY <3>3, <3>4, <3>5, <3>6, <3>7 DEF PortsIInv
  <2> QED
    BY <2>2, <2>3
<1>7. ASSUME NEW p \in Procs, Probe(p) PROVE PortsIInv'
  <2>1. /\ stage[p] = "probing" /\ port[p] \in Counter
        /\ UNCHANGED <<file, lock, bound, given, logged, busy, ops, reset, unrecorded>>
    BY <1>7 DEF Probe, PortsIInv, Progress
  <2>2. CounterPastGiven' /\ GivenPortsDistinct'
    BY <1>t, <2>1, FewerGiven
  <2>3. CASE IsHostPortAvailable(port[p])
    <3>1. stage' = [stage EXCEPT ![p] = "chosen"] /\ port' = port /\ tried' = tried
      BY <1>7, <2>3 DEF Probe
    <3>2. PortsTypeOK'
      BY <1>t, <2>1, <3>1 DEF PortsTypeOK, InLock
    <3>3. Exclusion' /\ Progress' /\ (~reset' => CounterGrows')
      BY <1>t, <2>1, <3>1 DEF PortsIInv, Exclusion, Progress, CounterGrows, InLock
    <3> QED
      BY <2>2, <3>2, <3>3 DEF PortsIInv
  <2>4. CASE ~IsHostPortAvailable(port[p])
    <3>1. /\ stage' = stage /\ port' = [port EXCEPT ![p] = port[p] + 1]
          /\ tried' = [tried EXCEPT ![p] = tried[p] \cup {port[p]}]
      BY <1>7, <2>4 DEF Probe
    <3>2. port[p] \in Ports
      BY <1>t, <2>4 DEF IsHostPortAvailable
    <3>3. port[p] + 1 \in Counter
      BY <3>2 DEF Ports, Counter
    <3>4. PortsTypeOK'
      <4>1. tried' \in [Procs -> SUBSET Ports]
        BY <1>t, <3>1, <3>2
      <4>2. port' \in [Procs -> {0} \cup Counter]
        BY <1>t, <3>1, <3>3
      <4> QED
        BY <1>t, <2>1, <3>1, <4>1, <4>2 DEF PortsTypeOK
    <3>5. Exclusion' /\ Progress'
      BY <1>t, <2>1, <3>1, <3>3 DEF PortsIInv, Exclusion, Progress
    <3>6. ~reset' => CounterGrows'
      <4> SUFFICES ASSUME ~reset, NEW q \in Procs
                   PROVE  /\ stage[q] # "resetting"
                          /\ stage[q] = "creating" => file = Empty
                          /\ stage[q] \in {"probing", "chosen"} =>
                              /\ file \in Counter /\ port'[q] >= file
                              /\ \A n \in Ports: file <= n /\ n < port'[q] => n \in tried'[q]
        BY <2>1, <3>1 DEF CounterGrows
      <4>1. CASE q # p
        <5>1. port'[q] = port[q] /\ tried'[q] = tried[q]
          BY <1>t, <3>1, <4>1
        <5> QED
          BY <5>1 DEF PortsIInv, CounterGrows
      <4>2. CASE q = p
        <5>1. port'[p] = port[p] + 1 /\ tried'[p] = tried[p] \cup {port[p]}
          BY <1>t, <3>1
        <5>2. /\ file \in Counter /\ port[p] >= file
              /\ \A n \in Ports: file <= n /\ n < port[p] => n \in tried[p]
          BY <2>1 DEF PortsIInv, CounterGrows
        <5>3. port'[p] >= file
          BY <3>2, <5>1, <5>2 DEF Ports, Counter
        <5>4. ASSUME NEW n \in Ports, file <= n, n < port'[p] PROVE n \in tried'[p]
          <6>1. n < port[p] \/ n = port[p]
            BY <3>2, <5>1, <5>4 DEF Ports
          <6> QED
            BY <5>1, <5>2, <5>4, <6>1
        <5> QED
          BY <2>1, <4>2, <5>2, <5>3, <5>4
      <4> QED
        BY <4>1, <4>2
    <3> QED
      BY <2>2, <3>4, <3>5, <3>6 DEF PortsIInv
  <2> QED
    BY <2>3, <2>4
<1>8. ASSUME NEW p \in Procs, AdvanceCounter(p) PROVE PortsIInv'
  <2>1. stage[p] = "chosen" /\ port[p] \in Counter /\ UNCHANGED <<bound, busy, ops, reset, unrecorded>>
    BY <1>8 DEF AdvanceCounter, PortsIInv, Progress
  <2>2. CASE port[p] > Last
    <3>1. stage[p] \in InLock /\ Unlock(p, 0, FALSE) /\ file' = file
      BY <1>8, <2>1, <2>2 DEF AdvanceCounter, InLock
    <3> QED
      BY <1>t, <1>n, <1>3, <2>1, <3>1
  <2>3. CASE ~(port[p] > Last)
    <3> DEFINE n == port[p]
    <3>1. Unlock(p, n, FALSE) /\ file' = n + 1
      BY <1>8, <2>3 DEF AdvanceCounter
    <3>2. n \in Ports /\ n \in Nat /\ file' \in Counter /\ file' # Absent
      BY <2>1, <2>3, <3>1 DEF Ports, Counter, Absent
    <3>3. PortsTypeOK'
      BY <1>t, <2>1, <3>1, <3>2, UnlockType DEF PortsTypeOK
    <3>4. file # Absent
      BY <2>1 DEF PortsIInv, Progress
    <3>5. Exclusion' /\ Progress' /\ (~reset' => CounterGrows')
      BY <2>1, <3>1, <3>2, <3>4, UnlockSearch DEF InLock
    <3>6. ASSUME ~reset PROVE n >= file /\ file \in Nat
      BY <2>1, <3>6 DEF PortsIInv, CounterGrows, Counter
    <3>7. given'[p] = n /\ \A q \in Procs \ {p}: given'[q] = given[q]
      BY <1>t, <3>1 DEF Unlock
    <3>8. ASSUME ~reset, NEW m \in Ports, m < file PROVE m < file' /\ m # n
      BY <3>1, <3>2, <3>6, <3>8 DEF Ports
    <3>9. CounterPastGiven'
      <4> SUFFICES ASSUME ~reset, NEW q \in Procs
                   PROVE  /\ given'[q] \in Ports \ unrecorded => file' > given'[q]
                          /\ \A m \in bound[q] \ unrecorded: file' > m
        BY <2>1 DEF CounterPastGiven
      <4>1. \A m \in bound[q] \ unrecorded: file > m /\ m \in Ports
        BY <1>t DEF PortsIInv, CounterPastGiven
      <4>2. \A m \in bound[q] \ unrecorded: file' > m
        <5> SUFFICES ASSUME NEW m \in bound[q] \ unrecorded PROVE file' > m
          OBVIOUS
        <5>1. file > m /\ m \in Ports
          BY <4>1
        <5> QED
          BY <3>6, <3>8, <5>1, <3>2 DEF Ports, Counter
      <4>3. CASE q = p
        BY <3>1, <3>2, <3>7, <4>2, <4>3
      <4>4. CASE q # p
        <5>1. ASSUME given[q] \in Ports \ unrecorded PROVE file' > given[q]
          <6>1. file > given[q]
            BY <5>1 DEF PortsIInv, CounterPastGiven
          <6> QED
            BY <3>6, <3>8, <5>1, <6>1, <3>2 DEF Ports, Counter
        <5> QED
          BY <3>7, <4>2, <4>4, <5>1
      <4> QED
        BY <4>3, <4>4
    <3>10. GivenPortsDistinct'
      <4> SUFFICES ASSUME ~reset, NEW q \in Procs, given'[q] \in Ports \ unrecorded, NEW r \in Procs
                   PROVE  given'[q] \notin bound[r] /\ (r # q => given'[r] # given'[q])
        BY <2>1 DEF GivenPortsDistinct
      <4>0. ASSUME NEW m \in Ports \ unrecorded, NEW s \in Procs, m = given[s] \/ m \in bound[s]
            PROVE  m # n
        <5>1. file > m
          BY <4>0 DEF PortsIInv, CounterPastGiven
        <5> QED
          BY <3>6, <3>8, <5>1 DEF Ports
      <4>1. CASE q = p
        BY <3>7, <4>0, <4>1
      <4>2. CASE q # p
        <5>1. given'[q] = given[q] /\ given[q] # n
          BY <3>7, <4>0, <4>2
        <5>2. given[q] \notin bound[r] /\ (r # q => given[r] # given[q])
          BY <5>1 DEF PortsIInv, GivenPortsDistinct
        <5> QED
          BY <3>7, <5>1, <5>2
      <4> QED
        BY <4>1, <4>2
    <3> QED
      BY <3>3, <3>5, <3>9, <3>10 DEF PortsIInv
  <2> QED
    BY <2>2, <2>3
<1>9. ASSUME NEW p \in Procs, Truncate(p) \/ WriteFirst(p) PROVE PortsIInv'
  <2>1. /\ reset' \in BOOLEAN /\ (reset => reset') /\ (Truncate(p) => reset')
        /\ stage[p] \in {"idle", "resetting"} /\ file' \in {Empty, First, file}
        /\ Truncate(p) => file' = Empty
        /\ UNCHANGED <<lock, port, tried, bound, given, logged, busy, unrecorded>>
    BY <1>t, <1>9 DEF Truncate, WriteFirst
  <2>2. /\ ops' \in [Procs -> 0..MaxOps]
        /\ stage' \in [Procs -> InLock \cup {"idle", "resetting"}]
        /\ stage'[p] \in {"idle", "resetting"} /\ \A q \in Procs \ {p}: stage'[q] = stage[q]
        /\ stage'[p] = "resetting" => Truncate(p)
    <3>1. CASE Truncate(p)
      <4>1. ops[p] < MaxOps /\ ops' = [ops EXCEPT ![p] = ops[p] + 1]
            /\ stage' = [stage EXCEPT ![p] = "resetting"]
        BY <3>1 DEF Truncate
      <4> QED
        BY <1>t, <3>1, <4>1
    <3>2. CASE WriteFirst(p)
      BY <1>t, <3>2 DEF WriteFirst
    <3> QED
      BY <1>9, <3>1, <3>2
  <2>3. file' \in {Absent, Empty} \cup Counter
    BY <1>t, <2>1 DEF Counter
  <2>4. PortsTypeOK'
    BY <1>t, <2>1, <2>2, <2>3 DEF PortsTypeOK
  <2>5. Exclusion'
    BY <2>1, <2>2 DEF PortsIInv, Exclusion, InLock
  <2>6. Progress'
    <3>1. file # Absent => file' # Absent
      BY <2>1 DEF Absent, Empty
    <3>2. stage'[p] = "resetting" => file' # Absent
      BY <2>1, <2>2 DEF Absent, Empty
    <3> QED
      BY <2>1, <2>2, <3>1, <3>2 DEF PortsIInv, Progress
  <2>7. reset'
    BY <1>9, <2>1 DEF WriteFirst, PortsIInv, CounterGrows
  <2> QED
    BY <2>4, <2>5, <2>6, <2>7 DEF PortsIInv, CounterPastGiven, GivenPortsDistinct
<1>10. ASSUME NEW p \in Procs, Bind(p) PROVE PortsIInv'
  <2>1. /\ given[p] \in Ports /\ given' = [given EXCEPT ![p] = None]
        /\ bound' = [bound EXCEPT ![p] = bound[p] \cup {given[p]}] \/ bound' = bound
        /\ logged' = [logged EXCEPT ![p] = FALSE]
        /\ UNCHANGED <<file, lock, stage, port, tried, busy, ops, reset, unrecorded>>
    BY <1>10 DEF Bind
  <2>2. \A q \in Procs: bound'[q] \subseteq bound[q] \cup (IF q = p THEN {given[p]} ELSE {})
    BY <1>t, <2>1
  <2>3. given'[p] = None /\ \A q \in Procs \ {p}: given'[q] = given[q]
    BY <1>t, <2>1
  <2>4. PortsTypeOK'
    <3>1. bound' \in [Procs -> SUBSET Ports]
      BY <1>t, <2>1
    <3>2. given' \in [Procs -> {None, 0} \cup Counter] /\ logged' \in [Procs -> BOOLEAN]
      BY <1>t, <2>1
    <3> QED
      BY <1>t, <2>1, <3>1, <3>2 DEF PortsTypeOK
  <2>5. Exclusion' /\ Progress' /\ (~reset' => CounterGrows')
    BY <2>1, SameSearch
  <2>6. CounterPastGiven'
    BY <1>n, <2>1, <2>2, <2>3 DEF PortsIInv, CounterPastGiven
  <2>7. GivenPortsDistinct'
    <3> SUFFICES ASSUME ~reset, NEW q \in Procs, given'[q] \in Ports \ unrecorded, NEW r \in Procs
                 PROVE  given'[q] \notin bound'[r] /\ (r # q => given'[r] # given'[q])
      BY <2>1 DEF GivenPortsDistinct
    <3>1. q # p /\ given'[q] = given[q]
      BY <1>n, <2>3
    <3>2. \A s \in Procs: given[q] \notin bound[s] /\ (s # q => given[s] # given[q])
      BY <3>1 DEF PortsIInv, GivenPortsDistinct
    <3> QED
      BY <1>n, <2>2, <2>3, <3>1, <3>2
  <2> QED
    BY <2>4, <2>5, <2>6, <2>7 DEF PortsIInv
<1>11. ASSUME NEW p \in Procs, GiveUp(p) \/ \E n \in Ports: StopServer(p, n) PROVE PortsIInv'
  <2>1. UNCHANGED <<file, lock, stage, port, tried, busy, ops, reset, unrecorded>>
    BY <1>11 DEF GiveUp, StopServer
  <2>2. /\ given' = given \/ given' = [given EXCEPT ![p] = None]
        /\ logged' = logged \/ logged' = [logged EXCEPT ![p] = FALSE]
        /\ bound' = bound \/ \E n \in Ports: bound' = [bound EXCEPT ![p] = bound[p] \ {n}]
    BY <1>11 DEF GiveUp, StopServer
  <2>3. \A q \in Procs: given'[q] \in Ports => given'[q] = given[q]
    BY <1>t, <1>n, <2>2
  <2>4. bound' \in [Procs -> SUBSET Ports] /\ \A q \in Procs: bound'[q] \subseteq bound[q]
    BY <1>t, <2>2
  <2>5. PortsTypeOK'
    <3>1. given' \in [Procs -> {None, 0} \cup Counter]
      BY <1>t, <2>2
    <3>2. logged' \in [Procs -> BOOLEAN]
      BY <1>t, <2>2
    <3> QED
      BY <1>t, <2>1, <2>4, <3>1, <3>2 DEF PortsTypeOK
  <2>6. CounterPastGiven' /\ GivenPortsDistinct'
    BY <1>t, <2>1, <2>3, <2>4, FewerGiven
  <2> QED
    BY <2>1, <2>5, <2>6, SameSearch DEF PortsIInv
<1>12. ASSUME NEW p \in Procs, Die(p) PROVE PortsIInv'
  <2>1. /\ lock' = IF lock = p THEN Nobody ELSE lock
        /\ stage' = [stage EXCEPT ![p] = "idle"] /\ port' = [port EXCEPT ![p] = 0]
        /\ tried' = [tried EXCEPT ![p] = {}] /\ bound' = [bound EXCEPT ![p] = {}]
        /\ given' = [given EXCEPT ![p] = None] /\ logged' = [logged EXCEPT ![p] = FALSE]
        /\ UNCHANGED <<file, busy, ops, reset, unrecorded>>
    BY <1>12 DEF Die
  <2>2. /\ given'[p] = None /\ \A q \in Procs \ {p}: given'[q] = given[q]
        /\ \A q \in Procs: bound'[q] \subseteq bound[q]
    BY <1>t, <2>1
  <2>3. /\ stage'[p] = "idle"
        /\ \A q \in Procs \ {p}: stage'[q] = stage[q] /\ port'[q] = port[q] /\ tried'[q] = tried[q]
    BY <1>t, <2>1
  <2>4. PortsTypeOK'
    BY <1>t, <2>1 DEF PortsTypeOK
  <2>5. Exclusion'
    BY <2>1, <2>3 DEF PortsIInv, Exclusion, InLock
  <2>6. Progress' /\ (~reset' => CounterGrows')
    BY <2>1, <2>3 DEF PortsIInv, Progress, CounterGrows
  <2>7. CounterPastGiven' /\ GivenPortsDistinct'
    BY <1>t, <1>n, <2>1, <2>2, FewerGiven
  <2> QED
    BY <2>4, <2>5, <2>6, <2>7 DEF PortsIInv
<1>13. ASSUME NEW n \in Ports, OtherProgram(n) PROVE PortsIInv'
  <2>1. /\ busy' \subseteq Ports
        /\ UNCHANGED <<file, lock, stage, port, tried, bound, given, logged, ops, reset, unrecorded>>
    BY <1>t, <1>13 DEF OtherProgram
  <2>2. PortsTypeOK'
    BY <1>t, <2>1 DEF PortsTypeOK
  <2>3. CounterPastGiven' /\ GivenPortsDistinct'
    BY <1>t, <2>1, FewerGiven
  <2> QED
    BY <2>1, <2>2, <2>3, SameSearch DEF PortsIInv
<1>14. CASE UNCHANGED portsVars
  <2>1. PortsTypeOK' /\ CounterPastGiven' /\ GivenPortsDistinct'
    BY <1>t, <1>14 DEF PortsIInv, PortsTypeOK, CounterPastGiven, GivenPortsDistinct, portsVars
  <2> QED
    BY <1>14, <2>1, SameSearch DEF PortsIInv, portsVars
<1> QED
  BY <1>1, <1>2, <1>4, <1>5, <1>6, <1>7, <1>8, <1>9, <1>10, <1>11, <1>12, <1>13, <1>14
  DEF PortsNext, Locked

(* A step that returns 0 without an exception has seen every port from the      *)
(* counter on in use, or comes after a reset.                                   *)
LEMMA StepExhausted ==
    ASSUME PortsIInv, PortsNext, NEW p \in Procs, given[p] = None, given'[p] = 0, ~logged'[p], ~reset
    PROVE  file \in Counter /\ Ports \cap (file..Last) \subseteq tried[p]
<1>t. /\ given \in [Procs -> {None, 0} \cup Counter]
      /\ logged \in [Procs -> BOOLEAN]
  BY DEF PortsIInv, PortsTypeOK
<1>1. None # 0
  BY DEF None
<1>2. PICK q \in Procs: AdvanceCounter(q) \/ OpenFails(q) \/ ProbeOrWriteFails(q) \/ Read(q)
                        \/ Bind(q) \/ GiveUp(q) \/ Die(q)
  BY <1>1 DEF PortsNext, Locked, Lock, Open, Create, Probe, Truncate, WriteFirst,
              StopServer, OtherProgram
<1>3. ~Bind(q) /\ ~GiveUp(q) /\ ~Die(q)
  BY <1>1, <1>t DEF Bind, GiveUp, Die
<1>4. \E x \in BOOLEAN: \E n: Unlock(q, n, x) /\ (~x => AdvanceCounter(q))
  <2>1. CASE AdvanceCounter(q)
    <3>1. Unlock(q, 0, FALSE) \/ Unlock(q, port[q], FALSE)
      BY <2>1 DEF AdvanceCounter
    <3> QED
      BY <2>1, <3>1
  <2>2. CASE OpenFails(q)
    <3>1. Unlock(q, 0, TRUE)
      BY <2>2 DEF OpenFails
    <3> QED
      BY <3>1
  <2>3. CASE ProbeOrWriteFails(q)
    <3>1. Unlock(q, port[q], TRUE)
      BY <2>3 DEF ProbeOrWriteFails
    <3> QED
      BY <3>1
  <2>4. CASE Read(q)
    <3>1. file = Empty
      BY <1>1, <2>4 DEF Read
    <3>2. Unlock(q, 0, TRUE)
      BY <2>4, <3>1 DEF Read
    <3> QED
      BY <3>2
  <2> QED
    BY <1>2, <1>3, <2>1, <2>2, <2>3, <2>4
<1>5. q = p /\ AdvanceCounter(p)
  <2>1. PICK x \in BOOLEAN, n \in {given'[q]}: Unlock(q, n, x) /\ (~x => AdvanceCounter(q))
    BY <1>4, <1>t DEF Unlock
  <2>2. given' = [given EXCEPT ![q] = n] /\ logged' = [logged EXCEPT ![q] = x]
    BY <2>1 DEF Unlock
  <2> QED
    BY <1>1, <1>t, <2>1, <2>2
<1>6. stage[p] = "chosen" /\ port[p] \in Counter
  BY <1>5 DEF AdvanceCounter, PortsIInv, Progress
<1>7. port[p] > Last
  <2> SUFFICES ASSUME ~(port[p] > Last) PROVE FALSE
    OBVIOUS
  <2>1. given' = [given EXCEPT ![p] = port[p]]
    BY <1>5 DEF AdvanceCounter, Unlock
  <2>2. given'[p] = port[p]
    BY <1>t, <2>1
  <2> QED
    BY <1>6, <2>2 DEF Counter
<1>8. /\ file \in Counter /\ port[p] >= file
      /\ \A m \in Ports: file <= m /\ m < port[p] => m \in tried[p]
  BY <1>6 DEF PortsIInv, CounterGrows
<1>9. ASSUME NEW m \in Ports, m \in file..Last PROVE m \in tried[p]
  BY <1>6, <1>7, <1>8, <1>9 DEF Ports, Counter
<1> QED
  BY <1>8, <1>9

(* The inductive invariant holds in every reachable state. *)
THEOREM PortsInvariance == PortsSpec => []PortsIInv
<1>1. PortsInit => PortsIInv
  BY PortsInitInv
<1>2. PortsIInv /\ [PortsNext]_portsVars => PortsIInv'
  BY PortsStepInv
<1> QED
  BY <1>1, <1>2, PTL DEF PortsSpec

(* Every state is well-typed, with resets, errors and deaths or without: no     *)
(* search runs past Last + 1.                                                   *)
THEOREM PortsTypeCorrect == PortsSpec => []PortsTypeOK
<1>1. PortsIInv => PortsTypeOK
  BY DEF PortsIInv
<1> QED
  BY <1>1, PortsInvariance, PTL

(* Unless the counter is reset, it is past every port given out or in use, but  *)
(* for the ports returned after an error.                                       *)
THEOREM CounterIsPast == PortsSpec => []CounterPastGiven
<1>1. PortsIInv => CounterPastGiven
  BY DEF PortsIInv
<1> QED
  BY <1>1, PortsInvariance, PTL

(* Unless the counter is reset, no two processes hold the same port and none of *)
(* them is bound to a port given out, but for a port that was ever returned     *)
(* after an error: the exact extent to which the allocation is process-safe.    *)
THEOREM ProcessSafe == PortsSpec => []GivenPortsDistinct
<1>1. PortsIInv => GivenPortsDistinct
  BY DEF PortsIInv
<1> QED
  BY <1>1, PortsInvariance, PTL

(* AllocateTestServerPort gives up with 0, and no exception in the log, only    *)
(* when every port from the counter on is in use, unless the counter is reset.  *)
THEOREM ZeroIsExhaustion == PortsSpec => ZeroMeansExhausted
<1>1. PortsIInv /\ [PortsNext]_portsVars
      => [\A p \in Procs: given[p] = None /\ given'[p] = 0 =>
            logged'[p] \/ reset
            \/ (file \in Counter /\ Ports \cap (file..Last) \subseteq tried[p])]_portsVars
  BY StepExhausted
<1> QED
  BY <1>1, PortsInvariance, PTL DEF PortsSpec, ZeroMeansExhausted
================================================================================
