------------------------------ MODULE ThreadGroups ------------------------------
(* devil.utils.reraiser_thread and its users: which thread belongs to which     *)
(* ReraiserThreadGroup, which thread is blocked joining which group, and the    *)
(* blocked_parent_thread_group links through which a thread finds the timeout   *)
(* that already covers it.  Three kinds of callers create groups: timeout_retry *)
(* (one TimeoutRetryThreadGroup per try), RunAsync, and Parallelizer.pMap.      *)
EXTENDS Naturals, FiniteSets

CONSTANTS
    Threads,        \* ReraiserThread objects, each started at most once
    Main,           \* the main thread, in no group
    MaxGroups       \* bound on the groups created

ASSUME MaxGroupsAssumption == MaxGroups \in Nat
ASSUME MainAssumption == Main \notin Threads

Groups == 1..MaxGroups
NoGroup == 0

VARIABLES
    groups,         \* number of groups created; group ids are in creation order
    kind,           \* per group: "timeout" (TimeoutRetryThreadGroup), "async" or "map"
    creator,        \* per group: the thread that created it
    link,           \* per group: blocked_parent_thread_group
    owner,          \* per thread: _thread_group
    state,          \* per thread: "new", "running", "over"
    joining         \* per thread: the group whose JoinAll it is blocked in

groupsVars == <<groups, kind, creator, link, owner, state, joining>>

All == Threads \cup {Main}

GroupsTypeOK ==
    /\ groups \in 0..MaxGroups
    /\ kind \in [Groups -> {"none", "timeout", "async", "map"}]
    /\ creator \in [Groups -> All]
    /\ link \in [Groups -> Groups \cup {NoGroup}]
    /\ owner \in [All -> Groups \cup {NoGroup}]
    /\ state \in [All -> {"new", "running", "over"}]
    /\ joining \in [All -> Groups \cup {NoGroup}]

GroupsInit ==
    /\ groups = 0
    /\ kind = [g \in Groups |-> "none"]
    /\ creator = [g \in Groups |-> Main]
    /\ link = [g \in Groups |-> NoGroup]
    /\ owner = [t \in All |-> NoGroup]
    /\ state = [t \in All |-> IF t = Main THEN "running" ELSE "new"]
    /\ joining = [t \in All |-> NoGroup]

Members(g) == {t \in Threads: owner[t] = g}
Alive(g) == {t \in Members(g): state[t] = "running"}

(* The while loop of CurrentTimeoutThreadGroup, from group g on. *)
TimeoutGroupFrom[g \in Groups \cup {NoGroup}] ==
    IF g = NoGroup \/ kind[g] = "timeout" THEN g ELSE TimeoutGroupFrom[link[g]]

CurrentTimeoutThreadGroup(t) == TimeoutGroupFrom[owner[t]]

--------------------------------------------------------------------------------
(* A thread acts only while its function runs and it is not in a join. *)
Free(t) == state[t] = "running" /\ joining[t] = NoGroup

(* Mutant of StartAll: the link is the new group. *)
StartAllLinksSelf(t, members, k, willBlock) ==
    LET g == groups + 1 IN
    /\ Free(t)
    /\ groups < MaxGroups
    /\ \A m \in members: state[m] = "new" /\ owner[m] = NoGroup
    /\ groups' = g
    /\ kind' = [kind EXCEPT ![g] = k]
    /\ creator' = [creator EXCEPT ![g] = t]
    /\ owner' = [m \in All |-> IF m \in members THEN g ELSE owner[m]]
    /\ state' = [m \in All |-> IF m \in members THEN "running" ELSE state[m]]
    /\ link' = [link EXCEPT ![g] = IF willBlock THEN g ELSE NoGroup]

(* ReraiserThreadGroup(threads) and StartAll(will_block). *)
StartAll(t, members, k, willBlock) ==
    LET g == groups + 1 IN
    /\ Free(t)
    /\ groups < MaxGroups
    /\ \A m \in members: state[m] = "new" /\ owner[m] = NoGroup
    /\ groups' = g
    /\ kind' = [kind EXCEPT ![g] = k]
    /\ creator' = [creator EXCEPT ![g] = t]
    /\ owner' = [m \in All |-> IF m \in members THEN g ELSE owner[m]]
    /\ state' = [m \in All |-> IF m \in members THEN "running" ELSE state[m]]
    /\ link' = [link EXCEPT ![g] = IF willBlock THEN owner[t] ELSE NoGroup]

(* A decorated function: one try of timeout_retry.Run, unless a timeout already *)
(* covers the calling thread, in which case the function runs inline.           *)
RunWithTimeout(t, m) ==
    /\ CurrentTimeoutThreadGroup(t) = NoGroup
    /\ StartAll(t, {m}, "timeout", TRUE)
    /\ joining' = [joining EXCEPT ![t] = groups + 1]

(* Mutant of RunAsync: StartAll() without will_block. *)
RunAsyncUnlinked(t, members) ==
    /\ StartAll(t, members, "async", FALSE)
    /\ joining' = [joining EXCEPT ![t] = groups + 1]

RunAsync(t, members) ==
    /\ StartAll(t, members, "async", TRUE)
    /\ joining' = [joining EXCEPT ![t] = groups + 1]

(* Asynchronous: the caller goes on. *)
PMap(t, members) ==
    /\ StartAll(t, members, "map", FALSE)
    /\ UNCHANGED joining

(* JoinAll on the group of an earlier pMap. *)
PFinish(t, g) ==
    /\ Free(t)
    /\ g \in 1..groups /\ creator[g] = t /\ kind[g] = "map"
    /\ Alive(g) # {}
    /\ joining' = [joining EXCEPT ![t] = g]
    /\ UNCHANGED <<groups, kind, creator, link, owner, state>>

(* The 60 s JoinAll of Run returns with the thread alive; its finally clears    *)
(* the link, and the next JoinAll of the loop does not set it again.            *)
JoinPeriodEnds(t) ==
    LET g == joining[t] IN
    /\ g # NoGroup /\ kind[g] = "timeout"
    /\ Alive(g) # {}
    /\ link' = [link EXCEPT ![g] = NoGroup]
    /\ UNCHANGED <<groups, kind, creator, owner, state, joining>>

(* JoinAll returns or raises: every thread is over, or the watchdog expired     *)
(* (only the groups of Run have one) and the threads are left running.  RunAsync *)
(* skips JoinAll, and the clearing of the link, when its threads are over before *)
(* it looks.                                                                    *)
JoinAllEnds(t) ==
    LET g == joining[t] IN
    /\ g # NoGroup
    /\ Alive(g) = {} \/ kind[g] = "timeout"
    /\ \/ link' = [link EXCEPT ![g] = NoGroup]
       \/ kind[g] = "async" /\ Alive(g) = {} /\ UNCHANGED link
    /\ joining' = [joining EXCEPT ![t] = NoGroup]
    /\ UNCHANGED <<groups, kind, creator, owner, state>>

(* The function of thread t returns or raises. *)
FunctionEnds(t) ==
    /\ t \in Threads /\ Free(t)
    /\ state' = [state EXCEPT ![t] = "over"]
    /\ UNCHANGED <<groups, kind, creator, link, owner, joining>>

GroupsNext ==
    \E t \in All:
        \/ \E m \in Threads: RunWithTimeout(t, m)
        \/ \E members \in (SUBSET Threads) \ {{}}: RunAsync(t, members) \/ PMap(t, members)
        \/ \E g \in Groups: PFinish(t, g)
        \/ JoinPeriodEnds(t)
        \/ JoinAllEnds(t)
        \/ FunctionEnds(t)

GroupsSpec == GroupsInit /\ [][GroupsNext]_groupsVars

--------------------------------------------------------------------------------
(* CurrentTimeoutThreadGroup terminates: its links lead to older groups only.   *)
LinksDescend == \A g \in Groups: link[g] < g

(* A thread of this group runs under an outer timeout: from the group on, each  *)
(* creator waits for his group and is himself in the next one, up to a timeout  *)
(* group; a group of pMap hides what is around it.                              *)
Covered(group) ==
    \E around \in SUBSET Groups:
        /\ group \in around
        /\ \A g \in around:
            /\ joining[creator[g]] = g
            /\ kind[g] # "map"
            /\ kind[g] = "timeout" \/ owner[creator[g]] \in around

(* "Don't wrap if there's already an outer timeout thread": no thread waits in  *)
(* a timeout group of its own while its callers wait for it under one, unless   *)
(* it was started by pMap.  So an outer timeout never races an inner one, and   *)
(* retries do not multiply.                                                     *)
NoNestedTimeouts ==
    \A t \in All:
        joining[t] # NoGroup /\ kind[joining[t]] = "timeout" => ~Covered(owner[t])
================================================================================
