---------------------------- MODULE TracingController ----------------------------
(* One systrace session: SystraceRunner drives a TracingController, which       *)
(* starts, clock-syncs, stops and collects its agents one after the other.      *)
(* Every agent call runs on a thread of its own under py_utils.Timeout, that is *)
(* timeout_retry.Run with no retries (RetriedCall with Retries = 0): it returns *)
(* True or False, raises, or is given up after the timeout and returns False    *)
(* while its thread goes on.  atrace's stop only starts a collection thread,    *)
(* which stops the trace on the device and fetches the data.                    *)
EXTENDS Naturals, FiniteSets

CONSTANTS
    N,              \* child agents 1..N, in the order of agents_with_config
    Collectors,     \* agents that stop in a collection thread (atrace)
    SyncAgents,     \* agents with SupportsExplicitClockSync()
    Timed,          \* --timeout and --collection-timeout were given (else None)
    WriteJson       \* --json

ASSUME NAssumption == N \in Nat
ASSUME KindsAssumption == Collectors \subseteq 1..N /\ SyncAgents \subseteq 1..N
ASSUME OptionsAssumption == Timed \in BOOLEAN /\ WriteJson \in BOOLEAN

Agents     == 1..N
Controller == N + 1         \* the TracingControllerAgent, last in every order
Everyone   == 1..(N + 1)
Ops        == {"start", "stop", "results"}
Calls      == Ops \X Everyone
NoCall     == <<"none", 0>>
Unset      == {0}           \* the None of _child_agents

VARIABLES
    pc,             \* where the main thread is
    call,           \* the agent call it waits for, or NoCall
    todo,           \* agents left in the current loop
    succ,           \* succ_agents
    children,       \* _child_agents
    inProgress,     \* _trace_in_progress
    thread,         \* per call: its ReraiserThread
    verdict,        \* per call: what it came to for the controller (history)
    tracing,        \* agents whose target is tracing; Controller: its log is enabled
    collection,     \* per collector: its _collection_thread
    marked,         \* agents in whose trace the clock sync marker is, both sides (history)
    unmarked,       \* agents whose echo of the marker failed unnoticed (history)
    results,        \* results collected: an agent and whether there are data in it
    published       \* all_results was set

vars == <<pc, call, todo, succ, children, inProgress, thread, verdict, tracing,
          collection, marked, unmarked, results, published>>

Over == {"ended", "aborted"}
Returns == {"true", "false", "error"}   \* what an agent's method may do; "error" is to raise
Falsy   == {"false", "timeout"}         \* the Timeout decorator turns a timeout into False

TypeOK ==
    /\ pc \in {"idle", "start controller", "start", "tracing", "sync", "stop",
               "stop controller", "collect", "output"} \cup Over
    /\ call \in Calls \cup {NoCall}
    /\ todo \subseteq Everyone
    /\ succ \subseteq Agents
    /\ children \subseteq Agents \/ children = Unset
    /\ inProgress \in BOOLEAN
    /\ thread \in [Calls -> {"none", "alive"} \cup Returns]
    /\ verdict \in [Calls -> {"none", "timeout"} \cup Returns]
    /\ tracing \subseteq Everyone
    /\ collection \in [Agents -> {"none", "alive", "data", "dead"}]
    /\ marked \subseteq Agents
    /\ unmarked \subseteq Agents
    /\ results \subseteq Everyone \X BOOLEAN
    /\ published \in BOOLEAN

Init ==
    /\ pc = "idle"
    /\ call = NoCall
    /\ todo = {}
    /\ succ = {}
    /\ children = Unset
    /\ inProgress = FALSE
    /\ thread = [c \in Calls |-> "none"]
    /\ verdict = [c \in Calls |-> "none"]
    /\ tracing = {}
    /\ collection = [a \in Agents |-> "none"]
    /\ marked = {}
    /\ unmarked = {}
    /\ results = {}
    /\ published = FALSE

First(S) == CHOOSE a \in S: \A b \in S: a <= b

--------------------------------------------------------------------------------
(* Agent calls, as the main thread sees them.                                   *)

Begin(op, a) ==
    /\ call = NoCall
    /\ call' = <<op, a>>
    /\ thread' = [thread EXCEPT ![<<op, a>>] = "alive"]
    /\ UNCHANGED <<verdict, tracing, collection>>

(* Mutant of End: the call has no timeout. *)
EndUntimed(v) ==
    /\ call # NoCall
    /\ v \in Returns /\ thread[call] = v
    /\ verdict' = [verdict EXCEPT ![call] = v]
    /\ call' = NoCall
    /\ UNCHANGED <<thread, tracing, collection>>

(* The call ends with what its thread ended with, or is given up: TimeoutDeco   *)
(* returns False.  The watchdog may also beat a thread that has just ended.     *)
End(v) ==
    /\ call # NoCall
    /\ \/ v \in Returns /\ thread[call] = v
       \/ v = "timeout" /\ Timed
    /\ verdict' = [verdict EXCEPT ![call] = v]
    /\ call' = NoCall
    /\ UNCHANGED <<thread, tracing, collection>>

Abort ==
    /\ pc' = "aborted"
    /\ UNCHANGED <<todo, succ, children, inProgress, marked, unmarked, results, published>>

--------------------------------------------------------------------------------
(* TracingController.StartTracing                                               *)

StartTracing ==
    /\ pc = "idle"
    /\ ~inProgress
    /\ inProgress' = TRUE
    /\ Begin("start", Controller)
    /\ pc' = "start controller"
    /\ UNCHANGED <<todo, succ, children, marked, unmarked, results, published>>

(* A controller agent that did not start makes StartTracing return False; the   *)
(* runner does not look and goes on as if it were tracing.                      *)
ControllerStarted ==
    /\ pc = "start controller"
    /\ \/ /\ End("true")
          /\ pc' = "start"
          /\ todo' = Agents
          /\ UNCHANGED <<succ, children, inProgress, marked, unmarked, results, published>>
       \/ /\ \E v \in Falsy: End(v)
          /\ pc' = "tracing"
          /\ UNCHANGED <<todo, succ, children, inProgress, marked, unmarked, results, published>>
       \/ End("error") /\ Abort

StartChild ==
    /\ pc = "start" /\ todo # {}
    /\ Begin("start", First(todo))
    /\ UNCHANGED <<pc, todo, succ, children, inProgress, marked, unmarked, results, published>>

(* Mutant of ChildStarted: what the start of an agent returns is not looked at. *)
ChildStartedAnyway ==
    /\ pc = "start"
    /\ \/ \E v \in {"true"} \cup Falsy:
            /\ End(v)
            /\ succ' = succ \cup {call[2]}
            /\ todo' = todo \ {call[2]}
            /\ UNCHANGED <<pc, children, inProgress, marked, unmarked, results, published>>
       \/ End("error") /\ Abort

ChildStarted ==
    /\ pc = "start"
    /\ \/ \E v \in {"true"} \cup Falsy:
            /\ End(v)
            /\ succ' = IF v = "true" THEN succ \cup {call[2]} ELSE succ
            /\ todo' = todo \ {call[2]}
            /\ UNCHANGED <<pc, children, inProgress, marked, unmarked, results, published>>
       \/ End("error") /\ Abort

AllStarted ==
    /\ pc = "start" /\ todo = {} /\ call = NoCall
    /\ children' = succ
    /\ pc' = "tracing"
    /\ UNCHANGED <<call, todo, succ, inProgress, thread, verdict, tracing,
                   collection, marked, unmarked, results, published>>

--------------------------------------------------------------------------------
(* TracingController.StopTracing                                                *)

(* Mutant of StopTracing: the clock sync markers are not issued. *)
StopTracingUnsynced ==
    /\ pc = "tracing"
    /\ inProgress
    /\ inProgress' = FALSE
    /\ IF children = Unset
       THEN pc' = "aborted" /\ UNCHANGED todo
       ELSE pc' = "sync" /\ todo' = {}
    /\ UNCHANGED <<call, succ, children, thread, verdict, tracing, collection,
                   marked, unmarked, results, published>>

(* The trace time is over.  Without child agents _IssueClockSyncMarker iterates *)
(* over None.                                                                   *)
StopTracing ==
    /\ pc = "tracing"
    /\ inProgress
    /\ inProgress' = FALSE
    /\ IF children = Unset
       THEN pc' = "aborted" /\ UNCHANGED todo
       ELSE pc' = "sync" /\ todo' = children \cap SyncAgents
    /\ UNCHANGED <<call, succ, children, thread, verdict, tracing, collection,
                   marked, unmarked, results, published>>

(* RecordClockSyncMarker writes to the target and calls back into the           *)
(* controller's log.  It runs on the main thread, under no timeout.  atrace's   *)
(* echo to trace_marker may fail without anybody looking at its exit status.    *)
IssueClockSyncMarker ==
    /\ pc = "sync" /\ todo # {}
    /\ \/ LET a == First(todo) IN
          /\ todo' = todo \ {a}
          /\ \/ /\ marked' = IF {a, Controller} \subseteq tracing THEN marked \cup {a} ELSE marked
                /\ UNCHANGED unmarked
             \/ /\ a \in Collectors
                /\ unmarked' = unmarked \cup {a}
                /\ UNCHANGED marked
          /\ UNCHANGED <<pc, succ, children, inProgress, results, published>>
       \/ Abort
    /\ UNCHANGED <<call, thread, verdict, tracing, collection>>

(* Mutant of AllMarked: the first agent is not stopped. *)
AllMarkedSkipsFirst ==
    /\ pc = "sync" /\ todo = {}
    /\ pc' = "stop"
    /\ todo' = IF children = {} THEN {} ELSE children \ {First(children)}
    /\ succ' = {}
    /\ UNCHANGED <<call, children, inProgress, thread, verdict, tracing, collection,
                   marked, unmarked, results, published>>

AllMarked ==
    /\ pc = "sync" /\ todo = {}
    /\ pc' = "stop"
    /\ todo' = children
    /\ succ' = {}
    /\ UNCHANGED <<call, children, inProgress, thread, verdict, tracing, collection,
                   marked, unmarked, results, published>>

StopChild ==
    /\ pc = "stop" /\ todo # {}
    /\ Begin("stop", First(todo))
    /\ UNCHANGED <<pc, todo, succ, children, inProgress, marked, unmarked, results, published>>

ChildStopped ==
    /\ pc = "stop"
    /\ \/ \E v \in {"true"} \cup Falsy:
            /\ End(v)
            /\ succ' = IF v = "true" THEN succ \cup {call[2]} ELSE succ
            /\ todo' = todo \ {call[2]}
            /\ UNCHANGED <<pc, children, inProgress, marked, unmarked, results, published>>
       \/ End("error") /\ Abort

StopController ==
    /\ pc = "stop" /\ todo = {}
    /\ Begin("stop", Controller)
    /\ pc' = "stop controller"
    /\ UNCHANGED <<todo, succ, children, inProgress, marked, unmarked, results, published>>

(* Mutant of ControllerStopped: the controller agent's own results are left out. *)
ControllerStoppedUncollected ==
    /\ pc = "stop controller"
    /\ \/ /\ End("true")
          /\ children' = succ
          /\ todo' = succ
          /\ pc' = "collect"
          /\ UNCHANGED <<succ, inProgress, marked, unmarked, results, published>>
       \/ /\ \E v \in Falsy: End(v)
          /\ pc' = "output"
          /\ UNCHANGED <<todo, succ, children, inProgress, marked, unmarked, results, published>>
       \/ End("error") /\ Abort

(* StopTracing returns False when the controller agent did not stop, and the    *)
(* runner goes on to write results that were never set.                         *)
ControllerStopped ==
    /\ pc = "stop controller"
    /\ \/ /\ End("true")
          /\ children' = succ
          /\ todo' = succ \cup {Controller}
          /\ pc' = "collect"
          /\ UNCHANGED <<succ, inProgress, marked, unmarked, results, published>>
       \/ /\ \E v \in Falsy: End(v)
          /\ pc' = "output"
          /\ UNCHANGED <<todo, succ, children, inProgress, marked, unmarked, results, published>>
       \/ End("error") /\ Abort

Collect ==
    /\ pc = "collect" /\ todo # {}
    /\ Begin("results", First(todo))
    /\ UNCHANGED <<pc, todo, succ, children, inProgress, marked, unmarked, results, published>>

Collected ==
    /\ pc = "collect"
    /\ \/ LET a == call[2]
              data == a \notin Collectors \/ collection[a] = "data" IN
          \E v \in {"true"} \cup Falsy:
            /\ End(v)
            /\ results' = IF v = "true" THEN results \cup {<<a, data>>} ELSE results
            /\ todo' = todo \ {a}
            /\ UNCHANGED <<pc, succ, children, inProgress, marked, unmarked, published>>
       \/ End("error") /\ Abort

AllCollected ==
    /\ pc = "collect" /\ todo = {} /\ call = NoCall
    /\ published' = TRUE
    /\ pc' = "output"
    /\ UNCHANGED <<call, todo, succ, children, inProgress, thread, verdict, tracing,
                   collection, marked, unmarked, results>>

(* SystraceRunner.OutputSystraceResults; None is no list of results, and a      *)
(* result without data is no string for the HTML file (_ConvertToHtmlString),   *)
(* but a null for the JSON file.                                                *)
OutputSystraceResults ==
    /\ pc = "output"
    /\ pc' = IF published /\ (WriteJson \/ \A r \in results: r[2]) THEN "ended" ELSE "aborted"
    /\ UNCHANGED <<call, todo, succ, children, inProgress, thread, verdict, tracing,
                   collection, marked, unmarked, results, published>>

Marking == IssueClockSyncMarker
Main ==
    \/ StartTracing \/ ControllerStarted \/ StartChild \/ ChildStarted \/ AllStarted
    \/ StopTracing \/ AllMarked \/ StopChild \/ ChildStopped \/ StopController
    \/ ControllerStopped \/ Collect \/ Collected \/ AllCollected \/ OutputSystraceResults

--------------------------------------------------------------------------------
(* The threads.  All are daemons (the collection thread by inheritance): none   *)
(* survives the process.                                                        *)

mainVars == <<pc, call, todo, succ, children, inProgress, verdict, marked, unmarked, results,
              published>>

(* The body of an agent call ends in one of the given ways.                     *)
Body(op, a, ends) ==
    /\ pc \notin Over
    /\ thread[<<op, a>>] = "alive"
    /\ \E end \in ends: thread' = [thread EXCEPT ![<<op, a>>] = end]
    /\ UNCHANGED mainVars

(* How a start or stop that did not do its work may end.  Some agents return    *)
(* False: of their start without root, of their stop when the data cannot be    *)
(* pulled.  atrace and the controller's agent never do.                         *)
Failed(a) == IF a \in Collectors \cup {Controller} THEN {"error"} ELSE {"error", "false"}

StartBody(a) ==
    /\ \/ Body("start", a, {"true"} \cup Failed(a)) /\ tracing' = tracing \cup {a}
       \/ Body("start", a, Failed(a)) /\ UNCHANGED tracing
    /\ UNCHANGED collection

StopBody(a) ==
    \/ /\ a \in Collectors
       /\ Body("stop", a, {"true"})
       /\ collection' = [collection EXCEPT ![a] = "alive"]
       /\ UNCHANGED tracing
    \/ /\ a \notin Collectors
       /\ \/ Body("stop", a, {"true"} \cup Failed(a)) /\ tracing' = tracing \ {a}
          \/ Body("stop", a, Failed(a)) /\ UNCHANGED tracing
       /\ UNCHANGED collection

(* GetResults; a collector joins its collection thread first. *)
ResultsBody(a) ==
    /\ \/ a \in Collectors /\ collection[a] \in {"data", "dead"} /\ Body("results", a, {"true"})
       \/ a \notin Collectors /\ Body("results", a, {"true", "error"})
    /\ UNCHANGED <<tracing, collection>>

(* The collection thread stops the trace and stores the data, or dies of an     *)
(* exception nobody sees, before or after the trace was stopped.                *)
Collection(a) ==
    /\ pc \notin Over
    /\ a \in Collectors /\ collection[a] = "alive"
    /\ \/ /\ collection' = [collection EXCEPT ![a] = "data"]
          /\ tracing' = tracing \ {a}
       \/ /\ collection' = [collection EXCEPT ![a] = "dead"]
          /\ tracing' \in {tracing, tracing \ {a}}
    /\ UNCHANGED <<mainVars, thread>>

Next ==
    \/ Main \/ Marking
    \/ \E a \in Everyone: StartBody(a) \/ StopBody(a) \/ ResultsBody(a)
    \/ \E a \in Agents: Collection(a)

(* The main thread runs, its timeouts expire, and a marker does not hang; agent *)
(* calls may.                                                                   *)
Spec == Init /\ [][Next]_vars /\ WF_vars(Main) /\ WF_vars(Marking)

--------------------------------------------------------------------------------
(* An agent is never stopped, nor its results asked for, while the call before  *)
(* that is still at work in an abandoned thread.                                *)
PhasesInOrder ==
    \A a \in Everyone:
        /\ thread[<<"stop", a>>] # "none" => thread[<<"start", a>>] = "true"
        /\ thread[<<"results", a>>] # "none" => thread[<<"stop", a>>] = "true"

(* Every collected trace of an agent with clock sync holds the marker, written  *)
(* while its target and the controller's log were both tracing, unless the echo *)
(* that writes it on the device failed, which the agent does not look at.       *)
TracesAreSynced ==
    \A r \in results: r[1] \in SyncAgents => r[1] \in marked \cup unmarked

(* A session that ends well has the results of every agent whose calls neither  *)
(* timed out nor returned False, and of no agent that did not start and stop.   *)
NothingSilentlyLost ==
    pc = "ended" =>
        \A a \in Everyone:
            /\ <<a, TRUE>> \in results \/ \E op \in Ops: verdict[<<op, a>>] \in Falsy
            /\ <<a, TRUE>> \in results =>
                \A op \in Ops: verdict[<<op, a>>] = "true"

(* After a session that ended well, a target is left tracing only if one of its *)
(* agent's calls timed out or returned False.                                   *)
OrphansOnlyFromRefusals ==
    pc = "ended" =>
        \A a \in tracing: \E op \in Ops: verdict[<<op, a>>] \in Falsy

(* With timeouts every session comes to an end, whichever agents hang.          *)
SessionEnds == <>(pc \in Over)
================================================================================
