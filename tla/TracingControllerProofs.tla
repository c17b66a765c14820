------------------------- MODULE TracingControllerProofs -------------------------
(* What TracingController.tla says of one session, for any number of agents, of *)
(* either kind, with and without timeouts.                                      *)
EXTENDS TracingController, WellFoundedInduction, TLAPS

(* The ways a call may end are small sets that every proof needs to see.        *)
USE DEF Returns, Falsy

Started(a)   == verdict[<<"start", a>>] = "true"
Stopped(a)   == verdict[<<"stop", a>>] = "true"
Refused(a)   == \E op \in Ops: verdict[<<op, a>>] \in Falsy
Delivered(a) == \E data \in BOOLEAN: <<a, data>> \in results
Fresh(op, a) == verdict[<<op, a>>] = "none"

(* A call is waited for, or has a verdict, or was never made; what came to True *)
(* for the controller did so in its thread.                                     *)
CallInv ==
    /\ call # NoCall => verdict[call] = "none"
    /\ \A c \in Calls:
        /\ verdict[c] = "true" => thread[c] = "true"
        /\ thread[c] # "none" => c = call \/ verdict[c] # "none"

(* Which call the main thread can be in, by the phase it is in. *)
PhaseInv ==
    /\ pc \in {"idle", "tracing", "sync", "output"} \cup Over => call = NoCall
    /\ pc = "start controller" => call = <<"start", Controller>>
    /\ pc = "stop controller" => call = <<"stop", Controller>>
    /\ call # NoCall =>
        /\ pc = "start" => call \in {"start"} \X todo
        /\ pc = "stop" => call \in {"stop"} \X todo
        /\ pc = "collect" => call \in {"results"} \X todo

StartInv ==
    /\ pc \in {"idle", "start controller", "start"} => children = Unset
    /\ pc \in {"sync", "stop", "stop controller", "collect"} => children # Unset
    /\ pc \in {"idle", "start controller"} => succ = {}
    /\ pc = "idle" => \A a \in Everyone: Fresh("start", a)
    /\ pc = "start controller" => \A a \in Agents: Fresh("start", a)
    /\ pc = "start" =>
        /\ Started(Controller)
        /\ todo \subseteq Agents
        /\ \A a \in todo: Fresh("start", a)
        /\ \A a \in succ: Started(a)
        /\ \A a \in Agents: a \in todo \/ a \in succ \/ Refused(a)
    /\ children # Unset => \A a \in children \cup {Controller}: Started(a)
    /\ pc \in {"tracing", "sync"} /\ children # Unset =>
        \A a \in Agents: a \in children \/ Refused(a)

StopInv ==
    /\ pc \in {"idle", "start controller", "start", "tracing", "sync"} =>
        \A a \in Everyone: Fresh("stop", a)
    /\ pc = "stop" =>
        /\ todo \subseteq children
        /\ \A a \in todo \cup {Controller}: Fresh("stop", a)
        /\ \A a \in Agents: a \in todo \/ a \in succ \/ Refused(a)
    /\ pc \in {"stop", "stop controller"} =>
        /\ succ \subseteq children
        /\ \A a \in succ: Stopped(a)
    /\ pc = "stop controller" => \A a \in Agents: a \in succ \/ Refused(a)

CollectInv ==
    /\ pc \notin {"collect", "output"} \cup Over => \A a \in Everyone: Fresh("results", a)
    /\ pc = "collect" =>
        /\ todo \subseteq children \cup {Controller}
        /\ \A a \in children \cup {Controller}: Stopped(a)
        /\ \A a \in todo: Fresh("results", a)
        /\ \A a \in Everyone: a \in todo \/ Delivered(a) \/ Refused(a)

(* What stands once a result was taken, and once all of them were.              *)
ResultsInv ==
    /\ \A r \in results: \A op \in Ops: verdict[<<op, r[1]>>] = "true"
    /\ published =>
        /\ pc \in {"output"} \cup Over
        /\ \A a \in Everyone: Delivered(a) \/ Refused(a)
    /\ pc = "ended" => published /\ (WriteJson \/ \A r \in results: r[2])

SyncInv ==
    /\ pc = "sync" =>
        /\ todo \subseteq children \cap SyncAgents
        /\ (children \cap SyncAgents) \ todo \subseteq marked \cup unmarked
    /\ pc \in {"stop", "stop controller", "collect"} =>
        children \cap SyncAgents \subseteq marked \cup unmarked

(* A target traces from its start to its stop; a collector's till the data are  *)
(* there.                                                                       *)
TracingInv ==
    /\ \A a \in Everyone:
        /\ thread[<<"start", a>>] = "true" /\ thread[<<"stop", a>>] = "none" => a \in tracing
        /\ thread[<<"stop", a>>] = "true" /\ a \in tracing => a \in Collectors
    /\ \A a \in Agents:
        /\ collection[a] # "none" => a \in Collectors /\ thread[<<"stop", a>>] = "true"
        /\ collection[a] = "data" => a \notin tracing

DataInv == \A r \in results: r[2] /\ r[1] \in Collectors => collection[r[1]] = "data"

IInv ==
    /\ TypeOK /\ CallInv /\ PhaseInv /\ StartInv /\ StopInv /\ CollectInv /\ ResultsInv
    /\ SyncInv /\ PhasesInOrder /\ TracingInv /\ DataInv /\ TracesAreSynced

--------------------------------------------------------------------------------
(* A loop of the main thread takes an agent of its list.                        *)
LEMMA FirstIn ==
    ASSUME NEW S, S \subseteq Nat, S # {}
    PROVE  First(S) \in S
<1>1. PICK x \in S: \A y \in S: ~(<<y, x>> \in OpToRel(<, Nat))
    BY NatLessThanWellFounded, WFMin
<1>2. ASSUME NEW y \in S PROVE x <= y
  <2>1. x \in Nat /\ y \in Nat
      OBVIOUS
  <2>2. ~(y < x)
      BY <1>1, <2>1 DEF OpToRel
  <2> QED
      BY <2>1, <2>2
<1> QED
    BY <1>2 DEF First

(* The controller's agent is none of the child agents, and None is no list.     *)
LEMMA Kinds ==
    /\ Agents \subseteq Everyone /\ Everyone \subseteq Nat
    /\ Controller \in Everyone /\ Controller \notin Agents
    /\ Collectors \subseteq Agents /\ SyncAgents \subseteq Agents
    /\ 0 \notin Everyone /\ ~(Unset \subseteq Everyone)
    /\ NoCall \notin Calls
BY NAssumption, KindsAssumption DEF Agents, Everyone, Controller, Unset, NoCall, Calls, Ops

(* The parts of IInv that the threads can disturb, and those of the main thread. *)
ThreadInv == CallInv /\ PhasesInOrder /\ TracingInv
MainInv   ==
    /\ PhaseInv /\ StartInv /\ StopInv /\ CollectInv /\ ResultsInv /\ SyncInv
    /\ TracesAreSynced

LEMMA Parts == IInv <=> TypeOK /\ ThreadInv /\ MainInv /\ DataInv
BY DEF IInv, ThreadInv, MainInv

LEMMA InitInv == Init => IInv
<1> SUFFICES ASSUME Init PROVE IInv
    OBVIOUS
<1>1. TypeOK
    BY DEF Init, TypeOK
<1>2. CallInv /\ PhasesInOrder /\ TracingInv
    BY Kinds DEF Init, CallInv, PhasesInOrder, TracingInv, Calls, Ops
<1>3. PhaseInv /\ StartInv
    BY DEF Init, PhaseInv, StartInv, Over, Fresh, Calls, Ops
<1>4. StopInv /\ CollectInv
    BY DEF Init, StopInv, CollectInv, Over, Fresh, Calls, Ops
<1>5. ResultsInv /\ SyncInv /\ DataInv /\ TracesAreSynced
    BY DEF Init, ResultsInv, SyncInv, DataInv, TracesAreSynced
<1> QED
    BY <1>1, <1>2, <1>3, <1>4, <1>5 DEF IInv

(* A call is begun once, after the calls of the agent that it builds on.        *)
LEMMA BeginKeeps ==
    ASSUME TypeOK, ThreadInv, NEW op \in Ops, NEW a \in Everyone, Begin(op, a),
           Fresh(op, a),
           op = "start" => Fresh("stop", a),
           op = "stop" => Started(a) /\ Fresh("results", a),
           op = "results" => Stopped(a)
    PROVE  /\ ThreadInv'
           /\ call' \in Calls \cup {NoCall}
           /\ thread' \in [Calls -> {"none", "alive"} \cup Returns]
<1>1. /\ call = NoCall /\ call' = <<op, a>> /\ verdict' = verdict /\ tracing' = tracing
      /\ collection' = collection
      /\ thread' = [thread EXCEPT ![<<op, a>>] = "alive"]
    BY DEF Begin
<1>2. <<op, a>> \in Calls /\ \A o \in Ops, b \in Everyone: <<o, b>> \in Calls
    BY DEF Calls
<1>3. /\ thread' \in [Calls -> {"none", "alive"} \cup Returns]
      /\ thread'[<<op, a>>] = "alive"
      /\ \A c \in Calls: c # <<op, a>> => thread'[c] = thread[c]
    BY <1>1, <1>2 DEF TypeOK
<1>4. \A c \in Calls: verdict[c] = "none" => thread[c] = "none"
    BY <1>1, Kinds DEF ThreadInv, CallInv
<1>5. CallInv'
  <2>1. verdict[<<op, a>>] = "none"
      BY DEF Fresh
  <2>2. verdict'[call'] = "none"
      BY <1>1, <2>1
  <2>3. ASSUME NEW c \in Calls
        PROVE  /\ verdict'[c] = "true" => thread'[c] = "true"
               /\ thread'[c] # "none" => c = call' \/ verdict'[c] # "none"
    <3>1. CASE c = <<op, a>>
        BY <1>1, <2>1, <3>1
    <3>2. CASE c # <<op, a>>
        BY <1>1, <1>3, <3>2, Kinds DEF ThreadInv, CallInv
    <3> QED
        BY <3>1, <3>2
  <2> QED
      BY <2>2, <2>3 DEF CallInv
<1>6. PhasesInOrder'
  <2> SUFFICES ASSUME NEW b \in Everyone
               PROVE  /\ thread'[<<"stop", b>>] # "none" => thread'[<<"start", b>>] = "true"
                      /\ thread'[<<"results", b>>] # "none" => thread'[<<"stop", b>>] = "true"
      BY DEF PhasesInOrder
  <2>1. /\ thread[<<"stop", b>>] # "none" => thread[<<"start", b>>] = "true"
        /\ thread[<<"results", b>>] # "none" => thread[<<"stop", b>>] = "true"
      BY DEF ThreadInv, PhasesInOrder
  <2>2. <<"start", b>> \in Calls /\ <<"stop", b>> \in Calls /\ <<"results", b>> \in Calls
      BY <1>2 DEF Ops
  <2> QED
      BY <1>2, <1>3, <1>4, <2>1, <2>2 DEF Ops, ThreadInv, CallInv, Fresh, Started, Stopped
<1>7. TracingInv'
  <2>1. ASSUME NEW b \in Everyone
        PROVE  /\ thread'[<<"start", b>>] = "true" /\ thread'[<<"stop", b>>] = "none" => b \in tracing'
               /\ thread'[<<"stop", b>>] = "true" /\ b \in tracing' => b \in Collectors
      BY <1>1, <1>2, <1>3, <1>4 DEF Ops, ThreadInv, TracingInv, Fresh
  <2>2. ASSUME NEW b \in Agents
        PROVE  /\ collection'[b] # "none" => b \in Collectors /\ thread'[<<"stop", b>>] = "true"
               /\ collection'[b] = "data" => b \notin tracing'
      BY <1>1, <1>2, <1>3, <1>4, Kinds DEF Ops, ThreadInv, TracingInv, Fresh
  <2> QED
      BY <2>1, <2>2 DEF TracingInv
<1> QED
    BY <1>1, <1>2, <1>3, <1>5, <1>6, <1>7 DEF ThreadInv

(* A call ends for the main thread: it gets its one verdict, and no thread, no  *)
(* target and no collection changes.                                            *)
LEMMA EndKeeps ==
    ASSUME TypeOK, ThreadInv, NEW v \in {"timeout"} \cup Returns, End(v)
    PROVE  /\ ThreadInv'
           /\ call \in Calls /\ call' = NoCall
           /\ verdict' \in [Calls -> {"none", "timeout"} \cup Returns]
           /\ verdict[call] = "none" /\ verdict'[call] = v
           /\ \A c \in Calls: c # call => verdict'[c] = verdict[c]
           /\ UNCHANGED <<thread, tracing, collection>>
<1>1. /\ call \in Calls /\ call' = NoCall /\ verdict[call] = "none"
      /\ UNCHANGED <<thread, tracing, collection>>
      /\ v = "true" => thread[call] = "true"
    BY DEF End, TypeOK, ThreadInv, CallInv
<1>2. /\ verdict' \in [Calls -> {"none", "timeout"} \cup Returns]
      /\ verdict'[call] = v
      /\ \A c \in Calls: c # call => verdict'[c] = verdict[c]
    BY <1>1 DEF End, TypeOK
<1>3. CallInv'
  <2>1. ASSUME NEW c \in Calls
        PROVE  /\ verdict'[c] = "true" => thread'[c] = "true"
               /\ thread'[c] # "none" => verdict'[c] # "none"
      BY <1>1, <1>2 DEF ThreadInv, CallInv
  <2> QED
      BY <1>1, <2>1 DEF CallInv
<1>4. PhasesInOrder' /\ TracingInv'
    BY <1>1 DEF ThreadInv, PhasesInOrder, TracingInv
<1> QED
    BY <1>1, <1>2, <1>3, <1>4 DEF ThreadInv

(* The thread of a call ends: what the main thread knows stays true.            *)
LEMMA BodyKeeps ==
    ASSUME TypeOK, CallInv, PhasesInOrder, NEW op \in Ops, NEW a \in Everyone,
           Body(op, a, Returns)
    PROVE  /\ CallInv' /\ PhasesInOrder'
           /\ <<op, a>> \in Calls /\ thread[<<op, a>>] = "alive"
           /\ thread' \in [Calls -> {"none", "alive"} \cup Returns]
           /\ thread'[<<op, a>>] \in Returns
           /\ \A c \in Calls: c # <<op, a>> => thread'[c] = thread[c]
           /\ UNCHANGED mainVars
<1>1. PICK end \in Returns: thread' = [thread EXCEPT ![<<op, a>>] = end]
    BY DEF Body
<1>2. <<op, a>> \in Calls /\ thread[<<op, a>>] = "alive" /\ UNCHANGED mainVars
    BY DEF Body, Calls
<1>3. /\ thread' \in [Calls -> {"none", "alive"} \cup Returns]
      /\ thread'[<<op, a>>] \in Returns
      /\ \A c \in Calls: c # <<op, a>> => thread'[c] = thread[c]
    BY <1>1, <1>2 DEF TypeOK
<1>4. CallInv'
    BY <1>2, <1>3 DEF CallInv, mainVars
<1>5. ASSUME NEW b \in Everyone
      PROVE  /\ thread'[<<"stop", b>>] # "none" => thread'[<<"start", b>>] = "true"
             /\ thread'[<<"results", b>>] # "none" => thread'[<<"stop", b>>] = "true"
  <2>1. <<"start", b>> \in Calls /\ <<"stop", b>> \in Calls /\ <<"results", b>> \in Calls
      BY DEF Calls, Ops
  <2>2. \A c \in Calls: thread[c] = "true" => thread'[c] = "true"
      BY <1>2, <1>3
  <2>3. \A c \in Calls: thread'[c] # "none" => thread[c] # "none"
      BY <1>2, <1>3
  <2> QED
      BY <2>1, <2>2, <2>3 DEF PhasesInOrder
<1>6. PhasesInOrder'
    BY <1>5 DEF PhasesInOrder
<1> QED
    BY <1>2, <1>3, <1>4, <1>6

(* A target starts tracing in its start call, and stops in its stop call, or in *)
(* its collection thread.                                                       *)
LEMMA StartBodyKeeps ==
    ASSUME IInv, NEW a \in Everyone, StartBody(a)
    PROVE  TypeOK' /\ ThreadInv' /\ DataInv' /\ UNCHANGED mainVars
<1> USE DEF IInv
<1>1. /\ Body("start", a, Returns) /\ collection' = collection
      /\ tracing' \in {tracing, tracing \cup {a}}
      /\ thread'[<<"start", a>>] = "true" => tracing' = tracing \cup {a}
  <2>1. CASE Body("start", a, {"true"} \cup Failed(a)) /\ tracing' = tracing \cup {a}
      BY <2>1 DEF StartBody, Body, Failed
  <2>2. CASE Body("start", a, Failed(a)) /\ UNCHANGED tracing
    <3>1. Body("start", a, Returns)
        BY <2>2 DEF Body, Failed
    <3>2. thread'[<<"start", a>>] \in {"error", "false"}
        BY <2>2 DEF Body, TypeOK, Calls, Ops, Failed
    <3> QED
        BY <2>2, <3>1, <3>2 DEF StartBody
  <2> QED
      BY <2>1, <2>2 DEF StartBody
<1>2. /\ CallInv' /\ PhasesInOrder'
      /\ thread[<<"start", a>>] = "alive"
      /\ thread' \in [Calls -> {"none", "alive"} \cup Returns]
      /\ \A c \in Calls: c # <<"start", a>> => thread'[c] = thread[c]
      /\ UNCHANGED mainVars
    BY <1>1, BodyKeeps DEF Ops
<1>3. thread[<<"stop", a>>] = "none"
    BY <1>2 DEF PhasesInOrder
<1>4. TracingInv'
  <2>1. ASSUME NEW b \in Everyone
        PROVE  /\ thread'[<<"start", b>>] = "true" /\ thread'[<<"stop", b>>] = "none" => b \in tracing'
               /\ thread'[<<"stop", b>>] = "true" /\ b \in tracing' => b \in Collectors
      BY <1>1, <1>2, <1>3 DEF TracingInv, Calls, Ops
  <2>2. ASSUME NEW b \in Agents
        PROVE  /\ collection'[b] # "none" => b \in Collectors /\ thread'[<<"stop", b>>] = "true"
               /\ collection'[b] = "data" => b \notin tracing'
      BY <1>1, <1>2, <1>3, Kinds DEF TracingInv, Calls, Ops
  <2> QED
      BY <2>1, <2>2 DEF TracingInv
<1>5. TypeOK'
    BY <1>1, <1>2 DEF TypeOK, mainVars
<1> QED
    BY <1>1, <1>2, <1>4, <1>5 DEF ThreadInv, DataInv, mainVars

LEMMA StopBodyKeeps ==
    ASSUME IInv, NEW a \in Everyone, StopBody(a)
    PROVE  TypeOK' /\ ThreadInv' /\ DataInv' /\ UNCHANGED mainVars
<1> USE DEF IInv
<1>1. Body("stop", a, Returns)
    BY DEF StopBody, Body, Failed
<1>2. /\ CallInv' /\ PhasesInOrder'
      /\ <<"stop", a>> \in Calls /\ thread[<<"stop", a>>] = "alive"
      /\ thread' \in [Calls -> {"none", "alive"} \cup Returns]
      /\ thread'[<<"stop", a>>] \in Returns
      /\ \A c \in Calls: c # <<"stop", a>> => thread'[c] = thread[c]
      /\ UNCHANGED mainVars
    BY <1>1, BodyKeeps DEF Ops
<1>3. a \in Agents => collection[a] = "none"
    BY <1>2 DEF TracingInv
<1>4. /\ \A c \in Calls: c \in {"start"} \X Everyone => thread'[c] = thread[c]
      /\ \A b \in Everyone \ {a}: thread'[<<"stop", b>>] = thread[<<"stop", b>>]
    BY <1>2 DEF Calls, Ops
<1>5. CASE a \in Collectors
  <2>1. /\ thread'[<<"stop", a>>] = "true" /\ tracing' = tracing
        /\ collection' = [collection EXCEPT ![a] = "alive"]
      BY <1>2, <1>5 DEF StopBody, Body, TypeOK
  <2>2. collection' \in [Agents -> {"none", "alive", "data", "dead"}]
      BY <2>1 DEF TypeOK
  <2>3. TypeOK'
      BY <1>2, <2>1, <2>2 DEF TypeOK, mainVars
  <2>4. ASSUME NEW b \in Everyone
        PROVE  /\ thread'[<<"start", b>>] = "true" /\ thread'[<<"stop", b>>] = "none" => b \in tracing'
               /\ thread'[<<"stop", b>>] = "true" /\ b \in tracing' => b \in Collectors
      BY <1>2, <1>4, <1>5, <2>1 DEF TracingInv, Calls, Ops
  <2>5. ASSUME NEW b \in Agents
        PROVE  /\ collection'[b] # "none" => b \in Collectors /\ thread'[<<"stop", b>>] = "true"
               /\ collection'[b] = "data" => b \notin tracing'
      BY <1>4, <1>5, <2>1, Kinds DEF TracingInv, TypeOK
  <2>6. DataInv'
      BY <1>2, <1>3, <1>5, <2>1, Kinds DEF DataInv, TypeOK, mainVars
  <2> QED
      BY <1>2, <2>3, <2>4, <2>5, <2>6 DEF ThreadInv, TracingInv
<1>6. CASE a \notin Collectors
  <2>1. /\ collection' = collection /\ tracing' \in {tracing, tracing \ {a}}
        /\ thread'[<<"stop", a>>] = "true" => tracing' = tracing \ {a}
      BY <1>2, <1>6 DEF StopBody, Body, TypeOK, Failed
  <2>2. TypeOK' /\ DataInv'
      BY <1>2, <2>1 DEF TypeOK, DataInv, mainVars
  <2>3. ASSUME NEW b \in Everyone
        PROVE  /\ thread'[<<"start", b>>] = "true" /\ thread'[<<"stop", b>>] = "none" => b \in tracing'
               /\ thread'[<<"stop", b>>] = "true" /\ b \in tracing' => b \in Collectors
      BY <1>2, <1>4, <2>1 DEF TracingInv, Calls, Ops
  <2>4. ASSUME NEW b \in Agents
        PROVE  /\ collection'[b] # "none" => b \in Collectors /\ thread'[<<"stop", b>>] = "true"
               /\ collection'[b] = "data" => b \notin tracing'
      BY <1>3, <1>4, <2>1, Kinds DEF TracingInv
  <2> QED
      BY <1>2, <2>2, <2>3, <2>4 DEF ThreadInv, TracingInv
<1> QED
    BY <1>5, <1>6

LEMMA ResultsBodyKeeps ==
    ASSUME IInv, NEW a \in Everyone, ResultsBody(a)
    PROVE  TypeOK' /\ ThreadInv' /\ DataInv' /\ UNCHANGED mainVars
<1> USE DEF IInv
<1>1. Body("results", a, Returns) /\ UNCHANGED <<tracing, collection>>
    BY DEF ResultsBody, Body
<1>2. /\ CallInv' /\ PhasesInOrder'
      /\ thread' \in [Calls -> {"none", "alive"} \cup Returns]
      /\ \A c \in Calls: c # <<"results", a>> => thread'[c] = thread[c]
      /\ UNCHANGED mainVars
    BY <1>1, BodyKeeps DEF Ops
<1>3. \A b \in Everyone: /\ thread'[<<"start", b>>] = thread[<<"start", b>>]
                        /\ thread'[<<"stop", b>>] = thread[<<"stop", b>>]
    BY <1>2 DEF Calls, Ops
<1> QED
    BY <1>1, <1>2, <1>3, Kinds DEF TypeOK, ThreadInv, TracingInv, DataInv, mainVars

LEMMA CollectionKeeps ==
    ASSUME IInv, NEW a \in Agents, Collection(a)
    PROVE  TypeOK' /\ ThreadInv' /\ DataInv' /\ UNCHANGED mainVars
<1> USE DEF IInv
<1>1. /\ UNCHANGED mainVars /\ thread' = thread
      /\ a \in Collectors /\ collection[a] = "alive"
      /\ collection'[a] \in {"data", "dead"}
      /\ collection' \in [Agents -> {"none", "alive", "data", "dead"}]
      /\ \A b \in Agents \ {a}: collection'[b] = collection[b]
      /\ tracing' \in {tracing, tracing \ {a}}
      /\ collection'[a] = "data" => tracing' = tracing \ {a}
    BY DEF Collection, TypeOK
<1>2. thread[<<"stop", a>>] = "true"
    BY <1>1 DEF TracingInv
<1>3. TypeOK'
    BY <1>1 DEF TypeOK, mainVars
<1>4. CallInv' /\ PhasesInOrder'
    BY <1>1 DEF CallInv, PhasesInOrder, mainVars
<1>5. TracingInv'
    BY <1>1, <1>2, Kinds DEF TracingInv
<1>6. DataInv'
    BY <1>1, Kinds DEF DataInv, mainVars
<1> QED
    BY <1>1, <1>3, <1>4, <1>5, <1>6 DEF ThreadInv

--------------------------------------------------------------------------------
(* The main thread.  A verdict is given once, so what is known of other calls   *)
(* stays known.                                                                 *)
LEMMA EndOf ==
    ASSUME TypeOK, ThreadInv, NEW o \in Ops, NEW x \in Everyone, call = <<o, x>>,
           NEW v \in {"timeout"} \cup Returns, End(v)
    PROVE  /\ ThreadInv' /\ call' = NoCall
           /\ verdict' \in [Calls -> {"none", "timeout"} \cup Returns]
           /\ UNCHANGED <<thread, tracing, collection>>
           /\ verdict[<<o, x>>] = "none"
           /\ verdict'[<<o, x>>] = v
           /\ \A p \in Ops, b \in Everyone:
                p # o \/ b # x => verdict'[<<p, b>>] = verdict[<<p, b>>]
           /\ \A b \in Everyone: Refused(b) => Refused(b)'
<1>1. /\ ThreadInv' /\ call' = NoCall
      /\ verdict' \in [Calls -> {"none", "timeout"} \cup Returns]
      /\ UNCHANGED <<thread, tracing, collection>>
      /\ verdict[<<o, x>>] = "none"
      /\ verdict'[<<o, x>>] = v
      /\ \A c \in Calls: c # <<o, x>> => verdict'[c] = verdict[c]
    BY EndKeeps
<1>2. \A p \in Ops, b \in Everyone: p # o \/ b # x => verdict'[<<p, b>>] = verdict[<<p, b>>]
    BY <1>1 DEF Calls
<1>3. \A b \in Everyone: Refused(b) => Refused(b)'
    BY <1>1, <1>2 DEF Refused
<1> QED
    BY <1>1, <1>2, <1>3

(* A verdict on a call of which nothing was collected leaves the results true.  *)
LEMMA ResultsStay ==
    ASSUME TypeOK, ResultsInv, pc \notin {"output"} \cup Over, pc' # "ended",
           UNCHANGED <<results, published>>,
           NEW o \in Ops, NEW x \in Everyone, verdict[<<o, x>>] = "none",
           \A p \in Ops, b \in Everyone:
                p # o \/ b # x => verdict'[<<p, b>>] = verdict[<<p, b>>]
    PROVE  ResultsInv'
<1>1. ASSUME NEW r \in results, NEW p \in Ops
      PROVE  verdict'[<<p, r[1]>>] = "true"
  <2>1. verdict[<<p, r[1]>>] = "true"
      BY DEF ResultsInv
  <2>2. r[1] \in Everyone
      BY DEF TypeOK
  <2> QED
      BY <2>1, <2>2
<1>2. published' = FALSE
    BY DEF ResultsInv, TypeOK
<1> QED
    BY <1>1, <1>2 DEF ResultsInv

LEMMA AbortKeeps ==
    ASSUME IInv, End("error"), Abort
    PROVE  IInv'
<1> USE DEF IInv
<1>1. PICK o \in Ops, x \in Everyone: call = <<o, x>>
  <2>1. call \in Ops \X Everyone
      BY DEF End, TypeOK, Calls
  <2> QED
      BY <2>1
<1>2. /\ ThreadInv' /\ call' = NoCall
      /\ verdict' \in [Calls -> {"none", "timeout"} \cup Returns]
      /\ UNCHANGED <<thread, tracing, collection>>
      /\ verdict[<<o, x>>] = "none"
      /\ \A p \in Ops, b \in Everyone:
           p # o \/ b # x => verdict'[<<p, b>>] = verdict[<<p, b>>]
      /\ \A b \in Everyone: Refused(b) => Refused(b)'
    BY <1>1, EndOf DEF ThreadInv
<1>3. /\ pc' = "aborted"
      /\ UNCHANGED <<todo, succ, children, inProgress, marked, unmarked, results, published>>
    BY DEF Abort
<1>4. TypeOK' /\ DataInv'
    BY <1>2, <1>3 DEF TypeOK, DataInv, Over
<1>5. PhaseInv' /\ StopInv' /\ CollectInv' /\ SyncInv' /\ TracesAreSynced'
    BY <1>2, <1>3 DEF PhaseInv, StopInv, CollectInv, SyncInv, TracesAreSynced, Over
<1>6. StartInv'
    BY <1>2, <1>3, Kinds DEF StartInv, Started, Ops, TypeOK
<1>7. ResultsInv'
  <2>1. pc \notin {"output"} \cup Over
      BY DEF End, PhaseInv
  <2> QED
      BY <1>2, <1>3, <2>1, ResultsStay
<1> QED
    BY <1>2, <1>4, <1>5, <1>6, <1>7 DEF ThreadInv

(* StartTracing: no agent is called before the controller's started, and the    *)
(* agents started are those that become the children.                           *)
LEMMA StartTracingKeeps ==
    ASSUME IInv, StartTracing
    PROVE  IInv'
<1> USE DEF IInv
<1>1. /\ Begin("start", Controller) /\ call' = <<"start", Controller>> /\ verdict' = verdict
      /\ tracing' = tracing /\ collection' = collection
      /\ pc = "idle" /\ pc' = "start controller" /\ inProgress' = TRUE
      /\ UNCHANGED <<todo, succ, children, marked, unmarked, results, published>>
    BY DEF StartTracing, Begin
<1>2. /\ ThreadInv' /\ call' \in Calls \cup {NoCall}
      /\ thread' \in [Calls -> {"none", "alive"} \cup Returns]
  <2>1. Fresh("start", Controller) /\ Fresh("stop", Controller)
      BY <1>1, Kinds DEF StartInv, StopInv
  <2> QED
      BY <1>1, <2>1, BeginKeeps, Kinds DEF Ops, ThreadInv
<1>3. TypeOK'
    BY <1>1, <1>2 DEF TypeOK
<1>4. PhaseInv' /\ StopInv' /\ CollectInv' /\ ResultsInv'
    BY <1>1 DEF PhaseInv, StopInv, CollectInv, ResultsInv, Over, Fresh
<1>5. StartInv'
    BY <1>1, Kinds DEF StartInv, Fresh
<1>6. SyncInv' /\ DataInv' /\ TracesAreSynced'
    BY <1>1 DEF SyncInv, DataInv, TracesAreSynced
<1> QED
    BY <1>2, <1>3, <1>4, <1>5, <1>6 DEF ThreadInv

LEMMA ControllerStartedKeeps ==
    ASSUME IInv, ControllerStarted
    PROVE  IInv'
<1> USE DEF IInv
<1>1. pc = "start controller" /\ call = <<"start", Controller>>
    BY DEF ControllerStarted, PhaseInv
<1>2. CASE End("error") /\ Abort
    BY <1>2, AbortKeeps
<1>3. ASSUME NEW v \in {"true"} \cup Falsy, End(v),
             v = "true" => pc' = "start" /\ todo' = Agents,
             v \in Falsy => pc' = "tracing" /\ todo' = todo,
             UNCHANGED <<succ, children, inProgress, marked, unmarked, results, published>>
      PROVE  IInv'
  <2>1. /\ ThreadInv' /\ call' = NoCall
        /\ verdict' \in [Calls -> {"none", "timeout"} \cup Returns]
        /\ UNCHANGED <<thread, tracing, collection>>
        /\ verdict[<<"start", Controller>>] = "none"
        /\ verdict'[<<"start", Controller>>] = v
        /\ \A p \in Ops, b \in Everyone:
             p # "start" \/ b # Controller => verdict'[<<p, b>>] = verdict[<<p, b>>]
        /\ \A b \in Everyone: Refused(b) => Refused(b)'
    <3>1. TypeOK /\ ThreadInv /\ "start" \in Ops /\ Controller \in Everyone
        BY Kinds DEF ThreadInv, Ops
    <3> HIDE DEF IInv
    <3> QED
        BY <1>1, <1>3, <3>1, EndOf
  <2>2. TypeOK'
      BY <1>3, <2>1, Kinds DEF TypeOK
  <2>3. PhaseInv' /\ SyncInv' /\ DataInv' /\ TracesAreSynced'
      BY <1>1, <1>3, <2>1 DEF PhaseInv, SyncInv, DataInv, TracesAreSynced, Over
  <2>4. StartInv'
    <3>1. children' = Unset /\ succ' = {}
        BY <1>1, <1>3 DEF StartInv
    <3>2. \A b \in Agents: Fresh("start", b)'
        BY <1>1, <2>1, Kinds DEF StartInv, Fresh, Ops
    <3> QED
        BY <1>1, <1>3, <2>1, <3>1, <3>2 DEF StartInv, Started
  <2>5. StopInv' /\ CollectInv'
      BY <1>1, <1>3, <2>1 DEF StopInv, CollectInv, Fresh, Ops, Over
  <2>6. ResultsInv'
      BY <1>1, <1>3, <2>1, ResultsStay, Kinds DEF Ops, Over
  <2> QED
      BY <2>1, <2>2, <2>3, <2>4, <2>5, <2>6 DEF ThreadInv
<1> QED
    BY <1>2, <1>3 DEF ControllerStarted

LEMMA StartChildKeeps ==
    ASSUME IInv, StartChild
    PROVE  IInv'
<1> USE DEF IInv
<1> DEFINE x == First(todo)
<1>1. /\ Begin("start", x) /\ call = NoCall /\ call' = <<"start", x>> /\ verdict' = verdict
      /\ tracing' = tracing /\ collection' = collection
      /\ pc = "start"
      /\ UNCHANGED <<pc, todo, succ, children, inProgress, marked, unmarked, results, published>>
    BY DEF StartChild, Begin
<1>2. x \in todo /\ x \in Everyone
    BY FirstIn, Kinds DEF StartChild, TypeOK
<1> HIDE DEF x
<1>3. /\ ThreadInv' /\ call' \in Calls \cup {NoCall}
      /\ thread' \in [Calls -> {"none", "alive"} \cup Returns]
  <2>1. Fresh("start", x) /\ Fresh("stop", x)
      BY <1>1, <1>2 DEF StartInv, StopInv
  <2> QED
      BY <1>1, <1>2, <2>1, BeginKeeps DEF Ops, ThreadInv
<1>4. TypeOK'
    BY <1>1, <1>3 DEF TypeOK
<1>5. PhaseInv'
    BY <1>1, <1>2 DEF PhaseInv, Over
<1>6. StartInv' /\ StopInv' /\ CollectInv' /\ ResultsInv'
    BY <1>1 DEF StartInv, StopInv, CollectInv, ResultsInv, Over, Fresh, Started, Refused, Delivered
<1>7. SyncInv' /\ DataInv' /\ TracesAreSynced'
    BY <1>1 DEF SyncInv, DataInv, TracesAreSynced
<1> QED
    BY <1>3, <1>4, <1>5, <1>6, <1>7 DEF ThreadInv

LEMMA ChildStartedKeeps ==
    ASSUME IInv, ChildStarted
    PROVE  IInv'
<1> USE DEF IInv
<1>1. CASE End("error") /\ Abort
    BY <1>1, AbortKeeps
<1>2. ASSUME NEW v \in {"true"} \cup Falsy, End(v),
             succ' = IF v = "true" THEN succ \cup {call[2]} ELSE succ,
             todo' = todo \ {call[2]},
             UNCHANGED <<pc, children, inProgress, marked, unmarked, results, published>>
      PROVE  IInv'
  <2>1. pc = "start"
      BY DEF ChildStarted
  <2>2. PICK x \in todo: call = <<"start", x>>
      BY <1>2, <2>1 DEF End, PhaseInv
  <2>3. /\ succ' = IF v = "true" THEN succ \cup {x} ELSE succ
        /\ todo' = todo \ {x}
        /\ x \in Agents /\ x \in Everyone
      BY <1>2, <2>1, <2>2, Kinds DEF StartInv
  <2>4. /\ ThreadInv' /\ call' = NoCall
        /\ verdict' \in [Calls -> {"none", "timeout"} \cup Returns]
        /\ UNCHANGED <<thread, tracing, collection>>
        /\ verdict[<<"start", x>>] = "none"
        /\ verdict'[<<"start", x>>] = v
        /\ \A p \in Ops, b \in Everyone:
             p # "start" \/ b # x => verdict'[<<p, b>>] = verdict[<<p, b>>]
        /\ \A b \in Everyone: Refused(b) => Refused(b)'
      BY <1>2, <2>2, <2>3, EndOf DEF ThreadInv, Ops
  <2>5. TypeOK'
      BY <1>2, <2>3, <2>4 DEF TypeOK
  <2>6. PhaseInv' /\ SyncInv' /\ DataInv' /\ TracesAreSynced'
      BY <1>2, <2>1, <2>4 DEF PhaseInv, SyncInv, DataInv, TracesAreSynced, Over
  <2>7. StartInv'
    <3>1. Refused(x)' \/ v = "true"
        BY <1>2, <2>4 DEF Refused, Ops
    <3>2. \A b \in Agents: b \in todo' \/ b \in succ' \/ Refused(b)'
        BY <1>2, <2>1, <2>3, <2>4, <3>1, Kinds DEF StartInv
    <3>3. Started(Controller)' /\ children' = Unset /\ todo' \subseteq Agents
        BY <1>2, <2>1, <2>3, <2>4, Kinds DEF StartInv, Started, Ops
    <3>4. /\ \A b \in todo': Fresh("start", b)'
          /\ \A b \in succ': Started(b)'
      <4>1. succ \subseteq Everyone /\ todo \subseteq Everyone
          BY Kinds DEF TypeOK
      <4> QED
          BY <1>2, <2>1, <2>3, <2>4, <4>1 DEF StartInv, Started, Fresh, Ops
    <3> QED
        BY <1>2, <2>1, <2>3, <2>4, <3>1, <3>2, <3>3, <3>4 DEF StartInv
  <2>8. StopInv' /\ CollectInv'
      BY <1>2, <2>1, <2>4 DEF StopInv, CollectInv, Fresh, Ops, Over
  <2>9. ResultsInv'
      BY <1>2, <2>1, <2>3, <2>4, ResultsStay DEF Ops, Over
  <2> QED
      BY <2>4, <2>5, <2>6, <2>7, <2>8, <2>9 DEF ThreadInv
<1> QED
    BY <1>1, <1>2 DEF ChildStarted

LEMMA AllStartedKeeps ==
    ASSUME IInv, AllStarted
    PROVE  IInv'
<1> USE DEF IInv
<1>1. /\ pc = "start" /\ pc' = "tracing" /\ todo = {} /\ call = NoCall /\ children' = succ
      /\ UNCHANGED <<call, todo, succ, inProgress, thread, verdict, tracing, collection,
                     marked, unmarked, results, published>>
    BY DEF AllStarted
<1>2. TypeOK' /\ ThreadInv'
    BY <1>1 DEF TypeOK, ThreadInv, CallInv, PhasesInOrder, TracingInv
<1>3. PhaseInv' /\ StopInv' /\ CollectInv' /\ ResultsInv'
    BY <1>1 DEF PhaseInv, StopInv, CollectInv, ResultsInv, Over, Fresh, Refused, Delivered
<1>4. StartInv'
    BY <1>1 DEF StartInv, Started, Refused
<1>5. SyncInv' /\ DataInv' /\ TracesAreSynced'
    BY <1>1 DEF SyncInv, DataInv, TracesAreSynced
<1> QED
    BY <1>2, <1>3, <1>4, <1>5 DEF ThreadInv

(* StopTracing: every child is marked while its target and the controller's log *)
(* are tracing, since no agent is stopped before the markers are out.           *)
LEMMA StopTracingKeeps ==
    ASSUME IInv, StopTracing
    PROVE  IInv'
<1> USE DEF IInv
<1>1. /\ pc = "tracing" /\ call = NoCall /\ inProgress' = FALSE
      /\ \/ pc' = "aborted" /\ todo' = todo
         \/ pc' = "sync" /\ todo' = children \cap SyncAgents /\ children # Unset
      /\ UNCHANGED <<call, succ, children, thread, verdict, tracing, collection,
                     marked, unmarked, results, published>>
    BY DEF StopTracing, PhaseInv
<1>2. TypeOK' /\ ThreadInv'
  <2>1. todo' \subseteq Everyone
      BY <1>1, Kinds DEF TypeOK
  <2> QED
      BY <1>1, <2>1 DEF TypeOK, Over, ThreadInv, CallInv, PhasesInOrder, TracingInv
<1>3. PhaseInv' /\ StopInv' /\ CollectInv' /\ ResultsInv'
    BY <1>1 DEF PhaseInv, StopInv, CollectInv, ResultsInv, Over, Fresh, Refused, Delivered
<1>4. StartInv'
    BY <1>1 DEF StartInv, Started, Refused
<1>5. SyncInv' /\ DataInv' /\ TracesAreSynced'
    BY <1>1 DEF SyncInv, DataInv, TracesAreSynced
<1> QED
    BY <1>2, <1>3, <1>4, <1>5 DEF ThreadInv

LEMMA MarkingKeeps ==
    ASSUME IInv, Marking
    PROVE  IInv'
<1> USE DEF IInv
<1>1. /\ pc = "sync" /\ todo # {}
      /\ UNCHANGED <<call, thread, verdict, tracing, collection, succ, children, inProgress,
                     results, published>>
    BY DEF Marking, IssueClockSyncMarker, Abort
<1>2. ThreadInv' /\ DataInv'
    BY <1>1 DEF ThreadInv, CallInv, PhasesInOrder, TracingInv, DataInv
<1>3. CASE Abort
  <2>1. pc' = "aborted" /\ todo' = todo /\ marked' = marked /\ unmarked' = unmarked
      BY <1>3 DEF Abort
  <2>2. TypeOK' /\ PhaseInv' /\ StopInv' /\ CollectInv' /\ ResultsInv'
      BY <1>1, <2>1 DEF TypeOK, PhaseInv, StopInv, CollectInv, ResultsInv, Over, Refused, Delivered
  <2>3. StartInv' /\ SyncInv' /\ TracesAreSynced'
      BY <1>1, <2>1 DEF StartInv, Started, SyncInv, TracesAreSynced
  <2> QED
      BY <1>2, <2>2, <2>3 DEF ThreadInv
<1>4. CASE ~Abort
  <2> DEFINE x == First(todo)
  <2>1. /\ pc' = pc /\ todo' = todo \ {x}
        /\ \/ /\ marked' = IF {x, Controller} \subseteq tracing THEN marked \cup {x} ELSE marked
              /\ unmarked' = unmarked
           \/ marked' = marked /\ unmarked' = unmarked \cup {x}
      BY <1>4 DEF Marking, IssueClockSyncMarker
  <2>2. x \in todo /\ x \in children /\ x \in SyncAgents /\ x \in Agents
    <3>1. x \in todo
        BY <1>1, FirstIn, Kinds DEF TypeOK
    <3> QED
        BY <1>1, <3>1, Kinds DEF SyncInv
  <2> HIDE DEF x
  <2>3. \A a \in {x, Controller}: a \in tracing
    <3> SUFFICES ASSUME NEW a \in {x, Controller}
                 PROVE  a \in tracing
        OBVIOUS
    <3>1. a \in Everyone /\ <<"start", a>> \in Calls /\ <<"stop", a>> \in Calls
        BY <2>2, Kinds DEF Calls, Ops
    <3>2. thread[<<"start", a>>] = "true"
        BY <1>1, <2>2, <3>1 DEF StartInv, Started, CallInv
    <3>3. thread[<<"stop", a>>] = "none"
      <4>1. call # <<"stop", a>>
          BY <1>1, <3>1, Kinds DEF PhaseInv
      <4> QED
          BY <1>1, <3>1, <4>1 DEF StopInv, Fresh, CallInv
    <3> QED
        BY <3>1, <3>2, <3>3 DEF TracingInv
  <2>4. /\ (marked \cup unmarked)' = marked \cup unmarked \cup {x}
        /\ marked' \subseteq marked \cup {x} /\ unmarked' \subseteq unmarked \cup {x}
      BY <2>1, <2>3
  <2>5. TypeOK'
      BY <1>1, <2>1, <2>2, <2>4 DEF TypeOK
  <2>6. PhaseInv' /\ StopInv' /\ CollectInv' /\ ResultsInv'
      BY <1>1, <2>1 DEF PhaseInv, StopInv, CollectInv, ResultsInv, Over, Fresh, Refused, Delivered
  <2>7. StartInv'
      BY <1>1, <2>1 DEF StartInv, Started, Refused
  <2>8. SyncInv' /\ TracesAreSynced'
      BY <1>1, <2>1, <2>2, <2>4 DEF SyncInv, TracesAreSynced
  <2> QED
      BY <1>2, <2>5, <2>6, <2>7, <2>8 DEF ThreadInv
<1> QED
    BY <1>3, <1>4

LEMMA AllMarkedKeeps ==
    ASSUME IInv, AllMarked
    PROVE  IInv'
<1> USE DEF IInv
<1>1. /\ pc = "sync" /\ pc' = "stop" /\ todo = {} /\ todo' = children /\ succ' = {}
      /\ children # Unset /\ call = NoCall
      /\ UNCHANGED <<call, children, inProgress, thread, verdict, tracing, collection,
                     marked, unmarked, results, published>>
    BY DEF AllMarked, StartInv, PhaseInv
<1>2. children \subseteq Agents
    BY <1>1 DEF TypeOK
<1>3. TypeOK' /\ ThreadInv'
    BY <1>1, <1>2, Kinds DEF TypeOK, ThreadInv, CallInv, PhasesInOrder, TracingInv
<1>4. PhaseInv' /\ CollectInv' /\ ResultsInv'
    BY <1>1 DEF PhaseInv, CollectInv, ResultsInv, Over, Fresh, Refused, Delivered
<1>5. StartInv'
    BY <1>1 DEF StartInv, Started, Refused
<1>6. StopInv'
    BY <1>1, <1>2, Kinds DEF StartInv, StopInv, Fresh, Refused
<1>7. SyncInv' /\ DataInv' /\ TracesAreSynced'
    BY <1>1 DEF SyncInv, DataInv, TracesAreSynced
<1> QED
    BY <1>3, <1>4, <1>5, <1>6, <1>7 DEF ThreadInv

(* StopTracing, continued: the stops, of agents whose start came to True.       *)
LEMMA StopChildKeeps ==
    ASSUME IInv, StopChild
    PROVE  IInv'
<1> USE DEF IInv
<1> DEFINE x == First(todo)
<1>1. /\ Begin("stop", x) /\ call = NoCall /\ call' = <<"stop", x>> /\ verdict' = verdict
      /\ tracing' = tracing /\ collection' = collection
      /\ pc = "stop"
      /\ UNCHANGED <<pc, todo, succ, children, inProgress, marked, unmarked, results, published>>
    BY DEF StopChild, Begin
<1>2. x \in todo /\ x \in Everyone
    BY FirstIn, Kinds DEF StopChild, TypeOK
<1> HIDE DEF x
<1>3. /\ ThreadInv' /\ call' \in Calls \cup {NoCall}
      /\ thread' \in [Calls -> {"none", "alive"} \cup Returns]
  <2>1. Fresh("stop", x) /\ Started(x) /\ Fresh("results", x)
      BY <1>1, <1>2 DEF StartInv, StopInv, CollectInv, Over
  <2> QED
      BY <1>1, <1>2, <2>1, BeginKeeps DEF Ops, ThreadInv
<1>4. TypeOK'
    BY <1>1, <1>3 DEF TypeOK
<1>5. PhaseInv'
    BY <1>1, <1>2 DEF PhaseInv, Over
<1>6. StartInv' /\ StopInv' /\ CollectInv' /\ ResultsInv'
    BY <1>1 DEF StartInv, StopInv, CollectInv, ResultsInv, Over, Fresh, Started, Stopped, Refused,
        Delivered
<1>7. SyncInv' /\ DataInv' /\ TracesAreSynced'
    BY <1>1 DEF SyncInv, DataInv, TracesAreSynced
<1> QED
    BY <1>3, <1>4, <1>5, <1>6, <1>7 DEF ThreadInv

LEMMA ChildStoppedKeeps ==
    ASSUME IInv, ChildStopped
    PROVE  IInv'
<1> USE DEF IInv
<1>1. CASE End("error") /\ Abort
    BY <1>1, AbortKeeps
<1>2. ASSUME NEW v \in {"true"} \cup Falsy, End(v),
             succ' = IF v = "true" THEN succ \cup {call[2]} ELSE succ,
             todo' = todo \ {call[2]},
             UNCHANGED <<pc, children, inProgress, marked, unmarked, results, published>>
      PROVE  IInv'
  <2>1. pc = "stop" /\ children # Unset
      BY DEF ChildStopped, StartInv
  <2>2. PICK x \in todo: call = <<"stop", x>>
      BY <1>2, <2>1 DEF End, PhaseInv
  <2>3. /\ succ' = IF v = "true" THEN succ \cup {x} ELSE succ
        /\ todo' = todo \ {x}
        /\ children \subseteq Agents /\ todo \subseteq children /\ succ \subseteq children
        /\ x \in Agents /\ x \in Everyone
      BY <1>2, <2>1, <2>2, Kinds DEF StopInv, TypeOK
  <2>4. /\ ThreadInv' /\ call' = NoCall
        /\ verdict' \in [Calls -> {"none", "timeout"} \cup Returns]
        /\ UNCHANGED <<thread, tracing, collection>>
        /\ verdict[<<"stop", x>>] = "none"
        /\ verdict'[<<"stop", x>>] = v
        /\ \A p \in Ops, b \in Everyone:
             p # "stop" \/ b # x => verdict'[<<p, b>>] = verdict[<<p, b>>]
        /\ \A b \in Everyone: Refused(b) => Refused(b)'
      BY <1>2, <2>2, <2>3, EndOf DEF ThreadInv, Ops
  <2>5. TypeOK'
      BY <1>2, <2>3, <2>4 DEF TypeOK
  <2>6. PhaseInv' /\ SyncInv' /\ DataInv' /\ TracesAreSynced'
      BY <1>2, <2>1, <2>4 DEF PhaseInv, SyncInv, DataInv, TracesAreSynced, Over
  <2>7. StopInv'
    <3>1. Refused(x)' \/ v = "true"
        BY <1>2, <2>4 DEF Refused, Ops
    <3>2. \A b \in Agents: b \in todo' \/ b \in succ' \/ Refused(b)'
        BY <1>2, <2>1, <2>3, <2>4, <3>1, Kinds DEF StopInv
    <3>3. \A b \in todo' \cup {Controller}: Fresh("stop", b)'
        BY <2>1, <2>3, <2>4, Kinds DEF StopInv, Fresh, Ops
    <3>4. \A b \in succ': Stopped(b)'
        BY <2>1, <2>3, <2>4, Kinds DEF StopInv, Stopped, Ops
    <3> QED
        BY <1>2, <2>1, <2>3, <3>2, <3>3, <3>4 DEF StopInv
  <2>8. StartInv' /\ CollectInv'
      BY <1>2, <2>1, <2>3, <2>4, Kinds DEF StartInv, CollectInv, Started, Fresh, Ops, Over
  <2>9. ResultsInv'
      BY <1>2, <2>1, <2>3, <2>4, ResultsStay DEF Ops, Over
  <2> QED
      BY <2>4, <2>5, <2>6, <2>7, <2>8, <2>9 DEF ThreadInv
<1> QED
    BY <1>1, <1>2 DEF ChildStopped

LEMMA StopControllerKeeps ==
    ASSUME IInv, StopController
    PROVE  IInv'
<1> USE DEF IInv
<1>1. /\ Begin("stop", Controller) /\ call' = <<"stop", Controller>> /\ verdict' = verdict
      /\ tracing' = tracing /\ collection' = collection
      /\ pc = "stop" /\ pc' = "stop controller" /\ todo = {}
      /\ UNCHANGED <<todo, succ, children, inProgress, marked, unmarked, results, published>>
    BY DEF StopController, Begin
<1>2. /\ ThreadInv' /\ call' \in Calls \cup {NoCall}
      /\ thread' \in [Calls -> {"none", "alive"} \cup Returns]
  <2>1. Fresh("stop", Controller) /\ Started(Controller) /\ Fresh("results", Controller)
      BY <1>1, Kinds DEF StartInv, StopInv, CollectInv, Over
  <2> QED
      BY <1>1, <2>1, BeginKeeps, Kinds DEF Ops, ThreadInv
<1>3. TypeOK'
    BY <1>1, <1>2 DEF TypeOK
<1>4. PhaseInv' /\ CollectInv' /\ ResultsInv'
    BY <1>1 DEF PhaseInv, CollectInv, ResultsInv, Over, Fresh
<1>5. StartInv' /\ StopInv'
    BY <1>1 DEF StartInv, StopInv, Started, Stopped, Refused, Fresh
<1>6. SyncInv' /\ DataInv' /\ TracesAreSynced'
    BY <1>1 DEF SyncInv, DataInv, TracesAreSynced
<1> QED
    BY <1>2, <1>3, <1>4, <1>5, <1>6 DEF ThreadInv

LEMMA ControllerStoppedKeeps ==
    ASSUME IInv, ControllerStopped
    PROVE  IInv'
<1> USE DEF IInv
<1>1. pc = "stop controller" /\ call = <<"stop", Controller>> /\ children # Unset
    BY DEF ControllerStopped, PhaseInv, StartInv
<1>2. CASE End("error") /\ Abort
    BY <1>2, AbortKeeps
<1>3. ASSUME NEW v \in {"true"} \cup Falsy, End(v),
             v = "true" => pc' = "collect" /\ children' = succ /\ todo' = succ \cup {Controller},
             v \in Falsy => pc' = "output" /\ children' = children /\ todo' = todo,
             UNCHANGED <<succ, inProgress, marked, unmarked, results, published>>
      PROVE  IInv'
  <2>1. /\ ThreadInv' /\ call' = NoCall
        /\ verdict' \in [Calls -> {"none", "timeout"} \cup Returns]
        /\ UNCHANGED <<thread, tracing, collection>>
        /\ verdict[<<"stop", Controller>>] = "none"
        /\ verdict'[<<"stop", Controller>>] = v
        /\ \A p \in Ops, b \in Everyone:
             p # "stop" \/ b # Controller => verdict'[<<p, b>>] = verdict[<<p, b>>]
        /\ \A b \in Everyone: Refused(b) => Refused(b)'
    <3>1. TypeOK /\ ThreadInv /\ "stop" \in Ops /\ Controller \in Everyone
        BY Kinds DEF ThreadInv, Ops
    <3> HIDE DEF IInv
    <3> QED
        BY <1>1, <1>3, <3>1, EndOf
  <2>2. /\ succ \subseteq Agents /\ succ \subseteq children /\ children' \subseteq children
        /\ children' \subseteq Agents /\ children' # Unset
      BY <1>1, <1>3, Kinds DEF StopInv, TypeOK
  <2>3. TypeOK'
      BY <1>3, <2>1, <2>2, Kinds DEF TypeOK
  <2>4. PhaseInv' /\ SyncInv' /\ DataInv' /\ TracesAreSynced'
      BY <1>1, <1>3, <2>1, <2>2 DEF PhaseInv, SyncInv, DataInv, TracesAreSynced, Over
  <2>5. StartInv'
      BY <1>1, <1>3, <2>1, <2>2, Kinds DEF StartInv, Started, Ops
  <2>6. StopInv'
      BY <1>1, <1>3 DEF StopInv
  <2>7. CollectInv'
    <3>1. CASE v \in Falsy
        BY <1>3, <3>1 DEF CollectInv
    <3>2. CASE v = "true"
      <4>1. \A b \in succ \cup {Controller}: Stopped(b)'
          BY <1>1, <2>1, <2>2, <3>2, Kinds DEF StopInv, Stopped, Ops
      <4>2. \A b \in Everyone: Fresh("results", b)'
          BY <1>1, <2>1 DEF CollectInv, Fresh, Ops, Over
      <4>3. \A b \in Everyone: b \in todo' \/ Refused(b)'
        <5>1. \A b \in Everyone: b \in Agents \/ b = Controller
            BY NAssumption DEF Everyone, Agents, Controller
        <5> QED
            BY <1>1, <1>3, <2>1, <3>2, <5>1, Kinds DEF StopInv
      <4> QED
          BY <1>3, <2>2, <3>2, <4>1, <4>2, <4>3, Kinds DEF CollectInv
    <3> QED
        BY <3>1, <3>2
  <2>8. ResultsInv'
      BY <1>1, <1>3, <2>1, ResultsStay, Kinds DEF Ops, Over
  <2> QED
      BY <2>1, <2>3, <2>4, <2>5, <2>6, <2>7, <2>8 DEF ThreadInv
<1> QED
    BY <1>2, <1>3 DEF ControllerStopped

(* CollectResults: the results of the agents that were stopped.                 *)
LEMMA CollectKeeps ==
    ASSUME IInv, Collect
    PROVE  IInv'
<1> USE DEF IInv
<1> DEFINE x == First(todo)
<1>1. /\ Begin("results", x) /\ call = NoCall /\ call' = <<"results", x>> /\ verdict' = verdict
      /\ tracing' = tracing /\ collection' = collection
      /\ pc = "collect"
      /\ UNCHANGED <<pc, todo, succ, children, inProgress, marked, unmarked, results, published>>
    BY DEF Collect, Begin
<1>2. x \in todo /\ x \in Everyone
    BY FirstIn, Kinds DEF Collect, TypeOK
<1> HIDE DEF x
<1>3. /\ ThreadInv' /\ call' \in Calls \cup {NoCall}
      /\ thread' \in [Calls -> {"none", "alive"} \cup Returns]
  <2>1. Fresh("results", x) /\ Stopped(x)
      BY <1>1, <1>2 DEF CollectInv
  <2> QED
      BY <1>1, <1>2, <2>1, BeginKeeps DEF Ops, ThreadInv
<1>4. TypeOK'
    BY <1>1, <1>3 DEF TypeOK
<1>5. PhaseInv'
  <2>1. pc' = "collect" /\ call' \in {"results"} \X todo'
      BY <1>1, <1>2
  <2> QED
      BY <2>1 DEF PhaseInv, Over
<1>6. StartInv' /\ StopInv' /\ CollectInv' /\ ResultsInv'
  <2>1. StartInv'
      BY <1>1 DEF StartInv, Fresh, Started, Refused
  <2>2. StopInv'
      BY <1>1 DEF StopInv, Fresh, Stopped, Refused
  <2>3. CollectInv'
      BY <1>1 DEF CollectInv, Over, Fresh, Stopped, Refused, Delivered
  <2>4. ResultsInv'
      BY <1>1 DEF ResultsInv, Over, Delivered, Refused
  <2> QED
      BY <2>1, <2>2, <2>3, <2>4
<1>7. SyncInv' /\ DataInv' /\ TracesAreSynced'
    BY <1>1 DEF SyncInv, DataInv, TracesAreSynced
<1> QED
    BY <1>3, <1>4, <1>5, <1>6, <1>7 DEF ThreadInv

LEMMA CollectedKeeps ==
    ASSUME IInv, Collected
    PROVE  IInv'
<1> USE DEF IInv
<1>1. CASE End("error") /\ Abort
    BY <1>1, AbortKeeps
<1>2. ASSUME NEW v \in {"true"} \cup Falsy, End(v),
             todo' = todo \ {call[2]},
             results' =
                IF v = "true"
                THEN results \cup {<<call[2], call[2] \notin Collectors
                                             \/ collection[call[2]] = "data">>}
                ELSE results,
             UNCHANGED <<pc, succ, children, inProgress, marked, unmarked, published>>
      PROVE  IInv'
  <2>1. pc = "collect" /\ children # Unset
      BY DEF Collected, StartInv
  <2>2. PICK x \in todo: call = <<"results", x>>
      BY <1>2, <2>1 DEF End, PhaseInv
  <2> DEFINE data == x \notin Collectors \/ collection[x] = "data"
  <2>3. /\ results' = IF v = "true" THEN results \cup {<<x, data>>} ELSE results
        /\ todo' = todo \ {x}
        /\ x \in children \cup {Controller} /\ x \in Everyone
        /\ children \subseteq Agents
      BY <1>2, <2>1, <2>2, Kinds DEF CollectInv, TypeOK
  <2>4. data \in BOOLEAN /\ (data /\ x \in Collectors => collection[x] = "data")
      OBVIOUS
  <2> HIDE DEF data
  <2>5. /\ ThreadInv' /\ call' = NoCall
        /\ verdict' \in [Calls -> {"none", "timeout"} \cup Returns]
        /\ UNCHANGED <<thread, tracing, collection>>
        /\ verdict[<<"results", x>>] = "none"
        /\ verdict'[<<"results", x>>] = v
        /\ \A p \in Ops, b \in Everyone:
             p # "results" \/ b # x => verdict'[<<p, b>>] = verdict[<<p, b>>]
        /\ \A b \in Everyone: Refused(b) => Refused(b)'
      BY <1>2, <2>2, <2>3, EndOf DEF ThreadInv, Ops
  <2>6. TypeOK'
    <3>1. <<x, data>> \in Everyone \X BOOLEAN
        BY <2>3, <2>4
    <3>2. results' \subseteq Everyone \X BOOLEAN
        BY <2>3, <3>1 DEF TypeOK
    <3> QED
        BY <1>2, <2>3, <2>5, <3>2 DEF TypeOK
  <2>7. PhaseInv' /\ StopInv' /\ SyncInv'
      BY <1>2, <2>1, <2>5 DEF PhaseInv, StopInv, SyncInv, Over
  <2>8. StartInv'
      BY <1>2, <2>1, <2>3, <2>5, Kinds DEF StartInv, Started, Ops
  <2>9. CollectInv'
    <3>1. Refused(x)' \/ Delivered(x)'
        BY <1>2, <2>3, <2>4, <2>5 DEF Refused, Delivered, Ops
    <3>2. \A b \in Everyone: Delivered(b) => Delivered(b)'
        BY <2>3 DEF Delivered
    <3>3. \A b \in Everyone: b \in todo' \/ Delivered(b)' \/ Refused(b)'
        BY <2>1, <2>3, <2>5, <3>1, <3>2 DEF CollectInv
    <3>4. \A b \in children \cup {Controller}: Stopped(b)'
        BY <2>1, <2>3, <2>5, Kinds DEF CollectInv, Stopped, Ops
    <3>5. \A b \in todo': Fresh("results", b)'
        BY <2>1, <2>3, <2>5, Kinds DEF CollectInv, Fresh, Ops, TypeOK
    <3> QED
        BY <1>2, <2>1, <2>3, <3>3, <3>4, <3>5 DEF CollectInv
  <2>10. ResultsInv'
    <3>1. ASSUME NEW r \in results', NEW p \in Ops
          PROVE  verdict'[<<p, r[1]>>] = "true"
      <4>1. CASE r \in results
        <5>1. verdict[<<p, r[1]>>] = "true" /\ r[1] \in Everyone
            BY <4>1 DEF ResultsInv, TypeOK
        <5> QED
            BY <2>5, <5>1
      <4>2. CASE r \notin results
        <5>1. r[1] = x /\ v = "true"
            BY <1>2, <2>3, <4>2
        <5>2. Started(x) /\ Stopped(x)
            BY <2>1, <2>3 DEF StartInv, CollectInv
        <5> QED
            BY <2>3, <2>5, <5>1, <5>2 DEF Started, Stopped, Ops
      <4> QED
          BY <4>1, <4>2
    <3>2. published' = FALSE /\ pc' # "ended"
        BY <1>2, <2>1 DEF ResultsInv, TypeOK, Over
    <3> QED
        BY <3>1, <3>2 DEF ResultsInv
  <2>11. DataInv'
    <3> SUFFICES ASSUME NEW r \in results', r[2], r[1] \in Collectors
                 PROVE  collection'[r[1]] = "data"
        BY DEF DataInv
    <3>1. CASE r \in results
        BY <2>5, <3>1 DEF DataInv
    <3>2. CASE r = <<x, data>>
        BY <2>4, <2>5, <3>2
    <3> QED
        BY <2>3, <3>1, <3>2
  <2>12. TracesAreSynced'
    <3> SUFFICES ASSUME NEW r \in results', r[1] \in SyncAgents
                 PROVE  r[1] \in (marked \cup unmarked)'
        BY DEF TracesAreSynced
    <3>1. CASE r \in results
        BY <1>2, <3>1 DEF TracesAreSynced
    <3>2. CASE r = <<x, data>>
        BY <1>2, <2>1, <2>3, <3>2, Kinds DEF SyncInv
    <3> QED
        BY <2>3, <3>1, <3>2
  <2> QED
      BY <2>5, <2>6, <2>7, <2>8, <2>9, <2>10, <2>11, <2>12 DEF ThreadInv
<1> QED
    BY <1>1, <1>2 DEF Collected

LEMMA AllCollectedKeeps ==
    ASSUME IInv, AllCollected
    PROVE  IInv'
<1> USE DEF IInv
<1>1. /\ pc = "collect" /\ pc' = "output" /\ todo = {} /\ call = NoCall /\ published' = TRUE
      /\ UNCHANGED <<call, todo, succ, children, inProgress, thread, verdict, tracing,
                     collection, marked, unmarked, results>>
    BY DEF AllCollected
<1>2. TypeOK' /\ ThreadInv' /\ DataInv'
    BY <1>1 DEF TypeOK, ThreadInv, CallInv, PhasesInOrder, TracingInv, DataInv
<1>3. PhaseInv' /\ StopInv' /\ CollectInv' /\ SyncInv' /\ TracesAreSynced'
    BY <1>1 DEF PhaseInv, StopInv, CollectInv, SyncInv, TracesAreSynced, Over
<1>4. StartInv'
    BY <1>1 DEF StartInv, Started
<1>5. ResultsInv'
    BY <1>1 DEF ResultsInv, CollectInv, Delivered, Refused, Over
<1> QED
    BY <1>2, <1>3, <1>4, <1>5 DEF ThreadInv

LEMMA OutputKeeps ==
    ASSUME IInv, OutputSystraceResults
    PROVE  IInv'
<1> USE DEF IInv
<1>1. /\ pc = "output" /\ call = NoCall
      /\ pc' = "aborted" \/ (pc' = "ended" /\ published /\ (WriteJson \/ \A r \in results: r[2]))
      /\ UNCHANGED <<call, todo, succ, children, inProgress, thread, verdict, tracing,
                     collection, marked, unmarked, results, published>>
    BY DEF OutputSystraceResults, PhaseInv
<1>2. TypeOK' /\ ThreadInv' /\ DataInv'
    BY <1>1 DEF TypeOK, Over, ThreadInv, CallInv, PhasesInOrder, TracingInv, DataInv
<1>3. PhaseInv' /\ StopInv' /\ CollectInv' /\ SyncInv' /\ TracesAreSynced'
    BY <1>1 DEF PhaseInv, StopInv, CollectInv, SyncInv, TracesAreSynced, Over
<1>4. StartInv'
    BY <1>1 DEF StartInv, Started
<1>5. ResultsInv'
    BY <1>1 DEF ResultsInv, Delivered, Refused, Over
<1> QED
    BY <1>2, <1>3, <1>4, <1>5 DEF ThreadInv

--------------------------------------------------------------------------------
(* What the threads do leaves what the main thread knows as it was.             *)
LEMMA ThreadsKeep ==
    ASSUME IInv, TypeOK', ThreadInv', DataInv', UNCHANGED mainVars
    PROVE  IInv'
<1>1. PhaseInv' /\ SyncInv' /\ TracesAreSynced'
    BY DEF IInv, mainVars, PhaseInv, SyncInv, TracesAreSynced
<1>2. CollectInv'
    BY DEF IInv, mainVars, CollectInv, Fresh, Stopped, Delivered, Refused
<1>3. StartInv'
    BY DEF IInv, mainVars, StartInv, Fresh, Started, Refused
<1>4. StopInv'
    BY DEF IInv, mainVars, StopInv, Fresh, Stopped, Refused
<1>5. ResultsInv'
    BY DEF IInv, mainVars, ResultsInv, Delivered, Refused
<1> QED
    BY <1>1, <1>2, <1>3, <1>4, <1>5 DEF IInv, ThreadInv

LEMMA StepInv == IInv /\ [Next]_vars => IInv'
<1> SUFFICES ASSUME IInv, [Next]_vars PROVE IInv'
    OBVIOUS
<1>1. CASE Main
    BY <1>1, StartTracingKeeps, ControllerStartedKeeps, StartChildKeeps, ChildStartedKeeps,
        AllStartedKeeps, StopTracingKeeps, AllMarkedKeeps, StopChildKeeps, ChildStoppedKeeps,
        StopControllerKeeps, ControllerStoppedKeeps, CollectKeeps, CollectedKeeps,
        AllCollectedKeeps, OutputKeeps DEF Main
<1>2. CASE Marking
    BY <1>2, MarkingKeeps
<1>3. CASE \E a \in Everyone: StartBody(a) \/ StopBody(a) \/ ResultsBody(a)
    BY <1>3, StartBodyKeeps, StopBodyKeeps, ResultsBodyKeeps, ThreadsKeep
<1>4. CASE \E a \in Agents: Collection(a)
    BY <1>4, CollectionKeeps, ThreadsKeep
<1>5. CASE UNCHANGED vars
  <2>1. TypeOK' /\ ThreadInv' /\ DataInv' /\ UNCHANGED mainVars
      BY <1>5 DEF IInv, vars, mainVars, TypeOK, ThreadInv, CallInv, PhasesInOrder, TracingInv,
          DataInv
  <2> QED
      BY <2>1, ThreadsKeep
<1> QED
    BY <1>1, <1>2, <1>3, <1>4, <1>5 DEF Next

LEMMA Invariance == Spec => []IInv
BY InitInv, StepInv, PTL DEF Spec

(* Every state of a session is well-typed, for any number of agents.            *)
THEOREM TypeCorrect == Spec => []TypeOK
<1>1. IInv => TypeOK
    BY DEF IInv
<1> QED
    BY Invariance, <1>1, PTL

(* No agent is stopped, or asked for its results, while an abandoned thread is  *)
(* still at work on the call before.                                            *)
THEOREM OrderOfPhases == Spec => []PhasesInOrder
<1>1. IInv => PhasesInOrder
    BY DEF IInv
<1> QED
    BY Invariance, <1>1, PTL

(* Every collected trace of an agent with clock sync has its marker, unless the *)
(* echo that writes it failed on the device.                                    *)
THEOREM SyncedTraces == Spec => []TracesAreSynced
<1>1. IInv => TracesAreSynced
    BY DEF IInv
<1> QED
    BY Invariance, <1>1, PTL

(* With the HTML output, which takes no result without data, a session that     *)
(* ends well has the data of every agent of which no call timed out or returned *)
(* False, and of no agent of which a call did.                                  *)
THEOREM NothingLost ==
    ASSUME ~WriteJson
    PROVE  Spec => []NothingSilentlyLost
<1>1. IInv => NothingSilentlyLost
  <2> SUFFICES ASSUME IInv, pc = "ended", NEW a \in Everyone
               PROVE  /\ <<a, TRUE>> \in results \/ Refused(a)
                      /\ <<a, TRUE>> \in results =>
                            \A op \in Ops: verdict[<<op, a>>] = "true"
      BY DEF NothingSilentlyLost, Refused
  <2>1. Delivered(a) \/ Refused(a)
      BY DEF IInv, ResultsInv
  <2>2. \A r \in results: r[2]
      BY DEF IInv, ResultsInv
  <2>3. <<a, FALSE>> \notin results
      BY <2>2
  <2>4. Delivered(a) => <<a, TRUE>> \in results
      BY <2>3 DEF Delivered
  <2> QED
      BY <2>1, <2>4 DEF IInv, ResultsInv
<1> QED
    BY Invariance, <1>1, PTL

(* With the HTML output a session that ends well leaves no target tracing but   *)
(* one of whose agent a call timed out or returned False.                       *)
THEOREM OrphansAreRefusals ==
    ASSUME ~WriteJson
    PROVE  Spec => []OrphansOnlyFromRefusals
<1>1. IInv => OrphansOnlyFromRefusals
  <2> SUFFICES ASSUME IInv, pc = "ended", NEW a \in tracing, ~Refused(a)
               PROVE  FALSE
      BY DEF OrphansOnlyFromRefusals, Refused
  <2>1. a \in Everyone
      BY DEF IInv, TypeOK
  <2>2. PICK data \in BOOLEAN: <<a, data>> \in results
      BY <2>1 DEF IInv, ResultsInv, Delivered
  <2>3. data
      BY <2>2 DEF IInv, ResultsInv
  <2>4. thread[<<"stop", a>>] = "true"
    <3>1. verdict[<<"stop", a>>] = "true"
        BY <2>2 DEF IInv, ResultsInv, Ops
    <3> QED
        BY <2>1, <3>1 DEF IInv, CallInv, Calls, Ops
  <2>5. a \in Collectors
      BY <2>1, <2>4 DEF IInv, TracingInv
  <2>6. collection[a] = "data"
      BY <2>2, <2>3, <2>5 DEF IInv, DataInv
  <2> QED
      BY <2>5, <2>6, Kinds DEF IInv, TracingInv
<1> QED
    BY Invariance, <1>1, PTL

(* Whatever the output, JSON too: a session that ends well has a result, be it  *)
(* without data, of every agent of which no call timed out or returned False.   *)
THEOREM ResultOrRefusal ==
    Spec => [](pc = "ended" => \A a \in Everyone: Delivered(a) \/ Refused(a))
<1>1. IInv => (pc = "ended" => \A a \in Everyone: Delivered(a) \/ Refused(a))
    BY DEF IInv, ResultsInv
<1> QED
    BY Invariance, <1>1, PTL
================================================================================
