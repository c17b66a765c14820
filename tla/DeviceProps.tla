------------------------------ MODULE DeviceProps ------------------------------
(* devil.android.device_utils: a property of the device, and the cache of       *)
(* properties that GetProp(cache=True) answers from: read with all others when  *)
(* the cache is initialised, under _cache_lock; read alone by                   *)
(* GetProp(cache=False); dropped by SetProp; and cleared by Reboot.  All three  *)
(* are retried calls: a try that times out goes on as the "late" thread, reads  *)
(* the property or sets it late, and stores what it read later still.           *)
EXTENDS Naturals

CONSTANTS
    Values,         \* values of the property
    Empty,          \* what getprop says of a property that is not set
    PropRetries,    \* retries of a call
    MaxPropEvents   \* bound on calls that change the property, reboots, timeouts,
                    \* failures and changes by others

ASSUME PropsAssumption == Empty \notin Values /\ PropRetries \in Nat /\ MaxPropEvents \in Nat

VARIABLES
    prop,           \* the property, on the device
    rebooting,      \* the device was told to reboot, and is about to
    hasToken,       \* _cache['token'] is set: the cache is initialised
    props,          \* what _cache['getprop'] answers, which is Empty without an entry
    calls,          \* per thread: the call it makes
    attempt,        \* number of the try the live thread makes
    propEvents,
    source          \* where that answer comes from: it was "read", and the property has
                    \* not been changed since by anything but calls of the live thread
                    \* that ended well; it was "dropped"; or it is in "doubt" (history)

propsVars == <<prop, rebooting, hasToken, props, calls, attempt, propEvents, source>>

PropThreads == {"live", "late"}

(* "fresh" tells whether the property is still what the thread got (history). *)
PropCalls ==
    [op : {"none", "init", "get", "set", "reboot"},
     pc : {"idle", "init", "query", "fill", "token", "read", "store", "set", "drop",
           "reboot", "clear", "wait"},
     value : Values \cup {Empty}, check : BOOLEAN, got : Values \cup {Empty}, fresh : BOOLEAN]

Resting == [op |-> "none", pc |-> "idle", value |-> Empty, check |-> FALSE,
            got |-> Empty, fresh |-> FALSE]

PropsTypeOK ==
    /\ prop \in Values \cup {Empty} /\ props \in Values \cup {Empty}
    /\ rebooting \in BOOLEAN /\ hasToken \in BOOLEAN
    /\ calls \in [PropThreads -> PropCalls]
    /\ attempt \in 1..(PropRetries + 1) /\ propEvents \in 0..MaxPropEvents
    /\ source \in {"read", "dropped", "doubt"}

PropsInit ==
    /\ prop \in Values \cup {Empty} /\ rebooting = FALSE
    /\ hasToken = FALSE /\ props = Empty
    /\ calls = [t \in PropThreads |-> Resting]
    /\ attempt = 1 /\ propEvents = 0
    /\ source = "dropped"

Unused == calls["live"] = Resting

--------------------------------------------------------------------------------
(* Calls, and how they end.                                                     *)

First(op) == IF op = "get" THEN "read" ELSE IF op = "none" THEN "idle" ELSE op

BeginProp(c) ==
    /\ Unused
    /\ calls' = [calls EXCEPT !["live"] = [c EXCEPT !.pc = First(c.op)]]
    /\ attempt' = 1
    /\ UNCHANGED <<prop, rebooting, hasToken, props, source>>

GetProp(cache)    == BeginProp([Resting EXCEPT !.op = IF cache THEN "init" ELSE "get"])
SetProp(v, check) == BeginProp([Resting EXCEPT !.op = "set", !.value = v, !.check = check])
RebootProps       == BeginProp([Resting EXCEPT !.op = "reboot"])

GoOn(t, c) == calls' = [calls EXCEPT ![t] = c] /\ UNCHANGED attempt

Done(t) ==
    /\ calls' = [calls EXCEPT ![t] = Resting]
    /\ attempt' = IF t = "live" THEN 1 ELSE attempt

AgainProp(c) ==
    IF attempt > PropRetries THEN Resting
    ELSE [Resting EXCEPT !.op = c.op, !.pc = First(c.op), !.value = c.value, !.check = c.check]

NextPropTry == IF attempt > PropRetries THEN 1 ELSE attempt + 1

(* A call that was to change the property, and did not end well. *)
Doubted(c) == IF c.op \in {"set", "reboot"} THEN "doubt" ELSE source

Fails(t, threads) ==
    /\ calls' = [threads EXCEPT ![t] = IF t = "live" THEN AgainProp(@) ELSE Resting]
    /\ attempt' = IF t = "live" THEN NextPropTry ELSE attempt

PropTimeOut ==
    /\ ~Unused /\ calls["late"] = Resting
    /\ calls' = [live |-> AgainProp(calls["live"]), late |-> calls["live"]]
    /\ attempt' = NextPropTry
    /\ source' = Doubted(calls["live"])
    /\ UNCHANGED <<prop, rebooting, hasToken, props>>

(* The property changes: what any thread has got is no longer it. *)
Aged == [t \in PropThreads |-> [calls[t] EXCEPT !.fresh = FALSE]]

--------------------------------------------------------------------------------
(* GetProp.                                                                     *)

LockIsFree == \A t \in PropThreads : calls[t].pc \notin {"query", "fill", "token"}

EnsureCacheInitialized(t) ==
    /\ calls[t].pc = "init"
    /\ \/ hasToken /\ Done(t)
       \/ ~hasToken /\ LockIsFree /\ GoOn(t, [calls[t] EXCEPT !.pc = "query"])
    /\ UNCHANGED <<prop, rebooting, hasToken, props, source>>

Read(t) ==
    /\ calls[t].pc \in {"query", "read"}
    /\ GoOn(t, [calls[t] EXCEPT !.pc = IF @ = "query" THEN "fill" ELSE "store",
                               !.got = prop, !.fresh = TRUE])
    /\ UNCHANGED <<prop, rebooting, hasToken, props, source>>

(* What a late thread stores when the device is about to reboot, and Reboot is  *)
(* waiting for that, is in doubt too.                                           *)
Awaited == rebooting /\ calls["live"].pc \in {"clear", "wait"}

Store(t) ==
    /\ props' = calls[t].got
    /\ source' = IF calls[t].fresh /\ ~Awaited THEN "read" ELSE "doubt"

Fill(t) ==
    /\ calls[t].pc = "fill"
    /\ Store(t)
    /\ GoOn(t, [calls[t] EXCEPT !.pc = "token"])
    /\ UNCHANGED <<prop, rebooting, hasToken>>

(* The token goes into the cache of now, be it one that was cleared meanwhile. *)
SetToken(t) ==
    /\ calls[t].pc = "token"
    /\ hasToken' = TRUE
    /\ Done(t)
    /\ UNCHANGED <<prop, rebooting, props, source>>

(* GetProp(cache=False), on its own or as the check of SetProp. *)
StoreProp(t) ==
    /\ calls[t].pc = "store"
    /\ Store(t)
    /\ IF calls[t].op = "set" /\ calls[t].got # calls[t].value THEN Fails(t, calls) ELSE Done(t)
    /\ UNCHANGED <<prop, rebooting, hasToken>>

--------------------------------------------------------------------------------
(* SetProp and Reboot.                                                          *)

(* setprop, which succeeds without effect when it is not allowed to. *)
Set(t) ==
    LET c == calls[t] IN
    /\ c.pc = "set"
    /\ prop' \in {prop, c.value}
    /\ calls' = [(IF prop' = prop THEN calls ELSE Aged) EXCEPT ![t] = [@ EXCEPT !.pc = "drop"]]
    /\ UNCHANGED attempt
    /\ source' = IF t = "late" /\ prop' # prop THEN "doubt" ELSE source
    /\ UNCHANGED <<rebooting, hasToken, props>>

(* Mutant of Dropped: SetProp leaves the property in the cache. *)
KeptAnyway == UNCHANGED <<props, source>>

Dropped == props' = Empty /\ source' = "dropped"

Drop(t) ==
    /\ calls[t].pc = "drop"
    /\ Dropped
    /\ IF calls[t].check THEN GoOn(t, [calls[t] EXCEPT !.pc = "read"]) ELSE Done(t)
    /\ UNCHANGED <<prop, rebooting, hasToken>>

StartPropReboot(t) ==
    /\ calls[t].pc = "reboot"
    /\ rebooting' = TRUE
    /\ GoOn(t, [calls[t] EXCEPT !.pc = "clear"])
    /\ UNCHANGED <<prop, hasToken, props, source>>

ClearProps(t) ==
    /\ calls[t].pc = "clear"
    /\ hasToken' = FALSE /\ Dropped
    /\ GoOn(t, [calls[t] EXCEPT !.pc = "wait"])
    /\ UNCHANGED <<prop, rebooting>>

DeviceReboots ==
    /\ rebooting
    /\ rebooting' = FALSE /\ prop' = Empty
    /\ calls' = Aged
    /\ source' = IF calls["live"].pc \in {"clear", "wait"} THEN source ELSE "doubt"
    /\ UNCHANGED <<hasToken, props, attempt>>

Rebooted(t) ==
    /\ calls[t].pc = "wait" /\ ~rebooting
    /\ Done(t)
    /\ UNCHANGED <<prop, rebooting, hasToken, props, source>>

(* A command fails, or fails in spite of having been carried out. *)
PropCommandFails(t) ==
    LET c == calls[t] IN
    /\ c.pc \in {"query", "read", "set", "reboot", "wait"}
    /\ rebooting' \in {rebooting, rebooting \/ c.pc = "reboot"}
    /\ Fails(t, calls)
    /\ source' = IF t = "live" THEN Doubted(c) ELSE source
    /\ UNCHANGED <<prop, hasToken, props>>

SetFails(t) ==
    /\ calls[t].pc = "set"
    /\ prop' = calls[t].value
    /\ Fails(t, Aged)
    /\ source' = "doubt"
    /\ UNCHANGED <<rebooting, hasToken, props>>

(* By hand, by another process or by the device itself. *)
OtherSetProp ==
    /\ prop' \in (Values \cup {Empty}) \ {prop}
    /\ calls' = Aged
    /\ source' = "doubt"
    /\ UNCHANGED <<rebooting, hasToken, props, attempt>>

PropStep(t) ==
    \/ EnsureCacheInitialized(t) \/ Read(t) \/ Fill(t) \/ SetToken(t) \/ StoreProp(t)
    \/ Set(t) \/ Drop(t) \/ StartPropReboot(t) \/ ClearProps(t) \/ Rebooted(t)

PropsNext ==
    \/ /\ \/ DeviceReboots
          \/ \E cache \in BOOLEAN : GetProp(cache)
          \/ \E t \in PropThreads : PropStep(t)
       /\ UNCHANGED propEvents
    \/ /\ \/ RebootProps \/ PropTimeOut \/ OtherSetProp
          \/ \E v \in Values, check \in BOOLEAN : SetProp(v, check)
          \/ \E t \in PropThreads : PropCommandFails(t) \/ SetFails(t)
       /\ propEvents < MaxPropEvents /\ propEvents' = propEvents + 1

PropsSpec == PropsInit /\ [][PropsNext]_propsVars

--------------------------------------------------------------------------------
(* Between calls of an initialised session, what GetProp(cache=True) would      *)
(* answer is the property, though it was set and the device rebooted, by tries  *)
(* of which some are late, since it was first read; or it is that the property  *)
(* is empty, since SetProp dropped it.  Excepted is what is in doubt: a value   *)
(* read before another program, the device or a late thread changed the         *)
(* property; and one that a SetProp or Reboot, which then failed or timed out,  *)
(* may have changed.                                                            *)
PropAnswersAgree ==
    Unused /\ hasToken =>
        /\ source = "read" => props = prop
        /\ source = "dropped" => props = Empty
================================================================================
