------------------------------ MODULE TimeoutRetry ------------------------------
(* devil.utils.timeout_retry.Run: a function is run on a daemon thread of its   *)
(* own; the calling thread joins it in slices of 0.1 s, JoinAll by JoinAll of   *)
(* 60 s, until it ends, the watchdog of the try expires or a signal handler     *)
(* raises in the calling thread.  Nothing stops the thread of a try that Run    *)
(* gave up: it keeps running, also beside the next try.                         *)
(*                                                                              *)
(* One tick of the clocks is one 0.1 s slice.  The clocks also move while the   *)
(* calling thread is not joining (it may be descheduled anywhere).              *)
EXTENDS Naturals, FiniteSets

CONSTANTS
    Timeout,        \* the `timeout` of each try in ticks; 0 disables the watchdog
    Retries,        \* the `retries` argument
    JoinPeriod,     \* the timeout=60 of each JoinAll, in ticks
    RetryIf         \* the errors e with retry_if_func(e)

TimeoutError  == "TimeoutError"     \* reraiser_thread.TimeoutError
Failure       == "Exception"        \* any other Exception
Exit          == "BaseException"    \* SystemExit, KeyboardInterrupt

Errors == {TimeoutError, Failure, Exit}

ASSUME TimeoutAssumption    == Timeout \in Nat
ASSUME RetriesAssumption    == Retries \in Nat
ASSUME JoinPeriodAssumption == JoinPeriod \in Nat \ {0}
ASSUME RetryIfAssumption    == RetryIf \subseteq Errors

Attempts == 1..(Retries + 1)

VARIABLES
    pc,             \* where the calling thread is inside Run
    num_try,        \* the try in progress
    thread,         \* per try: its ReraiserThread, or what its function ended with
    joined,         \* alive_threads is empty
    elapsed,        \* ticks since the WatchdogTimer of the try was created
    waited,         \* ticks since the current JoinAll began
    cause,          \* per try: the exception that ended it for Run (history)
    raiser,         \* per try: what raised that exception (history)
    slices          \* joins of the current try that returned with it alive (history)

vars == <<pc, num_try, thread, joined, elapsed, waited, cause, raiser, slices>>

Watched  == Timeout # 0
Done     == {"returned", "raised"}
Ends     == {"value"} \cup Errors
Raisers  == {"thread", "watchdog", "dump", "signal"}

TypeOK ==
    /\ pc \in {"start", "loop", "join", "dump", "reraise", "check"} \cup Done
    /\ num_try \in Attempts
    /\ thread \in [Attempts -> {"none", "alive"} \cup Ends]
    /\ joined \in BOOLEAN
    /\ elapsed \in 0..(Timeout + 1)
    /\ waited \in 0..JoinPeriod
    /\ cause \in [Attempts -> {"none"} \cup Errors]
    /\ raiser \in [Attempts -> {"none"} \cup Raisers]
    /\ slices \in Nat

Init ==
    /\ pc = "start"
    /\ num_try = 1
    /\ thread = [a \in Attempts |-> "none"]
    /\ joined = FALSE
    /\ elapsed = 0
    /\ waited = 0
    /\ cause = [a \in Attempts |-> "none"]
    /\ raiser = [a \in Attempts |-> "none"]
    /\ slices = 0

--------------------------------------------------------------------------------
(* The clocks.  Both saturate: only "past the timeout" and "past the period"    *)
(* are ever tested.                                                             *)

Later(clock, limit) == IF clock < limit THEN clock + 1 ELSE clock

Advance ==
    /\ elapsed' = IF Watched THEN Later(elapsed, Timeout + 1) ELSE 0
    /\ waited' = Later(waited, JoinPeriod)

IsTimedOut == Watched /\ elapsed > Timeout

--------------------------------------------------------------------------------
(* The calling thread.                                                          *)

(* Mutants of Handle: KeyboardInterrupt is retried too; the last try is not made; *)
(* tries are not counted.                                                        *)
HandleBareExcept(e, by) ==
    /\ cause' = [cause EXCEPT ![num_try] = e]
    /\ raiser' = [raiser EXCEPT ![num_try] = by]
    /\ IF num_try > Retries \/ e \notin RetryIf
       THEN pc' = "raised" /\ UNCHANGED num_try
       ELSE pc' = "start" /\ num_try' = num_try + 1

HandleGivesUpEarly(e, by) ==
    /\ cause' = [cause EXCEPT ![num_try] = e]
    /\ raiser' = [raiser EXCEPT ![num_try] = by]
    /\ IF e = Exit \/ num_try >= Retries \/ e \notin RetryIf
       THEN pc' = "raised" /\ UNCHANGED num_try
       ELSE pc' = "start" /\ num_try' = num_try + 1

HandleUncounted(e, by) ==
    /\ cause' = [cause EXCEPT ![num_try] = e]
    /\ raiser' = [raiser EXCEPT ![num_try] = by]
    /\ pc' = IF e = Exit \/ num_try > Retries \/ e \notin RetryIf THEN "raised" ELSE "start"
    /\ UNCHANGED num_try

(* The except clauses of Run and the increment after them: e was raised by the  *)
(* thread of the try, the watchdog, the stack dump or a signal handler.         *)
Handle(e, by) ==
    /\ cause' = [cause EXCEPT ![num_try] = e]
    /\ raiser' = [raiser EXCEPT ![num_try] = by]
    /\ IF e = Exit \/ num_try > Retries \/ e \notin RetryIf
       THEN pc' = "raised" /\ UNCHANGED num_try
       ELSE pc' = "start" /\ num_try' = num_try + 1

Start ==
    /\ pc = "start"
    /\ thread' = [thread EXCEPT ![num_try] = "alive"]
    /\ joined' = FALSE
    /\ elapsed' = 0
    /\ waited' = 0
    /\ slices' = 0
    /\ pc' = "loop"
    /\ UNCHANGED <<num_try, cause, raiser>>

(* The head of the while of _JoinAll and the watchdog test before each join.    *)
(* JoinAll dumps the stack of a thread that is alive when the watchdog expires. *)
Watch ==
    /\ pc = "loop"
    /\ IF joined \/ waited >= JoinPeriod
       THEN pc' = "reraise" /\ UNCHANGED <<num_try, cause, raiser>>
       ELSE IF IsTimedOut
            THEN IF thread[num_try] = "alive"
                 THEN pc' = "dump" /\ UNCHANGED <<num_try, cause, raiser>>
                 ELSE Handle(TimeoutError, "watchdog")
            ELSE pc' = "join" /\ UNCHANGED <<num_try, cause, raiser>>
    /\ UNCHANGED <<thread, joined, elapsed, waited, slices>>

(* LogThreadStack, and then `raise`.  If the thread has ended since it was found *)
(* alive there may be no frame of it, and a KeyError replaces the TimeoutError. *)
Dump ==
    /\ pc = "dump"
    /\ \/ Handle(TimeoutError, "watchdog")
       \/ thread[num_try] # "alive" /\ Handle(Failure, "dump")
    /\ UNCHANGED <<thread, joined, elapsed, waited, slices>>

JoinEnds ==
    /\ pc = "join"
    /\ thread[num_try] # "alive"
    /\ joined' = TRUE
    /\ pc' = "loop"
    /\ UNCHANGED <<num_try, thread, elapsed, waited, cause, raiser, slices>>

JoinExpires ==
    /\ pc = "join"
    /\ thread[num_try] = "alive"
    /\ Advance
    /\ slices' = IF Watched THEN slices + 1 ELSE 0
    /\ pc' = "loop"
    /\ UNCHANGED <<num_try, thread, joined, cause, raiser>>

(* ReraiseIfException, after the loop of _JoinAll. *)
Reraise ==
    /\ pc = "reraise"
    /\ IF thread[num_try] \in Errors
       THEN Handle(thread[num_try], "thread")
       ELSE pc' = "check" /\ UNCHANGED <<num_try, cause, raiser>>
    /\ UNCHANGED <<thread, joined, elapsed, waited, slices>>

(* Mutants of Check: the end of a JoinAll taken for a failure of the try; the     *)
(* value of any try returned; the watchdog started anew with each JoinAll.        *)
CheckGivesUp ==
    /\ pc = "check"
    /\ \/ /\ thread[num_try] = "alive"
          /\ Handle(Failure, "thread")
          /\ UNCHANGED <<waited, elapsed>>
       \/ /\ thread[num_try] \in Errors
          /\ Handle(thread[num_try], "thread")
          /\ UNCHANGED <<waited, elapsed>>
       \/ /\ thread[num_try] = "value"
          /\ pc' = "returned"
          /\ UNCHANGED <<num_try, waited, elapsed, cause, raiser>>
    /\ UNCHANGED <<thread, joined, slices>>

CheckAnyTry ==
    /\ pc = "check"
    /\ \/ /\ thread[num_try] = "alive"
          /\ pc' = "loop"
          /\ waited' = 0
          /\ UNCHANGED <<num_try, elapsed, cause, raiser>>
       \/ /\ thread[num_try] \in Errors
          /\ Handle(thread[num_try], "thread")
          /\ UNCHANGED <<waited, elapsed>>
       \/ /\ \E a \in Attempts: thread[a] = "value"
          /\ pc' = "returned"
          /\ UNCHANGED <<num_try, waited, elapsed, cause, raiser>>
    /\ UNCHANGED <<thread, joined, slices>>

CheckResetsWatchdog ==
    /\ pc = "check"
    /\ \/ /\ thread[num_try] = "alive"
          /\ pc' = "loop"
          /\ waited' = 0
          /\ elapsed' = 0
          /\ UNCHANGED <<num_try, cause, raiser>>
       \/ /\ thread[num_try] \in Errors
          /\ Handle(thread[num_try], "thread")
          /\ UNCHANGED <<waited, elapsed>>
       \/ /\ thread[num_try] = "value"
          /\ pc' = "returned"
          /\ UNCHANGED <<num_try, waited, elapsed, cause, raiser>>
    /\ UNCHANGED <<thread, joined, slices>>

(* IsAlive: back to another JoinAll, or the value or exception of the thread. *)
Check ==
    /\ pc = "check"
    /\ \/ /\ thread[num_try] = "alive"
          /\ pc' = "loop"
          /\ waited' = 0
          /\ UNCHANGED <<num_try, cause, raiser>>
       \/ /\ thread[num_try] \in Errors
          /\ Handle(thread[num_try], "thread")
          /\ UNCHANGED waited
       \/ /\ thread[num_try] = "value"
          /\ pc' = "returned"
          /\ UNCHANGED <<num_try, waited, cause, raiser>>
    /\ UNCHANGED <<thread, joined, elapsed, slices>>

Caller == Start \/ Watch \/ Dump \/ JoinEnds \/ JoinExpires \/ Reraise \/ Check

--------------------------------------------------------------------------------
(* Around it: the threads of the tries, and time.                               *)

(* The function of try a returns or raises.  This may be a try abandoned long   *)
(* before, or happen after Run has ended.                                       *)
ThreadEnds(a) ==
    /\ thread[a] = "alive"
    /\ \E end \in Ends: thread' = [thread EXCEPT ![a] = end]
    /\ UNCHANGED <<pc, num_try, joined, elapsed, waited, cause, raiser, slices>>

(* "Allow the main thread to periodically check for interrupts": the handler of  *)
(* a signal raises in the calling thread, KeyboardInterrupt or any other        *)
(* exception, wherever it is.  Outside of the try statement nothing catches it. *)
Interrupt(e) ==
    /\ pc \notin Done
    /\ pc = "start" => e = Exit
    /\ Handle(e, "signal")
    /\ UNCHANGED <<thread, joined, elapsed, waited, slices>>

(* Time passes.  Outside its joins the calling thread is never held up until    *)
(* the end of a JoinAll period (60 s): a JoinAll held up so long right at its   *)
(* start would skip the watchdog.                                               *)
Tick ==
    /\ pc \notin Done
    /\ pc = "join" \/ waited + 1 < JoinPeriod
    /\ Advance
    /\ UNCHANGED <<pc, num_try, thread, joined, cause, raiser, slices>>

Next ==
    \/ Caller \/ Tick
    \/ \E a \in Attempts: ThreadEnds(a)
    \/ \E e \in {Failure, Exit}: Interrupt(e)

(* The calling thread is scheduled; a function may hang, so its end is not fair. *)
Spec == Init /\ [][Next]_vars /\ WF_vars(Caller)

--------------------------------------------------------------------------------
(* Every try before the current one was given up for a retryable exception that *)
(* Run really caught from it, and no later try has begun: retries never skip,   *)
(* repeat or anticipate a try.                                                  *)
TriesInOrder ==
    \A a \in Attempts:
        /\ a < num_try => cause[a] \in RetryIf \ {Exit} /\ thread[a] # "none"
        /\ a > num_try => cause[a] = "none" /\ thread[a] = "none"

(* A function is left running, or its value lost, only by the watchdog, by a    *)
(* signal, or when it returned while its stack was dumped: the exact extent to  *)
(* which tries overlap.                                                         *)
OnlyOutsidersAbandon ==
    \A a \in Attempts:
        cause[a] # "none" =>
            /\ thread[a] = "alive" => raiser[a] \in {"watchdog", "signal"}
            /\ thread[a] = "value" => raiser[a] # "thread"

(* Run returns only what the last try computed.  It raises only what that try    *)
(* raised, the timeout, the exception of a signal handler, or an error of the   *)
(* stack dump of a try that ended meanwhile: never what a late, abandoned try   *)
(* ended with.  And it gives up only when no further try is allowed.            *)
OutcomeOfLastTry ==
    /\ pc = "returned" => thread[num_try] = "value" /\ cause[num_try] = "none"
    /\ pc = "raised" =>
        /\ CASE raiser[num_try] = "thread"   -> cause[num_try] = thread[num_try]
             [] raiser[num_try] = "watchdog" -> cause[num_try] = TimeoutError
             [] raiser[num_try] = "dump"     -> thread[num_try] \in Ends
             [] OTHER                        -> raiser[num_try] = "signal"
        /\ cause[num_try] \in RetryIf \ {Exit} => num_try = Retries + 1

(* A try blocks its caller for at most Timeout + 1 slices, however the caller   *)
(* is scheduled and in however many JoinAll calls the wait is cut.              *)
BoundedWait == Watched => slices <= Timeout + 1

(* With a timeout, Run ends even if every try hangs. *)
RunEnds == <>(pc \in Done)

--------------------------------------------------------------------------------
Outcome ==
    CASE pc = "returned" -> "value"
      [] pc = "raised"   -> cause[num_try]
      [] OTHER           -> "pending"

Abstract == INSTANCE RetriedCall WITH
    Retryable <- RetryIf \ {Exit},
    tries <- num_try,
    outcome <- Outcome

(* Run implements the retried call: threads, joins and clocks are invisible. *)
ImplementsRetriedCall == Abstract!Spec
================================================================================
