------------------------------ MODULE RetriedCall ------------------------------
(* What timeout_retry.Run promises its caller, with the threads, the watchdog   *)
(* and the polling joins hidden: the function is tried at most Retries + 1      *)
(* times, and the call ends with a value or with the error of a try that may    *)
(* not, or may no longer, be retried.                                           *)
EXTENDS Naturals

CONSTANTS
    Retries,        \* the `retries` argument
    Errors,         \* classes of exception a try can end with
    Retryable       \* those for which the call tries again

VARIABLES
    tries,          \* tries begun so far
    outcome         \* "pending", "value", or the error raised to the caller

vars == <<tries, outcome>>

TypeOK ==
    /\ tries \in 1..(Retries + 1)
    /\ outcome \in {"pending", "value"} \cup Errors

Init ==
    /\ tries = 1
    /\ outcome = "pending"

Return ==
    /\ outcome = "pending"
    /\ outcome' = "value"
    /\ UNCHANGED tries

Retry ==
    /\ outcome = "pending"
    /\ tries <= Retries
    /\ tries' = tries + 1
    /\ UNCHANGED outcome

Raise(e) ==
    /\ outcome = "pending"
    /\ e \in Retryable => tries > Retries
    /\ outcome' = e
    /\ UNCHANGED tries

Next == Return \/ Retry \/ \E e \in Errors: Raise(e)

Spec == Init /\ [][Next]_vars /\ WF_vars(Next)
================================================================================
