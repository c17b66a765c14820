------------------------------- MODULE AutoClick -------------------------------
(* AutoClickAccessibilityService of code/AccessibilityServiceDemo: while it is  *)
(* switched on, a runnable on the main looper performs a click and posts itself *)
(* again after clickInterval.  All callbacks run on the main thread; what can   *)
(* go wrong is which runnables are in the queue.                                *)
EXTENDS Naturals, Functions

CONSTANTS
    MaxInterval,    \* clickInterval is in 1..MaxInterval, in ticks
    MaxPosts        \* bound on the runnables in the queue

ASSUME ClickAssumption == MaxInterval \in Nat \ {0} /\ MaxPosts \in Nat \ {0}

Delays == 0..MaxInterval

VARIABLES
    connected,      \* onServiceConnected was called
    isAutoClicking,
    onScreen,       \* clickX >= 0 and clickY >= 0
    clickInterval,
    queue,          \* how many of the posted runnables have each delay left
    sinceClick,     \* ticks since the last click, at most MaxInterval (history)
    gap,            \* clickInterval at the last click (history)
    spaced,         \* every click so far came that much after the one before (history)
    restarted,      \* ever started with a runnable still in the queue (history)
    wentOff         \* the position was off the screen since the last start (history)

settings  == <<connected, isAutoClicking, onScreen, clickInterval>>
clicks    == <<sinceClick, gap, spaced>>
clickVars == <<settings, queue, clicks, restarted, wentOff>>

ClickTypeOK ==
    /\ {connected, isAutoClicking, onScreen, spaced, restarted, wentOff} \subseteq BOOLEAN
    /\ clickInterval \in 1..MaxInterval
    /\ queue \in [Delays -> Nat]
    /\ sinceClick \in Delays
    /\ gap \in Delays

Nothing == [d \in Delays |-> 0]

(* clickX = clickY = -1 *)
ClickInit ==
    /\ connected = FALSE
    /\ isAutoClicking = FALSE
    /\ onScreen = FALSE
    /\ clickInterval \in 1..MaxInterval
    /\ queue = Nothing
    /\ sinceClick = MaxInterval
    /\ gap = 0
    /\ spaced = TRUE
    /\ restarted = FALSE
    /\ wentOff = FALSE

Posted == FoldFunction(+, 0, queue)

Post(delay) == [queue EXCEPT ![delay] = @ + 1]

(* Mutant of startAutoClick: posts only the first time. *)
startAutoClickOnce ==
    /\ Posted < MaxPosts
    /\ isAutoClicking' = TRUE
    /\ queue' = IF connected THEN queue ELSE Post(0)
    /\ restarted' = (restarted \/ queue # Nothing)
    /\ UNCHANGED <<clickInterval, clicks>>

startAutoClick ==
    /\ Posted < MaxPosts
    /\ isAutoClicking' = TRUE
    /\ queue' = Post(0)
    /\ restarted' = (restarted \/ queue # Nothing)
    /\ UNCHANGED <<clickInterval, clicks>>

(* Called by the system, again after every reconnection; brings the click       *)
(* position onto the screen. *)
onServiceConnected ==
    /\ startAutoClick
    /\ connected' = TRUE
    /\ onScreen' = TRUE
    /\ wentOff' = FALSE

(* removeCallbacks(null) removes nothing: the runnables stay in the queue. *)
stopAutoClick ==
    /\ connected
    /\ isAutoClicking' = FALSE
    /\ UNCHANGED <<connected, onScreen, clickInterval, queue, clicks, restarted, wentOff>>

onInterrupt == stopAutoClick

setClickPosition ==
    /\ onScreen' \in BOOLEAN
    /\ wentOff' = (wentOff \/ ~onScreen')
    /\ UNCHANGED <<connected, isAutoClicking, clickInterval, queue, clicks, restarted>>

setClickInterval ==
    /\ clickInterval' \in 1..MaxInterval
    /\ UNCHANGED <<connected, isAutoClicking, onScreen, queue, clicks, restarted, wentOff>>

(* Mutants of autoClickRunnable: no test of the switch; post instead of           *)
(* postDelayed.                                                                   *)
runUnswitched ==
    /\ queue[0] > 0
    /\ IF onScreen
       THEN /\ queue' = [queue EXCEPT ![0] = @ - 1, ![clickInterval] = @ + 1]
            /\ spaced' = (spaced /\ sinceClick >= gap)
            /\ sinceClick' = 0
            /\ gap' = clickInterval
       ELSE /\ queue' = [queue EXCEPT ![0] = @ - 1]
            /\ UNCHANGED clicks
    /\ UNCHANGED <<settings, restarted, wentOff>>

runAtOnce ==
    /\ queue[0] > 0
    /\ IF isAutoClicking /\ onScreen
       THEN /\ UNCHANGED queue
            /\ spaced' = (spaced /\ sinceClick >= gap)
            /\ sinceClick' = 0
            /\ gap' = clickInterval
       ELSE /\ queue' = [queue EXCEPT ![0] = @ - 1]
            /\ UNCHANGED clicks
    /\ UNCHANGED <<settings, restarted, wentOff>>

(* The looper runs a runnable that is due: click and post again, or let it go. *)
autoClickRunnable ==
    /\ queue[0] > 0
    /\ IF isAutoClicking /\ onScreen
       THEN /\ queue' = [queue EXCEPT ![0] = @ - 1, ![clickInterval] = @ + 1]
            /\ spaced' = (spaced /\ sinceClick >= gap)
            /\ sinceClick' = 0
            /\ gap' = clickInterval
       ELSE /\ queue' = [queue EXCEPT ![0] = @ - 1]
            /\ UNCHANGED clicks
    /\ UNCHANGED <<settings, restarted, wentOff>>

(* Time passes; a runnable that is due may have to wait for its turn. *)
Tick ==
    /\ queue' = [d \in Delays |-> (IF d < MaxInterval THEN queue[d + 1] ELSE 0)
                                   + (IF d = 0 THEN queue[0] ELSE 0)]
    /\ sinceClick' = IF sinceClick < MaxInterval THEN sinceClick + 1 ELSE sinceClick
    /\ UNCHANGED <<settings, gap, spaced, restarted, wentOff>>

ClickNext ==
    \/ onServiceConnected \/ onInterrupt \/ setClickInterval \/ setClickPosition
    \/ autoClickRunnable \/ Tick

ClickSpec == ClickInit /\ [][ClickNext]_clickVars /\ WF_clickVars(autoClickRunnable) /\ WF_clickVars(Tick)

--------------------------------------------------------------------------------
(* While it is switched on, and as long as its position stayed on the screen    *)
(* since it was, the service has a click pending: neither a stop in between nor *)
(* a change of the interval loses the chain.                                    *)
KeepsClicking == isAutoClicking /\ onScreen /\ ~wentOff => queue # Nothing

(* Switched off for good, it lets go of every runnable it ever posted.          *)
Drains == <>[]~isAutoClicking => <>[](queue = Nothing)

(* Until it is started with a runnable still in the queue, two clicks are never *)
(* less than the interval apart, however it is changed and however late the     *)
(* looper runs them.                                                            *)
ClicksSpaced == restarted \/ spaced
================================================================================
