------------------------------- MODULE Timer -------------------------------
(***************************************************************************)
(* One software timer of include/timers.h: the main thread arms, stops and *)
(* resets it, and MyTimerCycle runs once per tick.  On a microcontroller   *)
(* the tick is an interrupt, which the main thread sees as one step; in    *)
(* src/main.c it is the thread timer_th, whose loads and stores fall       *)
(* between those of the main thread.  Nothing is locked in either case, so *)
(* the stores of the main thread are steps of their own.                   *)
(***************************************************************************)
EXTENDS Integers

CONSTANTS
    Timeouts,  \* the arguments of MyTimerStart
    Width      \* 2^w for the w bits of count and len (32 in the code)

ASSUME TimerAssumption ==
    Width \in Nat \ {0} /\ Timeouts \subseteq 0 .. Width - 1

VARIABLES
    interrupt, \* TRUE: the tick is an interrupt; FALSE: a thread
    on, end, count, len,  \* the mytimer_t
    call,      \* call of the main thread in progress, or "none"
    step,      \* stores of that call done so far
    arg,       \* its argument
    tick,      \* what the tick has decided to store, or "none"
    seen,      \* the count the tick has loaded
    since      \* (history) ticks since a call last zeroed the count (bound: Width + 1)

timer == <<on, end, count, len>>
vars  == <<interrupt, timer, call, step, arg, tick, seen, since>>

\* MyTimerInit; len is not set and tim is static.
Init ==
    /\ interrupt \in BOOLEAN
    /\ count = 0 /\ end = FALSE /\ on = FALSE /\ len = 0
    /\ call = "none" /\ step = 0 /\ arg = 0
    /\ tick = "none" /\ seen = 0 /\ since = 0

----------------------------------------------------------------------------
(* The main thread *)

Call(name, a) ==
    /\ call = "none"
    /\ call' = name /\ step' = 0 /\ arg' = a
    /\ UNCHANGED <<interrupt, timer, tick, seen, since>>

MyTimerStart == \E timeout \in Timeouts : Call("start", timeout)
MyTimerStop  == Call("stop", 0)
MyTimerReset == Call("reset", 0)

\* The next store of a call; its last one ends it.
Store(name, k, last) ==
    /\ call = name /\ step = k
    /\ step' = IF last THEN 0 ELSE k + 1
    /\ call' = IF last THEN "none" ELSE name
    /\ arg'  = IF last THEN 0 ELSE arg
    /\ UNCHANGED <<interrupt, tick, seen>>

StartOn  == Store("start", 0, FALSE) /\ on' = TRUE /\ UNCHANGED <<end, count, len, since>>
StartLen == Store("start", 1, TRUE)  /\ len' = arg /\ UNCHANGED <<on, end, count, since>>

\* Faulty variant: only a reset zeroes the count.
ZeroCount_ResetOnly == \E c \in {"stop", "reset"} :
    /\ Store(c, 0, FALSE) /\ count' = (IF c = "reset" THEN 0 ELSE count)
    /\ since' = 0 /\ UNCHANGED <<on, end, len>>

ZeroCount == \E c \in {"stop", "reset"} :
    Store(c, 0, FALSE) /\ count' = 0 /\ since' = 0 /\ UNCHANGED <<on, end, len>>
ClearEnd  == \E c \in {"stop", "reset"} :
    Store(c, 1, FALSE) /\ end' = FALSE /\ UNCHANGED <<on, count, len, since>>
SetOn     == \E c \in {"stop", "reset"} :
    Store(c, 2, TRUE) /\ on' = (c = "reset") /\ UNCHANGED <<end, count, len, since>>

MainStep == StartOn \/ StartLen \/ ZeroCount \/ ClearEnd \/ SetOn

----------------------------------------------------------------------------
(* MyTimerCycle *)

Elapse == since' = IF since > Width THEN since ELSE since + 1

Expired == count > len

\* Faulty variant: count may leave the range of a uint32_t.
CycleInterrupt_NoWrap ==
    /\ interrupt
    /\ Elapse
    /\ end'   = (end \/ (on /\ Expired))
    /\ count' = IF on /\ ~Expired THEN count + 1 ELSE count
    /\ UNCHANGED <<interrupt, on, len, call, step, arg, tick, seen>>

CycleInterrupt ==
    /\ interrupt
    /\ Elapse
    /\ end'   = (end \/ (on /\ Expired))
    /\ count' = IF on /\ ~Expired THEN (count + 1) % Width ELSE count
    /\ UNCHANGED <<interrupt, on, len, call, step, arg, tick, seen>>

\* As a thread: look at the timer, then store.
CycleLook ==
    /\ ~interrupt /\ tick = "none"
    /\ Elapse
    /\ tick' = IF ~on THEN "none" ELSE IF Expired THEN "end" ELSE "count"
    /\ seen' = count
    /\ UNCHANGED <<interrupt, timer, call, step, arg>>

\* Faulty variant: stores back the count it loaded ("count = count++").
CycleStore_SameCount ==
    /\ tick # "none"
    /\ IF tick = "end"
         THEN end' = TRUE /\ UNCHANGED count
         ELSE count' = seen /\ UNCHANGED end
    /\ tick' = "none" /\ seen' = 0
    /\ UNCHANGED <<interrupt, on, len, call, step, arg, since>>

CycleStore ==
    /\ tick # "none"
    /\ IF tick = "end"
         THEN end' = TRUE /\ UNCHANGED count
         ELSE count' = (seen + 1) % Width /\ UNCHANGED end
    /\ tick' = "none" /\ seen' = 0
    /\ UNCHANGED <<interrupt, on, len, call, step, arg, since>>

MyTimerCycle == CycleInterrupt \/ CycleLook \/ CycleStore

----------------------------------------------------------------------------
Next == MyTimerStart \/ MyTimerStop \/ MyTimerReset \/ MainStep \/ MyTimerCycle

\* Ticks go on for ever, and the main thread carries its calls through.
Spec == Init /\ [][Next]_vars /\ WF_vars(MyTimerCycle) /\ WF_vars(MainStep)

----------------------------------------------------------------------------
Flags    == interrupt \in BOOLEAN /\ on \in BOOLEAN /\ end \in BOOLEAN
Counters ==
    /\ count \in 0 .. Width - 1 /\ len \in 0 .. Width - 1
    /\ arg \in 0 .. Width - 1 /\ seen \in 0 .. Width - 1
    /\ call \in {"none", "start", "stop", "reset"} /\ step \in 0..2
    /\ tick \in {"none", "end", "count"} /\ since \in 0 .. Width + 1

TypeOK == Flags /\ Counters

(***************************************************************************)
(* As an interrupt, the tick never ends a timer early: since a call last   *)
(* zeroed the count there have been at least len + 2 ticks, even if some   *)
(* fell between the stores of a MyTimerReset or MyTimerStop (timers.h:65-  *)
(* 83: the count must pass len before the tick that sets end).  As a       *)
(* thread it may put back a count it loaded before the reset.              *)
(***************************************************************************)
NeverEarly == [][interrupt /\ ~end /\ end' => since' >= len + 2]_vars

(***************************************************************************)
(* A timer that is armed and left alone does end, whatever ticks fell      *)
(* between the loads and stores of earlier calls, as an interrupt or as a  *)
(* thread.  The longest timeout is excluded: no count is larger than it    *)
(* (timers.h:70-78).                                                       *)
(***************************************************************************)
Armed == on /\ call = "none" /\ len < Width - 1
Ends  == Armed ~> end \/ call # "none"
=============================================================================
