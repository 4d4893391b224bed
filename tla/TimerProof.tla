----------------------------- MODULE TimerProof -----------------------------
(***************************************************************************)
(* Theorems about Timer, for every set of timeouts and every width of the  *)
(* counters.                                                               *)
(***************************************************************************)
EXTENDS Timer, TLAPS

(***************************************************************************)
(* The inductive invariant.  What a tick that is an interrupt stores is    *)
(* never stale, so the count cannot be ahead of the ticks that have passed *)
(* since it was zeroed; both stop short of the width.                      *)
(***************************************************************************)
CountIsTicks == interrupt => tick = "none" /\ count <= since

IInv == TypeOK /\ CountIsTicks

LEMMA InitInv == Init => IInv
  <1>1. Init => Flags
    BY Zenon DEF Init, Flags
  <1>2. Init => Counters /\ CountIsTicks
    BY TimerAssumption DEF Init, Counters, CountIsTicks
  <1> QED
    BY <1>1, <1>2 DEF IInv, TypeOK, Flags, Counters

\* A call of the main thread sets flags and lowers the count.
LEMMA MainInv ==
  ASSUME IInv, MyTimerStart \/ MyTimerStop \/ MyTimerReset \/ MainStep
  PROVE  IInv'
  <1>1. interrupt' = interrupt /\ tick' = tick /\ seen' = seen
    BY DEF MyTimerStart, MyTimerStop, MyTimerReset, Call, MainStep, StartOn, StartLen,
           ZeroCount, ClearEnd, SetOn, Store
  <1>2. Flags'
    <2>1. on' = on \/ on' = TRUE \/ on' = (call = "reset")
      BY Zenon DEF MyTimerStart, MyTimerStop, MyTimerReset, Call, MainStep, StartOn, StartLen,
                   ZeroCount, ClearEnd, SetOn, Store, timer
    <2>2. end' = end \/ end' = FALSE
      BY DEF MyTimerStart, MyTimerStop, MyTimerReset, Call, MainStep, StartOn, StartLen,
             ZeroCount, ClearEnd, SetOn, timer
    <2> QED
      BY <1>1, <2>1, <2>2, Zenon DEF IInv, TypeOK, Flags
  <1>3. Counters'
    BY TimerAssumption DEF IInv, TypeOK, Counters, timer, MyTimerStart, MyTimerStop,
       MyTimerReset, Call, MainStep, StartOn, StartLen, ZeroCount, ClearEnd, SetOn, Store
  <1>4. (count' = count /\ since' = since) \/ (count' = 0 /\ since' = 0)
    BY DEF MyTimerStart, MyTimerStop, MyTimerReset, Call, MainStep, StartOn, StartLen,
           ZeroCount, ClearEnd, SetOn, timer
  <1> QED
    BY <1>1, <1>2, <1>3, <1>4 DEF IInv, TypeOK, Flags, Counters, CountIsTicks

\* A tick adds at most one to the count, and one to the ticks that passed.
LEMMA TickInv ==
  ASSUME IInv, MyTimerCycle
  PROVE  IInv'
  <1> USE TimerAssumption DEF IInv, TypeOK, Flags, Counters, CountIsTicks, timer
  <1>0. ASSUME Elapse PROVE since' \in 0 .. Width + 1 /\ since' >= since
                             /\ (since' = since + 1 \/ since' = Width + 1)
    BY <1>0 DEF Elapse
  <1>1. ASSUME NEW c \in 0 .. Width - 1
        PROVE  (c + 1) % Width \in 0 .. Width - 1 /\ (c + 1) % Width <= c + 1
    OBVIOUS
  <1>2. CASE CycleInterrupt
    <2>1. count' \in 0 .. Width - 1 /\ count' <= count + 1
      BY <1>1, <1>2 DEF CycleInterrupt
    <2>2. end' \in BOOLEAN
      BY <1>2 DEF CycleInterrupt
    <2>3. since' \in 0 .. Width + 1 /\ count' <= since'
      BY <1>0, <1>2, <2>1 DEF CycleInterrupt
    <2> QED
      BY <1>2, <2>1, <2>2, <2>3 DEF CycleInterrupt
  <1>3. CASE CycleLook
    BY <1>0, <1>3 DEF CycleLook
  <1>4. CASE CycleStore
    <2>1. ~interrupt'
      BY <1>4 DEF CycleStore
    <2>2. count' \in 0 .. Width - 1 /\ end' \in BOOLEAN
      BY <1>1, <1>4 DEF CycleStore
    <2> QED
      BY <1>4, <2>1, <2>2 DEF CycleStore
  <1> QED
    BY <1>2, <1>3, <1>4 DEF MyTimerCycle

LEMMA StepInv == IInv /\ [Next]_vars => IInv'
  <1> SUFFICES ASSUME IInv, [Next]_vars PROVE IInv'
    OBVIOUS
  <1>1. CASE MyTimerStart \/ MyTimerStop \/ MyTimerReset \/ MainStep
    BY <1>1, MainInv
  <1>2. CASE MyTimerCycle
    BY <1>2, TickInv
  <1>3. CASE UNCHANGED vars
    BY <1>3 DEF IInv, TypeOK, Flags, Counters, CountIsTicks, vars, timer
  <1> QED
    BY <1>1, <1>2, <1>3 DEF Next

THEOREM Invariant == Spec => []IInv
  BY InitInv, StepInv, PTL DEF Spec

(***************************************************************************)
(* Type correctness: count, len and their copies stay in the range of an   *)
(* unsigned integer of the given width (timers.h:70-78).                   *)
(***************************************************************************)
THEOREM TypeCorrect == Spec => []TypeOK
  <1>1. IInv => TypeOK
    BY DEF IInv
  <1> QED
    BY Invariant, <1>1, PTL

\* The step that ends a timer finds its count beyond len.
LEMMA EndsLate ==
  ASSUME IInv, [Next]_vars, interrupt, ~end, end'
  PROVE  since' >= len + 2
  <1> USE TimerAssumption DEF IInv, TypeOK, Flags, Counters, CountIsTicks, timer
  <1>1. CASE CycleInterrupt
    <2>1. count > len /\ Elapse
      BY <1>1 DEF CycleInterrupt, Expired
    <2> QED
      BY <2>1 DEF Elapse
  <1>2. CASE CycleLook \/ CycleStore
    BY <1>2 DEF CycleLook, CycleStore
  <1>3. CASE MyTimerStart \/ MyTimerStop \/ MyTimerReset \/ MainStep
    <2>1. end' = end \/ end' = FALSE
      BY <1>3 DEF MyTimerStart, MyTimerStop, MyTimerReset, Call, MainStep,
                  StartOn, StartLen, ZeroCount, ClearEnd, SetOn
    <2> QED
      BY <2>1
  <1>4. CASE UNCHANGED vars
    BY <1>4 DEF vars
  <1> QED
    BY <1>1, <1>2, <1>3, <1>4 DEF Next, MyTimerCycle

(***************************************************************************)
(* With the tick as an interrupt a timer never ends early, whatever the    *)
(* timeouts and wherever the ticks fall in the stores of a MyTimerReset    *)
(* (timers.h:65-83).                                                       *)
(***************************************************************************)
THEOREM NeverEarlyHolds == Spec => NeverEarly
  <1>1. IInv /\ [Next]_vars => [interrupt /\ ~end /\ end' => since' >= len + 2]_vars
    BY EndsLate
  <1> QED
    BY Invariant, <1>1, PTL DEF Spec, NeverEarly
=============================================================================
