-------------------------- MODULE ClockTimerProofs --------------------------
(* Proofs for the clock and the software timer: for every resolution and   *)
(* every duration, no field leaves its range and no timer expires early.   *)
EXTENDS ClockTimerProps, TLAPS

-----------------------------------------------------------------------------
(* Arithmetic on times.                                                    *)

LEMMA Products ==
  ASSUME NEW a \in Nat, NEW b \in Nat, NEW c \in Nat
  PROVE  /\ a * c \in Nat
         /\ a <= b => a * c <= b * c
         /\ (a + 1) * c = a * c + c
<1>1. a * c \in Nat /\ (a + 1) * c = a * c + c
  BY SMT
<1>2. ASSUME a <= b PROVE a * c <= b * c
  <2>1. b - a \in Nat /\ b = a + (b - a)
    BY <1>2
  <2>2. b * c = a * c + (b - a) * c /\ (b - a) * c >= 0
    BY <2>1, SMT
  <2> QED BY <2>2, <1>1
<1> QED BY <1>1, <1>2

LEMMA Associative ==
  ASSUME NEW a \in Int, NEW b \in Int, NEW c \in Int
  PROVE  (a * b) * c = a * (b * c)
BY SMT

LEMMA SecondIsNat == Second \in Nat \ {0}
BY ClockAssumption DEF Second

LEMMA NsecsRange ==
  /\ 0 \in Nsecs
  /\ Nsecs \subseteq Nat
  /\ \A n \in Nsecs : n + Tick <= Second
<1>1. 0 \in Nsecs
  <2>1. 0 \in 0 .. TicsPerSec - 1 /\ 0 = 0 * Tick
    BY ClockAssumption
  <2> QED BY <2>1 DEF Nsecs
<1>2. ASSUME NEW k \in 0 .. TicsPerSec - 1
      PROVE  k * Tick \in Nat /\ k * Tick + Tick <= Second
  <2>1. k \in Nat /\ k + 1 \in Nat /\ k + 1 <= TicsPerSec /\ Tick \in Nat
        /\ TicsPerSec \in Nat
    BY ClockAssumption
  <2>2. k * Tick \in Nat /\ (k + 1) * Tick = k * Tick + Tick
    BY <2>1, Products
  <2>3. (k + 1) * Tick <= TicsPerSec * Tick
    BY <2>1, Products
  <2> QED BY <2>2, <2>3 DEF Second
<1> QED BY <1>1, <1>2 DEF Nsecs

(* The test for a full second, an equality, misses none.                   *)
LEMMA NextNsec ==
  ASSUME NEW n \in Nsecs
  PROVE  /\ (n + Tick) % Second # 0 => n + Tick \in Nsecs
         /\ (n + Tick) % Second = 0 => n + Tick = Second
<1>1. PICK k \in 0 .. TicsPerSec - 1 : n = k * Tick
  BY DEF Nsecs
<1>2. k \in Nat /\ Tick \in Nat \ {0} /\ TicsPerSec \in Nat
  BY <1>1, ClockAssumption
<1>3. (k + 1) * Tick = n + Tick
  BY <1>1, <1>2, Products
<1>4. n \in Nat /\ n + Tick \in Nat /\ n + Tick > 0 /\ n + Tick <= Second
  BY <1>2, NsecsRange
<1>5. (n + Tick) % Second # 0 => n + Tick \in Nsecs
  <2>1. CASE k + 1 = TicsPerSec
    <3>1. n + Tick = Second
      BY <2>1, <1>3 DEF Second
    <3>2. Second % Second = 0
      BY SecondIsNat
    <3> QED BY <3>1, <3>2
  <2>2. CASE k + 1 # TicsPerSec
    <3>1. k + 1 \in 0 .. TicsPerSec - 1
      BY <2>2, <1>1, <1>2
    <3> QED BY <3>1, <1>3 DEF Nsecs
  <2> QED BY <2>1, <2>2
<1>6. ASSUME (n + Tick) % Second = 0 PROVE n + Tick = Second
  <2>1. CASE n + Tick < Second
    <3>1. (n + Tick) % Second = n + Tick
      BY <2>1, <1>4, SecondIsNat
    <3> QED BY <3>1, <1>6, <1>4
  <2> QED BY <2>1, <1>4, SecondIsNat
<1> QED BY <1>5, <1>6

(* What a tic does to a time: at most one tic more, no second lost.        *)
LEMMA AdvancedTime ==
  ASSUME NEW t \in ClockTimes
  PROVE  /\ Advanced(t) \in ClockTimes
         /\ t.sec <= Advanced(t).sec
         /\ Time(Advanced(t)) <= Time(t) + Tick
<1>1. t.sec \in 0 .. MaxSec /\ t.nsec \in Nsecs /\ t.nsec \in Nat
  BY NsecsRange DEF ClockTimes
<1>2. /\ NextSec(t.sec) \in 0 .. MaxSec
      /\ NextSec(t.sec) \in {t.sec, t.sec + 1}
  BY <1>1, ClockAssumption DEF NextSec
<1>3. t.sec \in Nat /\ Second \in Nat /\ Tick \in Nat
  BY <1>1, SecondIsNat, ClockAssumption
<1>4. t.sec * Second \in Nat /\ (t.sec + 1) * Second = t.sec * Second + Second
  BY <1>3, Products
<1>5. CASE (t.nsec + Tick) % Second = 0
  <2>1. Advanced(t) = [sec |-> NextSec(t.sec), nsec |-> 0]
    BY <1>5 DEF Advanced
  <2>2. t.nsec + Tick = Second
    BY <1>5, <1>1, NextNsec
  <2>3. NextSec(t.sec) * Second <= t.sec * Second + Second
    BY <1>2, <1>3, <1>4
  <2>4. Time(Advanced(t)) = NextSec(t.sec) * Second
    <3>1. NextSec(t.sec) * Second \in Nat
      BY <1>2, <1>3, <1>4
    <3> QED BY <2>1, <3>1 DEF Time
  <2>5. Time(t) = t.sec * Second + t.nsec
    BY DEF Time
  <2>6. Time(Advanced(t)) <= Time(t) + Tick
    BY <2>2, <2>3, <2>4, <2>5, <1>1, <1>2, <1>3, <1>4
  <2>7. Advanced(t) \in ClockTimes
    BY <2>1, <1>2, NsecsRange DEF ClockTimes
  <2>8. t.sec <= Advanced(t).sec
    BY <2>1, <1>2, <1>3
  <2> QED BY <2>6, <2>7, <2>8
<1>6. CASE (t.nsec + Tick) % Second # 0
  <2>1. Advanced(t) = [sec |-> t.sec, nsec |-> t.nsec + Tick]
    BY <1>6 DEF Advanced
  <2>2. t.nsec + Tick \in Nsecs
    BY <1>6, <1>1, NextNsec
  <2> QED BY <2>1, <2>2, <1>1, <1>3, <1>4 DEF ClockTimes, Time
<1> QED BY <1>5, <1>6

(* No time the clock can show is beyond the bound of the tics counted.     *)
LEMMA MaxRanBounds ==
  /\ MaxRan \in Nat
  /\ \A t \in ClockTimes : Time(t) \in Nat /\ Time(t) <= MaxRan * Tick
<1>1. /\ MaxSec + 1 \in Nat /\ MaxSec \in Nat /\ TicsPerSec \in Nat
      /\ Tick \in Nat /\ Second \in Nat
  BY ClockAssumption, SecondIsNat
<1>2. MaxRan \in Nat
  BY <1>1, Products DEF MaxRan
<1>3. MaxRan * Tick = MaxSec * Second + Second
  <2>1. MaxRan * Tick = (MaxSec + 1) * Second
    BY <1>1, Associative DEF MaxRan, Second
  <2> QED BY <2>1, <1>1, Products
<1>4. ASSUME NEW t \in ClockTimes
      PROVE  Time(t) \in Nat /\ Time(t) <= MaxRan * Tick
  <2>1. /\ t.sec \in Nat /\ t.sec <= MaxSec /\ t.nsec \in Nat
        /\ t.nsec <= Second
    <3>1. t.sec \in 0 .. MaxSec /\ t.nsec \in Nsecs
      BY DEF ClockTimes
    <3>2. t.nsec \in Nat /\ t.nsec + Tick <= Second
      BY <3>1, NsecsRange
    <3> QED BY <3>1, <3>2, <1>1
  <2>2. t.sec * Second \in Nat /\ t.sec * Second <= MaxSec * Second
    BY <2>1, <1>1, Products
  <2>3. MaxSec * Second \in Nat
    BY <1>1, Products
  <2> QED BY <2>1, <2>2, <2>3, <1>1, <1>3 DEF Time
<1> QED BY <1>2, <1>4

-----------------------------------------------------------------------------
(* The inductive invariant.  The time spent never exceeds the tics since   *)
(* it was reset; the loop is past a test of the seconds only when as many  *)
(* seconds were spent; and a timer that timer_start entered is running     *)
(* whenever it may wait.                                                   *)
Counted == ~torn => Time(spent) <= ran * Tick

PastSec == pc \in {"equal", "less"} => wait.sec <= spent.sec

StartedRuns == started /\ pc \in Waiting \cup {"int80"} => ~stop

IInv ==
  TypeOK /\ Counted /\ PastSec /\ StartedRuns /\ WaitsRunning /\ NeverEarly

LEMMA Shapes ==
  /\ Zero \in ClockTimes
  /\ \A t \in ClockTimes :
       /\ t.sec \in Nat /\ t.nsec \in Nat
       /\ [t EXCEPT !.sec = 0] \in ClockTimes
       /\ [t EXCEPT !.nsec = 0] \in ClockTimes
       /\ \A u \in ClockTimes :
            /\ [t EXCEPT !.sec = u.sec] \in ClockTimes
            /\ [t EXCEPT !.nsec = u.nsec] \in ClockTimes
<1>1. 0 \in 0 .. MaxSec
  BY ClockAssumption
<1> QED BY <1>1, NsecsRange DEF Zero, ClockTimes

LEMMA WaitTyped == TypeOK => wait.sec \in Nat /\ wait.nsec \in Nat
BY ClockAssumption DEF TypeOK, Zero, Timespecs

LEMMA InitInvariant == Init => IInv
<1> SUFFICES ASSUME Init PROVE IInv
  OBVIOUS
<1>1. TypeOK
  BY Shapes, MaxRanBounds, 0 \in 0 .. MaxRan
     DEF Init, TypeOK, Types, NULL, PCs, Waiting
<1>2. Time(spent) = 0 /\ ran * Tick = 0
  BY SecondIsNat, ClockAssumption DEF Init, Zero, Time
<1>3. Counted
  BY <1>2 DEF Counted
<1> QED
  BY <1>1, <1>3 DEF Init, IInv, PastSec, StartedRuns, WaitsRunning, NeverEarly,
                    Waiting

-----------------------------------------------------------------------------
(* Each step preserves the types.                                          *)
LEMMA TypeStep == TypeOK /\ [Next]_vars => TypeOK'
<1> SUFFICES ASSUME TypeOK, [Next]_vars PROVE TypeOK'
  OBVIOUS
<1> USE DEF TypeOK, PCs, Waiting, Types
<1>s. MaxRan \in Nat /\ 0 \in 0 .. MaxRan
  BY MaxRanBounds
<1>m. ASSUME NEW from, NEW to \in PCs
      PROVE  /\ Step(from, to) => TypeOK'
             /\ Disarm(from, to) => TypeOK'
             /\ Go(from, to) /\ started' \in BOOLEAN => TypeOK'
             /\ ResetSec(from, to) /\ back' \in {"do", "handler"} => TypeOK'
             /\ ResetNsec(from, to) => TypeOK'
  <2>1. Step(from, to) => TypeOK'
    BY <1>m DEF Step, Goto, softtimer0
  <2>2. Disarm(from, to) => TypeOK'
    BY <1>m DEF Disarm, Goto
  <2>3. Go(from, to) /\ started' \in BOOLEAN => TypeOK'
    BY <1>m DEF Go, Goto
  <2>4. ResetSec(from, to) /\ back' \in {"do", "handler"} => TypeOK'
    BY <1>m, Shapes DEF ResetSec, Goto
  <2>5. ResetNsec(from, to) => TypeOK'
    BY <1>m, <1>s, Shapes DEF ResetNsec, Goto
  <2> QED BY <2>1, <2>2, <2>3, <2>4, <2>5
<1>1. CASE isr_clock_int
  <2>1. sysclock' \in ClockTimes /\ spent' \in ClockTimes
    BY <1>1, AdvancedTime DEF isr_clock_int
  <2>2. ran' \in 0 .. MaxRan
    BY <1>1, <1>s DEF isr_clock_int
  <2> QED BY <1>1, <2>1, <2>2 DEF isr_clock_int
<1>2. CASE Wind
  <2>1. PICK t \in Types, w \in Waits, h \in {NULL, "function"} :
          timer_wind(t, w, h)
    BY <1>2 DEF Wind
  <2> QED BY <2>1, <1>s, Shapes DEF timer_wind
<1>3. CASE timer_start
  BY <1>3, <1>m DEF timer_start
<1>4. CASE IntCommand
  BY <1>4 DEF IntCommand, Goto, softtimer0
<1>5. CASE clock_gettime
  BY <1>5, Shapes DEF clock_gettime, softtimer0
<1>6. CASE GetNsec
  BY <1>6, Shapes DEF GetNsec, Goto, softtimer0
<1>7. CASE HandlerDisarms
  BY <1>7, <1>m DEF HandlerDisarms
<1>8. CASE HandlerRewinds \/ AutoRewind
  BY <1>8, <1>m DEF HandlerRewinds, AutoRewind
<1>9. CASE StartNsec \/ RewindNsec
  BY <1>9, <1>m DEF StartNsec, RewindNsec
<1>10. CASE StartGo
  BY <1>10, <1>m DEF StartGo
<1>11. CASE RewindGo
  BY <1>11, <1>m DEF RewindGo
<1>12. CASE Expire
  BY <1>12, <1>m DEF Expire
<1>13. CASE sti \/ TestStop \/ TestSec \/ TestEqual \/ TestNsec \/ hlt
  BY <1>13, <1>m DEF sti, TestStop, TestSec, TestEqual, TestNsec, hlt
<1>14. CASE CallHandler \/ HandlerReturns \/ Again
  BY <1>14, <1>m DEF CallHandler, HandlerReturns, Again
<1>15. CASE UNCHANGED vars
  BY <1>15 DEF vars, softtimer0, history
<1> QED
  BY <1>1, <1>2, <1>3, <1>4, <1>5, <1>6, <1>7, <1>8, <1>9, <1>10, <1>11,
     <1>12, <1>13, <1>14, <1>15 DEF Next, Client, Timer

(* What a step may do to the time spent and to its count of tics.          *)
Ticked ==
  /\ Time(spent') <= Time(spent) + Tick
  /\ ran' = (IF ran < MaxRan THEN ran + 1 ELSE ran)
  /\ torn' = torn

Cleared == ran' = 0 /\ (~torn' => spent' = Zero)

SecCleared ==
  spent' = [spent EXCEPT !.sec = 0] /\ ran' = ran /\ torn' = torn

CountKept == spent' = spent /\ ran' = ran /\ torn' = torn

LEMMA CountCases ==
  TypeOK /\ [Next]_vars => Ticked \/ Cleared \/ SecCleared \/ CountKept
<1> SUFFICES ASSUME TypeOK, [Next]_vars
             PROVE  Ticked \/ Cleared \/ SecCleared \/ CountKept
  OBVIOUS
<1>t. spent \in ClockTimes
  BY DEF TypeOK
<1>1. CASE isr_clock_int
  <2>1. spent' \in {spent, Advanced(spent)}
    BY <1>1 DEF isr_clock_int
  <2>2. Time(spent) \in Nat /\ Tick \in Nat
    BY <1>t, MaxRanBounds, ClockAssumption
  <2>3. Time(spent') <= Time(spent) + Tick
    BY <2>1, <2>2, <1>t, AdvancedTime
  <2> QED BY <1>1, <2>3 DEF isr_clock_int, Ticked
<1>2. CASE Wind
  BY <1>2 DEF Wind, timer_wind, Cleared
<1>3. CASE StartNsec \/ RewindNsec
  <2>1. ran' = 0 /\ torn' = (spent.sec # 0)
        /\ spent' = [spent EXCEPT !.nsec = 0]
    BY <1>3 DEF StartNsec, RewindNsec, ResetNsec
  <2> QED BY <2>1, <1>t DEF Cleared, Zero, ClockTimes
<1>4. CASE timer_start \/ HandlerRewinds \/ AutoRewind
  BY <1>4 DEF timer_start, HandlerRewinds, AutoRewind, ResetSec, SecCleared
<1>5. CASE \/ IntCommand \/ clock_gettime \/ GetNsec \/ HandlerDisarms
           \/ StartGo \/ RewindGo \/ Expire
  BY <1>5 DEF IntCommand, clock_gettime, GetNsec, HandlerDisarms, StartGo,
              RewindGo, Expire, Disarm, Go, softtimer0, CountKept
<1>6. CASE \/ sti \/ TestStop \/ TestSec \/ TestEqual \/ TestNsec \/ hlt
           \/ CallHandler \/ HandlerReturns \/ Again
  BY <1>6 DEF sti, TestStop, TestSec, TestEqual, TestNsec, hlt, CallHandler,
              HandlerReturns, Again, Step, softtimer0, CountKept
<1>7. CASE UNCHANGED vars
  BY <1>7 DEF vars, softtimer0, history, CountKept
<1> QED
  BY <1>1, <1>2, <1>3, <1>4, <1>5, <1>6, <1>7 DEF Next, Client, Timer

LEMMA CountedStep == TypeOK /\ Counted /\ [Next]_vars => Counted'
<1> SUFFICES ASSUME TypeOK, Counted, [Next]_vars, ~torn'
             PROVE  Time(spent') <= ran' * Tick
  BY DEF Counted
<1>1. /\ spent \in ClockTimes /\ spent' \in ClockTimes
      /\ ran \in 0 .. MaxRan /\ torn \in BOOLEAN
  BY TypeStep DEF TypeOK
<1>2. Tick \in Nat /\ MaxRan \in Nat /\ ran \in Nat /\ Time(spent) \in Nat
  BY <1>1, MaxRanBounds, ClockAssumption
<1>3. ran * Tick \in Nat /\ (ran + 1) * Tick = ran * Tick + Tick
  BY <1>2, Products
<1>4. CASE Ticked
  <2>1. CASE ran < MaxRan
    BY <1>4, <2>1, <1>2, <1>3, AdvancedTime, MaxRanBounds, <1>1
       DEF Ticked, Counted
  <2>2. CASE ran = MaxRan
    BY <1>4, <2>2, <1>1, MaxRanBounds DEF Ticked
  <2> QED BY <2>1, <2>2, <1>1, <1>2
<1>5. CASE Cleared
  <2>1. Time(Zero) = 0 /\ 0 * Tick = 0
    BY <1>2, SecondIsNat DEF Time, Zero
  <2> QED BY <1>5, <2>1 DEF Cleared
<1>6. CASE SecCleared
  <2>1. spent'.nsec = spent.nsec /\ spent'.sec = 0
    BY <1>6, <1>1 DEF SecCleared, ClockTimes
  <2>2. spent.sec \in Nat /\ spent.nsec \in Nat
    BY <1>1, Shapes
  <2>3. spent.sec * Second \in Nat /\ 0 * Second = 0
    BY <2>2, SecondIsNat, Products
  <2>4. Time(spent') <= Time(spent)
    BY <2>1, <2>2, <2>3 DEF Time
  <2> QED BY <1>6, <2>4, <1>1, <1>2, <1>3, MaxRanBounds DEF SecCleared, Counted
<1>7. CASE CountKept
  BY <1>7 DEF CountKept, Counted
<1> QED BY <1>4, <1>5, <1>6, <1>7, CountCases

-----------------------------------------------------------------------------
(* While the timer waits, only the clock changes what the loop tests.      *)
Frame ==
  /\ UNCHANGED <<wait, started, torn>>
  /\ spent.sec <= spent'.sec /\ ran <= ran'
  /\ stop' = stop \/ pc = "disarm"

WaitSteps ==
  \/ isr_clock_int
  \/ sti \/ TestStop \/ TestSec \/ TestEqual \/ TestNsec \/ hlt \/ Expire
  \/ UNCHANGED vars

LEMMA FrameStep ==
  ASSUME TypeOK, [Next]_vars, pc \in Waiting \cup {"int80", "disarm"}
  PROVE  Frame /\ WaitSteps
<1> USE DEF Waiting
<1>1. WaitSteps
  BY DEF WaitSteps, Next, Client, Timer, Wind, timer_wind, timer_start,
         IntCommand, clock_gettime, GetNsec, HandlerDisarms, HandlerRewinds,
         HandlerReturns, StartNsec, StartGo, CallHandler, AutoRewind,
         RewindNsec, RewindGo, Again, ResetSec, ResetNsec, Go, Disarm, Step,
         Goto
<1>t. spent \in ClockTimes /\ ran \in Nat
  BY MaxRanBounds DEF TypeOK
<1>k. spent.sec \in Nat /\ spent.sec <= spent.sec /\ ran <= ran
  <2>1. spent.sec \in Nat
    BY <1>t, Shapes
  <2> QED BY <2>1, <1>t
<1>f. SUFFICES Frame
  BY <1>1
<1>2. CASE isr_clock_int
  <2>1. spent' \in {spent, Advanced(spent)} /\ ran' \in {ran, ran + 1}
    BY <1>2 DEF isr_clock_int
  <2>2. spent.sec <= spent'.sec
    BY <2>1, <1>k, <1>t, AdvancedTime
  <2>3. ran <= ran'
    BY <2>1, <1>t
  <2> QED BY <1>2, <2>2, <2>3 DEF isr_clock_int, Frame
<1>3. CASE sti \/ TestStop \/ TestSec \/ TestEqual \/ TestNsec \/ hlt
  BY <1>3, <1>k DEF sti, TestStop, TestSec, TestEqual, TestNsec, hlt,
     Step, Goto, softtimer0, Frame
<1>4. CASE Expire
  BY <1>4, <1>k DEF Expire, Disarm, Goto, Frame
<1>5. CASE UNCHANGED vars
  BY <1>5, <1>k DEF vars, softtimer0, history, Frame
<1> QED BY <1>1, <1>2, <1>3, <1>4, <1>5 DEF WaitSteps

(* How the loop is entered.                                                *)
LEMMA Entry ==
  ASSUME TypeOK, [Next]_vars, pc \notin Waiting, pc' \in Waiting
  PROVE  pc' = "while" /\ (sti \/ Again)
<1> USE DEF Waiting
<1>2. CASE isr_clock_int \/ UNCHANGED vars
  BY <1>2 DEF isr_clock_int, vars
<1>3. CASE Wind \/ clock_gettime
  BY <1>3 DEF Wind, timer_wind, clock_gettime
<1>4. CASE timer_start \/ IntCommand \/ GetNsec \/ StartNsec \/ StartGo
           \/ HandlerDisarms \/ HandlerRewinds \/ HandlerReturns
  BY <1>4 DEF timer_start, IntCommand, GetNsec, StartNsec, StartGo,
     HandlerDisarms, HandlerRewinds, HandlerReturns, ResetSec, ResetNsec, Go,
     Disarm, Step, Goto
<1>5. CASE TestStop \/ TestSec \/ TestEqual \/ TestNsec \/ hlt \/ Expire
           \/ CallHandler \/ AutoRewind \/ RewindNsec
  BY <1>5 DEF TestStop, TestSec, TestEqual, TestNsec, hlt, Expire, CallHandler,
     AutoRewind, RewindNsec, ResetSec, ResetNsec, Disarm, Step, Goto
<1>6. CASE RewindGo
  BY <1>6 DEF RewindGo, Go, Goto, TypeOK
<1>7. CASE sti \/ Again
  BY <1>7 DEF sti, Again, Step, Goto
<1> QED BY <1>2, <1>3, <1>4, <1>5, <1>6, <1>7 DEF Next, Client, Timer

LEMMA PastSecStep == TypeOK /\ PastSec /\ [Next]_vars => PastSec'
<1> SUFFICES ASSUME TypeOK, PastSec, [Next]_vars, pc' \in {"equal", "less"}
             PROVE  wait'.sec <= spent'.sec
  BY DEF PastSec
<1>1. pc \in Waiting
  BY Entry DEF Waiting
<1>2. wait' = wait /\ spent.sec <= spent'.sec /\ WaitSteps
  BY <1>1, FrameStep DEF Frame
<1>3. /\ wait.sec \in Nat
      /\ spent.sec \in Nat /\ spent'.sec \in Nat
  BY WaitTyped, TypeStep, Shapes DEF TypeOK
<1>4. wait.sec <= spent.sec
  <2>1. CASE pc \in {"equal", "less"}
    BY <2>1 DEF PastSec
  <2>2. CASE pc \notin {"equal", "less"}
    <3>1. pc = "sec" /\ TestSec
      BY <1>1, <1>2, <2>2 DEF WaitSteps, isr_clock_int, sti, TestStop, TestSec, TestEqual,
         TestNsec, hlt, Expire, Disarm, Step, Goto, vars, Waiting
    <3>2. ~(wait.sec > spent.sec)
      BY <3>1 DEF TestSec, Step, Goto
    <3> QED BY <3>2, <1>3
  <2> QED BY <2>1, <2>2
<1> QED BY <1>2, <1>3, <1>4

LEMMA StopStep ==
  TypeOK /\ StartedRuns /\ WaitsRunning /\ [Next]_vars
    => StartedRuns' /\ WaitsRunning'
<1> SUFFICES ASSUME TypeOK, StartedRuns, WaitsRunning, [Next]_vars
             PROVE  StartedRuns' /\ WaitsRunning'
  OBVIOUS
<1>1. StartedRuns'
  <2> SUFFICES ASSUME started', pc' \in Waiting \cup {"int80"} PROVE ~stop'
    BY DEF StartedRuns
  <2>1. CASE pc \in Waiting \cup {"int80"}
    <3>1. started /\ stop' = stop
      BY <2>1, FrameStep DEF Waiting, Frame
    <3> QED BY <3>1, <2>1 DEF StartedRuns
  <2>2. CASE pc \notin Waiting \cup {"int80"} /\ pc' \in Waiting
    BY <2>2, Entry DEF sti, Again, Step, Goto, softtimer0
  <2>3. CASE pc \notin Waiting \cup {"int80"} /\ pc' = "int80"
    <3>1. isr_clock_int \/ Client \/ Timer \/ UNCHANGED vars
      BY DEF Next
    <3>2. CASE isr_clock_int \/ UNCHANGED vars
      BY <3>2, <2>3 DEF isr_clock_int, vars
    <3>3. CASE Client
      BY <3>3, <2>3 DEF Client, Wind, timer_wind, timer_start, IntCommand,
         clock_gettime, GetNsec, HandlerDisarms, HandlerRewinds,
         HandlerReturns, ResetSec, Disarm, Step, Goto
    <3>4. CASE Timer
      BY <3>4, <2>3 DEF Timer, StartNsec, StartGo, sti, TestStop, TestSec,
         TestEqual, TestNsec, hlt, Expire, CallHandler, AutoRewind, RewindNsec,
         RewindGo, Again, ResetSec, ResetNsec, Go, Disarm, Step, Goto, TypeOK
    <3> QED BY <3>1, <3>2, <3>3, <3>4
  <2> QED BY <2>1, <2>2, <2>3
<1>2. WaitsRunning'
  <2> SUFFICES ASSUME pc' \in Waiting \ {"while"} PROVE ~stop'
    BY DEF WaitsRunning
  <2>1. pc \in Waiting
    BY Entry
  <2>2. stop' = stop
    BY <2>1, FrameStep DEF Waiting, Frame
  <2>3. CASE pc # "while"
    BY <2>1, <2>2, <2>3 DEF WaitsRunning
  <2>4. CASE pc = "while"
    <3>1. TestStop
      BY <2>1, <2>4, FrameStep DEF WaitSteps, isr_clock_int, sti, TestStop, TestSec, TestEqual,
         TestNsec, hlt, Expire, Disarm, Step, Goto, vars, Waiting
    <3> QED BY <3>1, <2>2 DEF TestStop, Step, Goto, Waiting
  <2> QED BY <2>3, <2>4
<1> QED BY <1>1, <1>2

-----------------------------------------------------------------------------
LEMMA Lexicographic ==
  ASSUME NEW t \in ClockTimes, NEW s \in Nat, NEW n \in Nat, n < Second
  PROVE  /\ s <= t.sec /\ s # t.sec => s * Second + n <= Time(t)
         /\ s <= t.sec /\ n <= t.nsec => s * Second + n <= Time(t)
<1>1. t.sec \in Nat /\ t.nsec \in Nat /\ Second \in Nat
  BY Shapes, SecondIsNat
<1>2. /\ s * Second \in Nat /\ t.sec * Second \in Nat
      /\ (s + 1) * Second = s * Second + Second
  BY <1>1, Products
<1>3. s <= t.sec => s * Second <= t.sec * Second
  BY <1>1, Products
<1>4. s + 1 <= t.sec => (s + 1) * Second <= t.sec * Second
  BY <1>1, Products
<1> QED BY <1>1, <1>2, <1>3, <1>4 DEF Time

LEMMA NeverEarlyStep == IInv /\ [Next]_vars => NeverEarly'
<1> SUFFICES ASSUME IInv, [Next]_vars, pc' = "disarm", started', ~torn',
                    wait'.nsec < Second
             PROVE  Time(wait') <= ran' * Tick
  BY DEF NeverEarly
<1> USE DEF IInv
<1>1. pc \in Waiting \cup {"int80", "disarm"}
  BY DEF Next, Client, Timer, isr_clock_int, Wind, timer_wind, timer_start,
         IntCommand, clock_gettime, GetNsec, HandlerDisarms, HandlerRewinds,
         HandlerReturns, StartNsec, StartGo, sti, CallHandler, AutoRewind,
         RewindNsec, RewindGo, Again, ResetSec, ResetNsec, Go, Disarm, Step,
         Goto, TestStop, TestSec, TestEqual, TestNsec, hlt, Expire, vars,
         Waiting, TypeOK
<1>2. Frame /\ WaitSteps
  BY <1>1, FrameStep
<1>3. wait' = wait /\ started /\ ~torn /\ ran <= ran'
  BY <1>2 DEF Frame
<1>4. /\ spent \in ClockTimes /\ wait.sec \in Nat /\ wait.nsec \in Nat
      /\ ran \in Nat /\ ran' \in Nat /\ Tick \in Nat
  BY WaitTyped, TypeStep, MaxRanBounds, ClockAssumption DEF TypeOK
<1>5. ran * Tick <= ran' * Tick /\ ran * Tick \in Nat /\ ran' * Tick \in Nat
  BY <1>3, <1>4, Products
<1>6. Time(wait) \in Nat /\ Time(spent) \in Nat
  <2>1. wait.sec * Second \in Nat
    BY <1>4, SecondIsNat, Products
  <2> QED BY <2>1, <1>4, MaxRanBounds DEF Time
<1>7. Time(wait) <= ran * Tick
  <2>1. CASE pc = "disarm"
    BY <2>1, <1>3 DEF NeverEarly
  <2>2. CASE pc # "disarm"
    <3>1. CASE TestStop
      <4>1. pc = "while" /\ stop
        BY <3>1 DEF TestStop, Step, Goto
      <4> QED BY <4>1, <1>3 DEF StartedRuns, Waiting
    <3>2. CASE TestEqual
      <4>1. pc = "equal" /\ wait.sec # spent.sec
        BY <3>2 DEF TestEqual, Step, Goto
      <4>2. wait.sec <= spent.sec
        BY <4>1 DEF PastSec
      <4>3. Time(wait) <= Time(spent)
        BY <4>1, <4>2, <1>3, <1>4, Lexicographic DEF Time
      <4> QED BY <4>3, <1>3, <1>5, <1>6 DEF Counted
    <3>3. CASE TestNsec
      <4>1. pc = "less" /\ ~(wait.nsec > spent.nsec)
        BY <3>3 DEF TestNsec, Step, Goto
      <4>2. wait.sec <= spent.sec /\ wait.nsec <= spent.nsec
        <5>1. spent.nsec \in Nat
          BY <1>4, Shapes
        <5> QED BY <4>1, <5>1, <1>4 DEF PastSec
      <4>3. Time(wait) <= Time(spent)
        BY <4>2, <1>3, <1>4, Lexicographic DEF Time
      <4> QED BY <4>3, <1>3, <1>5, <1>6 DEF Counted
    <3> QED BY <3>1, <3>2, <3>3, <2>2, <1>2 DEF WaitSteps, isr_clock_int, sti,
              TestSec, hlt, Expire, Disarm, Step, Goto, vars
  <2> QED BY <2>1, <2>2
<1> QED BY <1>3, <1>5, <1>6, <1>7

LEMMA StepInvariant == IInv /\ [Next]_vars => IInv'
BY TypeStep, CountedStep, PastSecStep, StopStep, NeverEarlyStep DEF IInv

LEMMA Invariance == Spec => []IInv
<1>1. Init => IInv
  BY InitInvariant
<1>2. IInv /\ [Next]_vars => IInv'
  BY StepInvariant
<1> QED BY <1>1, <1>2, PTL DEF Spec

(* Every variable keeps its type, for every resolution of the clock: the   *)
(* handler's test for a full second, an equality, never misses one.        *)
THEOREM TypeCorrect == Spec => []TypeOK
<1>1. IInv => TypeOK
  BY DEF IInv
<1> QED BY <1>1, Invariance, PTL

(* A timer entered by timer_start does not expire early, wherever the tics *)
(* fall between the reads of its loop, except in the two cases NeverEarly  *)
(* leaves out: a duration with a second or more in its nanoseconds, over   *)
(* once the seconds are past (timer.c.h:82), and a timer rewound while it  *)
(* runs, if a second passes between the two resets (timer.c.h:61).         *)
THEOREM ExpiresOnTime == Spec => []NeverEarly
<1>1. IInv => NeverEarly
  BY DEF IInv
<1> QED BY <1>1, Invariance, PTL

(* The timer runs whenever its loop is past the test of stop.              *)
THEOREM WaitingRuns == Spec => []WaitsRunning
<1>1. IInv => WaitsRunning
  BY DEF IInv
<1> QED BY <1>1, Invariance, PTL
=============================================================================
