----------------------------- MODULE ClockTimer -----------------------------
(***************************************************************************)
(* The system clock (arch/x86/lib/clock.c) and the software timer it       *)
(* drives (arch/x86/lib/timer.c.h).  The clock's interrupt handler runs    *)
(* whole, between any two steps of the program: the 64-bit fields that     *)
(* change are below 2^32, so that a field is read and written in one step, *)
(* but a timespec has two.                                                 *)
(***************************************************************************)
EXTENDS Integers

CONSTANTS
  Tick,       (* SYS_CLOCK_RESOLUTION_TIC_ns, in some unit                 *)
  TicsPerSec, (* SYS_CLOCK_nbTICS_1s                                       *)
  Waits,      (* the durations the client winds the timer to               *)
  MaxSec      (* bound: seconds are counted up to here                     *)

Second == TicsPerSec * Tick
Timespecs == [sec : Nat, nsec : Nat]

ASSUME ClockAssumption ==
  /\ Tick \in Nat \ {0} /\ TicsPerSec \in Nat \ {0}
  /\ Waits \subseteq Timespecs
  /\ MaxSec \in Nat

NULL == "NULL"
Types == {"ONE_SHOT", "AUTO_REWIND"}
Zero == [sec |-> 0, nsec |-> 0]

VARIABLES
  client,   (* the program considered: it reads the clock or uses the timer *)
  sysclock,
  wait, spent, type, handler, stop,  (* softtimer0                         *)
  pc,       (* what runs; "idle" is the client, outside this module        *)
  back,     (* where timer_rewind returns to                               *)
  stamp,    (* what clock_gettime fills                                    *)
  started,  (* history: the handler was entered by timer_start             *)
  ran,      (* history: tics since spent was reset, up to a bound          *)
  torn,     (* history: a second passed between the two resets of spent    *)
  seen      (* history: the times of the clock during this clock_gettime   *)

softtimer0 == <<wait, spent, type, handler, stop>>
history == <<started, ran, torn, seen>>
vars == <<client, sysclock, softtimer0, pc, back, stamp, history>>

Time(t) == t.sec * Second + t.nsec

-----------------------------------------------------------------------------
(* isr_clock_int.                                                          *)

NextSec(sec) == IF sec < MaxSec THEN sec + 1 ELSE sec

Advanced(t) ==
  IF (t.nsec + Tick) % Second = 0
  THEN [sec |-> NextSec(t.sec), nsec |-> 0]
  ELSE [sec |-> t.sec, nsec |-> t.nsec + Tick]

MaxRan == (MaxSec + 1) * TicsPerSec

InterruptsEnabled == pc # "int80"

isr_clock_int ==
  /\ InterruptsEnabled
  /\ sysclock' = Advanced(sysclock)
  /\ spent' = IF stop THEN spent ELSE Advanced(spent)
  /\ pc' = IF pc = "halted" THEN "while" ELSE pc
  /\ ran' = IF ran < MaxRan THEN ran + 1 ELSE ran
  /\ seen' = IF pc = "nsec" THEN seen \cup {sysclock'} ELSE seen
  /\ UNCHANGED <<wait, type, handler, stop, back, stamp, started, torn, client>>

-----------------------------------------------------------------------------
(* The client.                                                             *)

Goto(from, to) ==
  pc = from /\ pc' = to /\ UNCHANGED <<client, sysclock, seen>>

(* timer_wind stops the timer first, so it is one step to the interrupt.   *)
(* sleep and nanosleep give no handler.                                    *)
timer_wind(t, w, h) ==
  /\ client = "timer" /\ pc \in {"idle", "handler"}
  /\ stop' = TRUE /\ spent' = Zero
  /\ type' = t /\ wait' = w /\ handler' = h
  /\ ran' = 0 /\ torn' = FALSE
  /\ UNCHANGED <<client, sysclock, pc, back, stamp, started, seen>>

(* The two resets of timer_start and of timer_rewind, and what follows.    *)
ResetSec(from, to) ==
  /\ Goto(from, to)
  /\ spent' = [spent EXCEPT !.sec = 0]
  /\ UNCHANGED <<wait, type, handler, stop, stamp, started, ran, torn>>

(* Mutant of ResetNsec: the nanoseconds keep their value.                  *)
ResetNsecMutant(from, to) ==
  /\ Goto(from, to)
  /\ ran' = 0 /\ torn' = (spent.sec # 0)
  /\ UNCHANGED <<spent, wait, type, handler, stop, back, stamp, started>>

ResetNsec(from, to) ==
  /\ Goto(from, to)
  /\ spent' = [spent EXCEPT !.nsec = 0]
  /\ ran' = 0 /\ torn' = (spent.sec # 0)
  /\ UNCHANGED <<wait, type, handler, stop, back, stamp, started>>

Go(from, to) ==
  /\ Goto(from, to)
  /\ stop' = FALSE
  /\ UNCHANGED <<wait, spent, type, handler, back, stamp, ran, torn>>

timer_start ==
  client = "timer" /\ ResetSec("idle", "start") /\ UNCHANGED back
StartNsec == ResetNsec("start", "go")
StartGo == Go("go", "int80") /\ started' = TRUE

(* The shell's command "int 128".                                          *)
IntCommand ==
  /\ client = "timer"
  /\ Goto("idle", "int80")
  /\ started' = FALSE
  /\ UNCHANGED <<softtimer0, back, stamp, ran, torn>>

clock_gettime ==
  /\ client = "clock" /\ pc = "idle" /\ pc' = "nsec"
  /\ stamp' = [stamp EXCEPT !.sec = sysclock.sec]
  /\ seen' = {sysclock}
  /\ UNCHANGED <<client, sysclock, softtimer0, back, started, ran, torn>>

GetNsec ==
  /\ Goto("nsec", "idle")
  /\ stamp' = [stamp EXCEPT !.nsec = sysclock.nsec]
  /\ UNCHANGED <<softtimer0, back, started, ran, torn>>

-----------------------------------------------------------------------------
(* isr_timer_int, a test at a time: each reads what the clock changes.     *)

Step(from, to) ==
  Goto(from, to) /\ UNCHANGED <<softtimer0, back, stamp, started, ran, torn>>

sti == Step("int80", "while")

TestStop == IF stop THEN Step("while", "disarm") ELSE Step("while", "sec")

TestSec ==
  IF wait.sec > spent.sec THEN Step("sec", "hlt") ELSE Step("sec", "equal")

(* Mutant of TestEqual: the nanoseconds decide whatever the seconds.       *)
TestEqualMutant == Step("equal", "less")

TestEqual ==
  IF wait.sec = spent.sec THEN Step("equal", "less") ELSE Step("equal", "disarm")

TestNsec ==
  IF wait.nsec > spent.nsec THEN Step("less", "hlt") ELSE Step("less", "disarm")

hlt == Step("hlt", "halted")

Disarm(from, to) ==
  /\ Goto(from, to)
  /\ stop' = TRUE
  /\ UNCHANGED <<wait, spent, type, handler, back, stamp, started, ran, torn>>

Expire == Disarm("disarm", "call")

(* A call through NULL runs whatever memory holds at address 0.            *)
CallHandler ==
  IF handler = NULL THEN Step("call", "fault") ELSE Step("call", "handler")

(* The handler may itself disarm, rewind or wind the timer, in any order.  *)
HandlerDisarms == Disarm("handler", "handler")
HandlerRewinds == ResetSec("handler", "rewind") /\ back' = "handler"
HandlerReturns ==
  IF type = "AUTO_REWIND" THEN Step("handler", "auto") ELSE Step("handler", "do")

AutoRewind == ResetSec("auto", "rewind") /\ back' = "do"
RewindNsec == ResetNsec("rewind", "rewound")
RewindGo == Go("rewound", back) /\ UNCHANGED started

(* Mutant of Again: the loop goes on whatever the type.                    *)
AgainMutant ==
  IF ~stop THEN Step("do", "while") ELSE Step("do", "idle")

Again ==
  IF ~stop /\ type = "AUTO_REWIND" THEN Step("do", "while") ELSE Step("do", "idle")

-----------------------------------------------------------------------------
(* softtimer0 is zero at boot: its timer is not stopped.                   *)
Init ==
  /\ client \in {"clock", "timer"}
  /\ sysclock = Zero
  /\ wait = Zero /\ spent = Zero /\ type = "ONE_SHOT" /\ handler = NULL
  /\ stop = FALSE
  /\ pc = "idle" /\ back = "do" /\ stamp = Zero
  /\ started = FALSE /\ ran = 0 /\ torn = FALSE /\ seen = {}

Wind ==
  \E t \in Types, w \in Waits, h \in {NULL, "function"} : timer_wind(t, w, h)

Timer ==
  \/ StartNsec \/ StartGo \/ sti
  \/ TestStop \/ TestSec \/ TestEqual \/ TestNsec \/ hlt
  \/ Expire \/ CallHandler
  \/ AutoRewind \/ RewindNsec \/ RewindGo \/ Again

Client ==
  \/ Wind \/ timer_start \/ IntCommand \/ clock_gettime \/ GetNsec
  \/ HandlerDisarms \/ HandlerRewinds \/ HandlerReturns

Next == isr_clock_int \/ Client \/ Timer

Spec == Init /\ [][Next]_vars

(* The clock ticks, the processor executes, and every handler returns.     *)
FairSpec ==
  Spec /\ WF_vars(isr_clock_int) /\ WF_vars(Timer) /\ SF_vars(HandlerReturns)
=============================================================================
