-------------------------- MODULE ClockTimerProps ---------------------------
(* What the clock and the software timer get right, and what they do not.  *)
EXTENDS ClockTimer

(* A time the clock can show: whole tics, and less than a second of them.  *)
Nsecs == {k * Tick : k \in 0 .. TicsPerSec - 1}
ClockTimes == [sec : 0 .. MaxSec, nsec : Nsecs]

Waiting == {"while", "sec", "equal", "less", "hlt", "halted"}
PCs == Waiting \cup
  {"idle", "nsec", "start", "go", "int80", "disarm", "call", "fault", "handler",
   "auto", "rewind", "rewound", "do"}

(* Every variable has its type: in particular no nanosecond field ever     *)
(* reaches a second, so that the test for a full second is an equality.    *)
TypeOK ==
  /\ client \in {"clock", "timer"}
  /\ sysclock \in ClockTimes /\ spent \in ClockTimes /\ stamp \in ClockTimes
  /\ wait \in Waits \cup {Zero}
  /\ type \in Types /\ handler \in {NULL, "function"} /\ stop \in BOOLEAN
  /\ pc \in PCs /\ back \in {"do", "handler"}
  /\ started \in BOOLEAN /\ torn \in BOOLEAN
  /\ ran \in 0 .. MaxRan
  /\ seen \subseteq ClockTimes

(* A timer that was started never expires early: although its loop reads   *)
(* the seconds twice and the nanoseconds once while the clock changes      *)
(* both, it leaves only after as many tics as the duration takes.  Two     *)
(* exceptions: a duration with a second or more in its nanoseconds, and a  *)
(* timer rewound while running if a second passes between the two resets.  *)
NeverEarly ==
  pc = "disarm" /\ started /\ ~torn /\ wait.nsec < Second
    => Time(wait) <= ran * Tick

(* A timer that waits expires: hlt cannot sleep through the tic that ends  *)
(* the wait, because the next one wakes it.                                *)
Expires == pc \in Waiting ~> pc = "disarm"

(* timer_start returns from a one-shot timer, once its handler has         *)
(* returned, unless there is no handler or it has wound the timer anew.    *)
OneShotReturns ==
  (pc = "int80" /\ type = "ONE_SHOT")
    ~> (pc \in {"idle", "fault"} \/ type = "AUTO_REWIND")

(* While a timer waits it is running, unless int 0x80 was called with the  *)
(* timer stopped: nothing else can leave the loop without the time.        *)
WaitsRunning ==
  pc \in Waiting \ {"while"} => ~stop

(* "give the current system time" (src/shell/shell_cmds.h:43): what        *)
(* clock_gettime has filled is a time the clock showed during the call.    *)
GivesCurrentTime == pc = "idle" /\ seen # {} => stamp \in seen
=============================================================================
