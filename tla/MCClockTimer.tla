---------------------------- MODULE MCClockTimer ----------------------------
(* A clock of two tics a second, for TLC.                                  *)
EXTENDS ClockTimerProps

(* Part of a tic; more than a second by part of a tic; more than a second  *)
(* written in nanoseconds.                                                 *)
MCWaits == {[sec |-> 0, nsec |-> 1], [sec |-> 1, nsec |-> 3],
            [sec |-> 0, nsec |-> 6]}
NoWaits == {}
=============================================================================
