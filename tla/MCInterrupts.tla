---------------------------- MODULE MCInterrupts ----------------------------
(* Five devices and seven vectors, for TLC.                                *)
EXTENDS InterruptsProps

(* Clock, keyboard, serial port, floppy and hard disk.                     *)
MCLines == {0, 1, 4, 6, 14}

(* A breakpoint, the clock, a line without handler, a free vector, the     *)
(* second controller's first, the timer and the keyboard's input.          *)
MCVectors == {3, 32, 35, 64, 112, 128, 129}
=============================================================================
