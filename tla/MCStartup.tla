----------------------------- MODULE MCStartup -----------------------------
(* Startup, for TLC: machines with and without more memory below 16 MB than*)
(* a header may report, and with two, or no, bootable partitions of hda;   *)
(* the other drive has one.                                                *)
EXTENDS Startup

MCMachines ==
  {[lower |-> 639, upper |-> u, above |-> 8,
    bootable |-> [d \in Drives |-> IF d = hda THEN b ELSE <<TRUE, FALSE>>]] :
     u \in {15360, 15361}, b \in {<<FALSE, TRUE, TRUE, FALSE>>, <<FALSE, FALSE>>}}
=============================================================================
