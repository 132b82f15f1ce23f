----------------------------- MODULE MCHardDisk -----------------------------
(* A drive, for TLC.                                                       *)
EXTENDS HardDiskProps

(* Cylinders above 255, so that CX needs its two high bits.                *)
MCDisk == [NC |-> 600, NH |-> 2, NS |-> 3]
MCNames == {"hda", "fda", "sda"}

(* No sector per track, a head too many, and the geometry of a smaller     *)
(* drive, which only the first requests below stay within.                 *)
MCErrorReports == {[cx |-> 0, dh |-> 0], [cx |-> 2, dh |-> 255],
                   [cx |-> 258, dh |-> 1]}

(* One sector: read, refused or read in part.                              *)
OneSector == {<<0, 1>>, <<5, 1>>, <<1538, 1>>, <<3599, 1>>, <<3600, 1>>}

(* Within a track, whole tracks, from the middle of a track such that the  *)
(* chunks come out even, and beyond the disk; below and above cylinder 256.*)
MCRequests == OneSector \cup {<<10, 2>>, <<9, 3>>, <<12, 6>>, <<14, 4>>,
                             <<1539, 3>>, <<3597, 3>>, <<3594, 6>>, <<3599, 2>>}

(* A small drive, of which two tracks are read.                            *)
SmallDisk == [NC |-> 2, NH |-> 2, NS |-> 4]
NoName == {}
NoReport == {}
TwoTracks == {<<0, 8>>}

(* What the theorems about these runs' properties assume of the requests.  *)
ASSUME MCRequestsComeOutEven == EvenRequests
=============================================================================
