---------------------------- MODULE HeapAbstract ----------------------------
(***************************************************************************)
(* What libc/stdlib.h promises of the heap, with no list, header or search: *)
(* the client owns a set of blocks, and every call changes at most one of  *)
(* them.  A block that is handed out lies in the arena and overlaps no     *)
(* block the client already owns.  Running out of memory is a stutter: an  *)
(* allocator may always answer NULL.                                       *)
(***************************************************************************)
EXTENDS Integers

CONSTANTS
  Low,      (* first address of the arena                                  *)
  High,     (* first address after the arena                               *)
  Requests  (* the sizes a client may ask for                              *)

VARIABLE blocks   (* [address of a block the client owns -> its bytes]     *)

(* A block of s bytes at p lies in the arena and shares no byte with any   *)
(* of the blocks bs.                                                       *)
Fits(p, s, bs) ==
  /\ Low <= p /\ p + s <= High
  /\ \A q \in DOMAIN bs : p + s <= q \/ q + bs[q] <= p

Without(p) == [q \in DOMAIN blocks \ {p} |-> blocks[q]]

With(p, s, bs) ==
  [q \in DOMAIN bs \cup {p} |-> IF q = p THEN s ELSE bs[q]]

(* malloc and calloc. *)
Allocate ==
  \E p \in Low .. High, s \in Requests :
    /\ p \notin DOMAIN blocks
    /\ Fits(p, s, blocks)
    /\ blocks' = With(p, s, blocks)

(* free. *)
Release == \E p \in DOMAIN blocks : blocks' = Without(p)

(* realloc that leaves the block where it is. *)
Resize ==
  \E p \in DOMAIN blocks, s \in Requests :
    /\ Fits(p, s, Without(p))
    /\ blocks' = With(p, s, blocks)

(* realloc that moves it: old and new block exist together while the bytes *)
(* are copied, so the new one must not overlap the old one either.         *)
Move ==
  \E p \in DOMAIN blocks, q \in Low .. High, s \in Requests :
    /\ q \notin DOMAIN blocks
    /\ Fits(q, s, blocks)
    /\ blocks' = With(q, s, Without(p))

Init == blocks = [p \in {} |-> 0]

Next == Allocate \/ Release \/ Resize \/ Move

Spec == Init /\ [][Next]_blocks
=============================================================================
