----------------------------- MODULE ListsProps -----------------------------
(* What the lists get right.                                               *)
EXTENDS Lists

Walks == [dir : {"next", "prev"}, safe : BOOLEAN, head : Heads, pos : Nodes,
          n : Nodes, seen : Seq(Entries), due : Seq(Entries)]

(* Every variable has its type; the heads may be stale, never poisoned.    *)
TypeOK ==
  /\ mem \in [next : [Nodes -> Pointers], prev : [Nodes -> Pointers]]
  /\ live \subseteq Nodes
  /\ walk = NoWalk \/ walk \in Walks

(* Following next and following prev undo each other at every live node,   *)
(* and neither leads to a node that is not live: after every call, and in  *)
(* the middle of every loop, the rings are closed and no stale or poisoned *)
(* node can be reached from a list.                                        *)
RingsIntact ==
  \A n \in live :
    /\ mem.next[n] \in live /\ mem.prev[mem.next[n]] = n
    /\ mem.prev[n] \in live /\ mem.next[mem.prev[n]] = n

(* A loop that has come to the head has given its body every entry that was*)
(* in the list from its starting point on, once and in order, but those the*)
(* body itself took out ahead of the loop: the safe loops although the body*)
(* removed or moved every entry it was given, and none stands on a node    *)
(* that is no longer live.                                                 *)
LoopsSeeEveryEntry ==
  walk # NoWalk =>
    /\ walk.pos \in live
    /\ walk.pos = walk.head => walk.seen = walk.due

EntriesOf == [h \in Heads |->
  IF h \in live THEN Chain(mem, "next", mem.next[h]) ELSE <<>>]
A == INSTANCE ListsAbstract WITH lists <- EntriesOf

(* What the tests for an empty list, a list of one entry and the last entry*)
(* answer for the list that is there, from the few pointers they look at.  *)
TestsAgree ==
  \A h \in Heads \cap live :
    LET list == Chain(mem, "next", mem.next[h])
    IN /\ list_empty(mem, h) <=> list = <<>>
       /\ list_empty_careful(mem, h) <=> list = <<>>
       /\ list_is_singular(mem, h) <=> Len(list) = 1
       /\ \A i \in DOMAIN list : list_is_last(mem, list[i], h) <=> i = Len(list)

(* A call does to the sequences of entries what its name says, and touches *)
(* no other list.                                                          *)
CallsDoAsNamed ==
  /\ \A h \in Heads : /\ InitListHead(h) => UNCHANGED EntriesOf
                      /\ ListRotateLeft(h) => A!RotateLeft(h)
  /\ \A e \in Entries : ListDel(e) \/ ListDelInit(e) => A!Del(e)
  /\ \A e \in Entries, h \in Heads : /\ ListAdd(e, h) => A!Add(e, h)
                                     /\ ListAddTail(e, h) => A!AddTail(e, h)
                                     /\ ListMove(e, h) => A!Move(e, h)
                                     /\ ListMoveTail(e, h) => A!MoveTail(e, h)
  /\ \A old, new \in Nodes :
       ListReplace(old, new) \/ ListReplaceInit(old, new) => A!Replace(old, new)
  /\ \A list, head \in Heads :
       /\ \A e \in Nodes : ListCutPosition(list, head, e) => A!Cut(list, head, e)
       /\ ListSplice(list, head) \/ ListSpliceInit(list, head) => A!Splice(list, head)
       /\ ListSpliceTail(list, head) \/ ListSpliceTailInit(list, head)
            => A!SpliceTail(list, head)

(* Every call of a behaviour does, and the tests always answer for the list*)
(* that is there.                                                          *)
EveryCallKeepsItsPromise ==
  EntriesOf = A!Empty /\ []TestsAgree /\ [][CallsDoAsNamed]_vars
=============================================================================
