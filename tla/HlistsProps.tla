---------------------------- MODULE HlistsProps ----------------------------
(* What the single-headed lists get right.                                 *)
EXTENDS Hlists

(* In every hlist the pointer a node's pprev names is the pointer that     *)
(* leads to the node, and every node a head or a node leads to is hashed   *)
(* and points back: so that a node can be unlinked without its list, and   *)
(* whatever calls came before, no pointer leads to a node that was deleted.*)
HlistsIntact ==
  /\ \A n \in hashed : /\ hmem.pprev[n] \in Addresses
                       /\ hmem[hmem.pprev[n][1]][hmem.pprev[n][2]] = n
                       /\ hmem.pprev[n][1] = "next" => hmem.pprev[n][2] \in hashed
  /\ \A n \in hashed : \/ hmem.next[n] = NULL
                       \/ /\ hmem.next[n] \in hashed
                          /\ hmem.pprev[hmem.next[n]] = <<"next", n>>
  /\ \A h \in HHeads : \/ hmem.first[h] = NULL
                       \/ /\ hmem.first[h] \in hashed
                          /\ hmem.pprev[hmem.first[h]] = <<"first", h>>

HEntriesOf == [h \in HHeads |-> Nodes_from(hmem, hmem.first[h])]
H == INSTANCE ListsAbstract WITH Heads <- HHeads, Entries <- HNodes,
                                 lists <- HEntriesOf

(* A call on an hlist does to the sequences of nodes what its name says,   *)
(* one on a node that only looks hashed changes no list, and a loop that   *)
(* ends behind the last node has seen every node once and in order.        *)
HCallsDoAsNamed ==
  /\ \A n \in HNodes, h \in HHeads : HlistAddHead(n, h) => H!Add(n, h)
  /\ \A n, next \in HNodes : /\ HlistAddBefore(n, next) => H!AddBefore(n, next)
                            /\ HlistAddAfter(n, next) => H!AddAfter(next, n)
  /\ \A n \in HNodes : /\ HlistDel(n) \/ HlistDelInit(n) => H!Del(n)
                       /\ HlistAddFake(n) \/ InitHlistNode(n) => UNCHANGED HEntriesOf
  /\ \A old, new \in HHeads : HlistMoveList(old, new) => H!Replace(old, new)
  /\ HLeave /\ hwalk.pos = NULL => hwalk.seen = hwalk.due

(* Every call on an hlist, and every loop, does.                           *)
EveryHlistCallKeepsItsPromise ==
  HEntriesOf = H!Empty /\ [][HCallsDoAsNamed]_hvars
=============================================================================
