----------------------------- MODULE HeapProps ------------------------------
(* Properties of the allocator of module Heap. *)
EXTENDS Heap

Functions == {"malloc", "realloc", "copy", "free"}

(* The type invariant: addresses, sizes and control values are of the C    *)
(* types of heap_node_t and of the locals of alloc.c.                      *)
TypeOK ==
  /\ DOMAIN nodes \subseteq Nat
  /\ \A n \in DOMAIN nodes :
       nodes[n] \in [next : Nat, size : Nat, used : BOOLEAN]
  /\ DOMAIN live \subseteq Nat
  /\ \A p \in DOMAIN live : live[p] \in Nat
  /\ freed \in Nat
  /\ pc \in {"idle", "panic"} \cup Functions
  /\ caller \in {"client", "realloc"}
  /\ ptr \in Nat /\ size \in Nat /\ want \in Nat
  /\ cur \in Nat /\ prev \in Nat /\ result \in Nat

-----------------------------------------------------------------------------
(* Facts about a node list ns, so that they can be stated of every         *)
(* intermediate list that free builds.                                     *)

(* Every node and the bytes after it lie in the arena.                     *)
InArena(ns) ==
  \A n \in DOMAIN ns : HeapBeginning <= n /\ EndOf(ns, n) <= HeapEnd

(* The list starts at heap_list and next leads to a node above the bytes   *)
(* of this one.                                                            *)
Linked(ns) ==
  /\ HeapBeginning \in DOMAIN ns
  /\ \A n \in DOMAIN ns :
       ns[n].next # NULL => /\ ns[n].next \in DOMAIN ns
                            /\ EndOf(ns, n) <= ns[n].next

(* next leads to the nearest node above: no node is bypassed.              *)
Complete(ns) ==
  \A m, n \in DOMAIN ns :
    m < n => ns[m].next # NULL /\ ns[m].next <= n

(* No two free nodes follow each other.                                    *)
Coalesced(ns) ==
  \A n \in DOMAIN ns :
    ns[n].next # NULL => ns[n].used \/ ns[ns[n].next].used

(* The list survives every split of malloc and every merge of free: it is  *)
(* in the arena, in address order, without overlap, loop or lost node.     *)
ListIntact == InArena(nodes) /\ Linked(nodes) /\ Complete(nodes)

(* free merges in both directions, so two neighbouring free nodes never    *)
(* exist, whatever the order of the calls.                                 *)
FreeNodesMerged == Coalesced(nodes)

(* Every block the client owns is backed by a used node that is large      *)
(* enough for what the client asked for.                                   *)
Backed ==
  \A p \in DOMAIN live :
    /\ p - Header \in DOMAIN nodes
    /\ nodes[p - Header].used
    /\ live[p] <= nodes[p - Header].size

(* A used node belongs to a block of the client, or to the block realloc   *)
(* is about to hand out: no call path of realloc forgets a block.          *)
NoBlockForgotten ==
  \A n \in DOMAIN nodes :
    nodes[n].used =>
      \/ Mem(n) \in DOMAIN live
      \/ pc \in {"copy", "free"} /\ caller = "realloc" /\ Mem(n) = result
      \/ pc = "panic"

(* Writing to a block the client owns can reach neither another block nor  *)
(* the header of any node.                                                 *)
BlocksApart ==
  \A p \in DOMAIN live :
    /\ \A q \in DOMAIN live \ {p} :
         p + live[p] <= q \/ q + live[q] <= p
    /\ \A n \in DOMAIN nodes : p + live[p] <= n \/ Mem(n) <= p

(* free and realloc never walk past the node of a block the client owns,   *)
(* so they find it.                                                        *)
SearchFinds ==
  pc \in {"realloc", "free"} /\ ptr \in DOMAIN live => Mem(cur) <= ptr

(* malloc is first-fit: it has refused no suitable node when it takes or   *)
(* refuses the one at its cursor, so NULL means that no node is suitable.  *)
FirstFit ==
  pc = "malloc" => \A n \in DOMAIN nodes : n < cur => ~ Suits(n)

(* The memcpy of realloc stays inside the node malloc has just returned,   *)
(* and that node is not the one it copies from.                            *)
CopyFits ==
  pc = "copy" /\ result # NULL =>
    /\ result - Header \in DOMAIN nodes
    /\ cur \in DOMAIN nodes /\ cur # result - Header
    /\ nodes[cur].size <= nodes[result - Header].size

(* The double-free panic is only ever raised for a pointer the client does *)
(* not own.                                                                *)
PanicOnlyForStalePointer ==
  [][pc = "free" /\ pc' = "panic" => ptr \notin DOMAIN live]_vars

(* The loops over the list end: every call returns or panics.              *)
CallReturns == pc \in Functions ~> pc \in {"idle", "panic"}

(* The allocator implements the abstract heap.                             *)
Abstract == INSTANCE HeapAbstract
              WITH Low <- HeapBeginning, High <- HeapEnd, blocks <- live

ImplementsAbstractHeap == Abstract!Spec

-----------------------------------------------------------------------------
(* The inductive invariant behind the safety properties.                   *)

(* The list with the types of its fields.                                  *)
Typed(ns) ==
  /\ DOMAIN ns \subseteq Nat
  /\ \A n \in DOMAIN ns :
       ns[n] = [next |-> ns[n].next, size |-> ns[n].size, used |-> ns[n].used]
  /\ \A n \in DOMAIN ns : ns[n].next \in Nat /\ ns[n].size \in Nat
  /\ \A n \in DOMAIN ns : ns[n].used \in BOOLEAN

WellFormed(ns) ==
  /\ ns = [n \in DOMAIN ns |-> ns[n]]
  /\ Typed(ns) /\ InArena(ns) /\ Linked(ns) /\ Complete(ns)

(* The block realloc has allocated and not yet handed to the client.       *)
NewBlock ==
  /\ result # NULL /\ result \notin DOMAIN live
  /\ result - Header \in DOMAIN nodes
  /\ nodes[result - Header].used
  /\ want <= nodes[result - Header].size

(* What the cursors and the caller mean while a function runs.             *)
Control ==
  /\ want = size
  /\ pc \in {"malloc", "realloc", "free"} => cur \in DOMAIN nodes
  /\ pc \in {"idle", "realloc"} => caller = "client"
  /\ pc \notin {"free", "panic"} => prev = NULL
  /\ pc = "free" => IF prev = NULL THEN cur = HeapBeginning
                    ELSE prev \in DOMAIN nodes /\ nodes[prev].next = cur
  /\ pc = "realloc" => ptr \in DOMAIN live \/ ptr = Corrupted
  /\ caller = "realloc" => ptr \in DOMAIN live
  /\ pc \in {"malloc", "copy"} /\ caller = "realloc" =>
       nodes[ptr - Header].size < size
  /\ pc = "copy" => caller = "realloc" /\ cur = ptr - Header
  /\ pc = "copy" /\ result # NULL => NewBlock
  /\ pc = "free" /\ caller = "realloc" => NewBlock
  /\ pc \in {"malloc", "realloc", "copy"} => want \in Requests
  /\ pc = "free" /\ caller = "realloc" => want \in Requests

IInv ==
  /\ TypeOK
  /\ WellFormed(nodes) /\ Coalesced(nodes)
  /\ live = [p \in DOMAIN live |-> live[p]]
  /\ Backed /\ NoBlockForgotten
  /\ SearchFinds /\ FirstFit
  /\ Control
=============================================================================
