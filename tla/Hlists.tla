------------------------------- MODULE Hlists -------------------------------
(* The lists with a single-pointer head of include/utils/list.h.  pprev is *)
(* the address of the pointer that leads to the node: <<"first", h>> is    *)
(* that of a head's field, <<"next", n>> that of a node's, and hmem[a[1]]  *)
(* [a[2]] is what the address a holds.                                     *)
EXTENDS Naturals, Sequences, FiniteSets

CONSTANTS HHeads, HNodes, NULL, POISON

Addresses == ({"first"} \X HHeads) \cup ({"next"} \X HNodes)

ASSUME HlistsAssumption ==
  /\ HHeads \cap HNodes = {} /\ NULL # POISON
  /\ {NULL, POISON} \cap (HHeads \cup HNodes \cup Addresses) = {}
  /\ IsFiniteSet(HNodes)

VARIABLES hmem,     \* the fields: first of the heads, next and pprev of nodes
          hashed,   \* the nodes that are in a list
          hwalk     \* the hlist_for_each loop under way

hvars == <<hmem, hashed, hwalk>>
-----------------------------------------------------------------------------
INIT_HLIST_NODE(m, h) == [m EXCEPT !.next[h] = NULL, !.pprev[h] = NULL]
hlist_unhashed(m, h) == m.pprev[h] = NULL
hlist_empty(m, h) == m.first[h] = NULL

(* if (node) node->pprev = address                                         *)
PointBack(m, node, address) ==
  IF node = NULL THEN m ELSE [m EXCEPT !.pprev[node] = address]

(* Mutant of hlist_unlink: the next node still points back at n.           *)
hlist_unlinkMutant(m, n) == [m EXCEPT ![m.pprev[n][1]][m.pprev[n][2]] = m.next[n]]

hlist_unlink(m, n) ==
  PointBack([m EXCEPT ![m.pprev[n][1]][m.pprev[n][2]] = m.next[n]],
            m.next[n], m.pprev[n])

hlist_del(m, n) ==
  [hlist_unlink(m, n) EXCEPT !.next[n] = POISON, !.pprev[n] = POISON]
hlist_del_init(m, n) ==
  IF hlist_unhashed(m, n) THEN m ELSE INIT_HLIST_NODE(hlist_unlink(m, n), n)

hlist_add_head(m, n, h) ==
  [PointBack([m EXCEPT !.next[n] = m.first[h]], m.first[h], <<"next", n>>)
     EXCEPT !.first[h] = n, !.pprev[n] = <<"first", h>>]

hlist_add_before(m, n, next) ==
  LET link == [m EXCEPT !.pprev[n] = m.pprev[next], !.next[n] = next,
                        !.pprev[next] = <<"next", n>>]
  IN [link EXCEPT ![link.pprev[n][1]][link.pprev[n][2]] = n]

(* It is next that is added, after n.                                      *)
hlist_add_after(m, n, next) ==
  PointBack([m EXCEPT !.next[next] = m.next[n], !.next[n] = next,
                      !.pprev[next] = <<"next", n>>],
            m.next[n], <<"next", next>>)

hlist_add_fake(m, n) == [m EXCEPT !.pprev[n] = <<"next", n>>]

(* Mutant of hlist_move_list: the old head is not emptied.                 *)
hlist_move_listMutant(m, old, new) ==
  PointBack([m EXCEPT !.first[new] = m.first[old]], m.first[old], <<"first", new>>)

hlist_move_list(m, old, new) ==
  [PointBack([m EXCEPT !.first[new] = m.first[old]], m.first[old], <<"first", new>>)
     EXCEPT !.first[old] = NULL]
-----------------------------------------------------------------------------
(* The nodes from one on.                                                  *)
Nodes_from(m, from) ==
  LET f[k \in Nat] == IF k = 0 THEN from
                      ELSE IF f[k - 1] \in HNodes THEN m.next[f[k - 1]]
                      ELSE f[k - 1]
      met == {k \in 0 .. Cardinality(HNodes) : f[k] \in HNodes}
  IN [k \in 1 .. Cardinality(met) |-> f[k - 1]]

NoHwalk == [safe |-> "none"]
HCall(m, nodes) ==
  hwalk = NoHwalk /\ hmem' = m /\ hashed' = nodes /\ UNCHANGED hwalk

InitHlistNode(n) == n \notin hashed /\ HCall(INIT_HLIST_NODE(hmem, n), hashed)
HlistAddHead(n, h) ==
  n \notin hashed /\ HCall(hlist_add_head(hmem, n, h), hashed \cup {n})
HlistAddBefore(n, next) ==
  /\ n \notin hashed /\ next \in hashed
  /\ HCall(hlist_add_before(hmem, n, next), hashed \cup {n})
HlistAddAfter(n, next) ==
  /\ next \notin hashed /\ n \in hashed
  /\ HCall(hlist_add_after(hmem, n, next), hashed \cup {next})

(* A node that has been initialised and made to look hashed.               *)
Faked(n) == hmem.next[n] = NULL /\ hmem.pprev[n] = <<"next", n>>
HlistAddFake(n) ==
  /\ n \notin hashed /\ hmem.next[n] = NULL /\ hlist_unhashed(hmem, n)
  /\ HCall(hlist_add_fake(hmem, n), hashed)

HlistDel(n) ==
  (n \in hashed \/ Faked(n)) /\ HCall(hlist_del(hmem, n), hashed \ {n})
HlistDelInit(n) ==
  /\ n \in hashed \/ Faked(n) \/ hlist_unhashed(hmem, n)
  /\ HCall(hlist_del_init(hmem, n), hashed \ {n})
HlistMoveList(old, new) ==
  /\ old # new /\ hlist_empty(hmem, new)
  /\ HCall(hlist_move_list(hmem, old, new), hashed)

(* The loops, from the first node, from a node or from the one after it.   *)
HForEach(safe, first) ==
  /\ hwalk = NoHwalk
  /\ hwalk' = [safe |-> safe, pos |-> first, seen |-> <<>>,
               due |-> Nodes_from(hmem, first)]
  /\ UNCHANGED <<hmem, hashed>>
HForEachFrom(safe) ==
  \/ \E h \in HHeads : HForEach(safe, hmem.first[h])
  \/ \E n \in hashed : ~safe /\ (HForEach(safe, n) \/ HForEach(safe, hmem.next[n]))

(* One iteration: the body looks, or takes pos out; the safe loops have    *)
(* read pos->next before it.                                               *)
HBody(m, nodes) ==
  /\ hwalk # NoHwalk /\ hwalk.pos \in hashed
  /\ hmem' = m /\ hashed' = nodes
  /\ hwalk' = [hwalk EXCEPT !.seen = Append(@, hwalk.pos),
                            !.pos = IF hwalk.safe THEN hmem.next[hwalk.pos]
                                    ELSE m.next[hwalk.pos]]
HLook == HBody(hmem, hashed)
HDelPos ==
  /\ hwalk # NoHwalk /\ hwalk.safe /\ hwalk.pos \in hashed
  /\ \/ HBody(hlist_del(hmem, hwalk.pos), hashed \ {hwalk.pos})
     \/ HBody(hlist_del_init(hmem, hwalk.pos), hashed \ {hwalk.pos})
HLeave == hwalk # NoHwalk /\ hwalk' = NoHwalk /\ UNCHANGED <<hmem, hashed>>
-----------------------------------------------------------------------------
HInit ==
  /\ hmem = [first |-> [h \in HHeads |-> NULL],
             next |-> [n \in HNodes |-> POISON], pprev |-> [n \in HNodes |-> POISON]]
  /\ hashed = {} /\ hwalk = NoHwalk

HNext ==
  \/ \E n \in HNodes : \/ InitHlistNode(n) \/ HlistAddFake(n)
                       \/ HlistDel(n) \/ HlistDelInit(n)
  \/ \E n \in HNodes, h \in HHeads : HlistAddHead(n, h)
  \/ \E n, next \in HNodes : HlistAddBefore(n, next) \/ HlistAddAfter(n, next)
  \/ \E old, new \in HHeads : HlistMoveList(old, new)
  \/ \E safe \in BOOLEAN : HForEachFrom(safe)
  \/ HLook \/ HDelPos \/ HLeave

HSpec == HInit /\ [][HNext]_hvars
=============================================================================
