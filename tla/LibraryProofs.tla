---------------------------- MODULE LibraryProofs ----------------------------
(* What the library gets right, for any number of heads, entries and       *)
(* nodes, any memory and any text. In this order: induction over the       *)
(* natural numbers, by least elements; the rings of list.h and the         *)
(* pointers of hlist.h; the sequences of entries the rings hold, what      *)
(* every call does to them and what every loop meets; the same for         *)
(* hlist.h; copies; numbers written and read back; and formats, read       *)
(* directive by directive.                                                 *)
EXTENDS ListsProps, HlistsProps, LibcProps,
        WellFoundedInduction, FiniteSetTheorems, SequenceTheorems, TLAPS

(* A set of natural numbers has a least element.                           *)
LEMMA LeastElement ==
  ASSUME NEW S, S \subseteq Nat, S # {}
  PROVE  \E m \in S : \A i \in S : m <= i
<1> DEFINE R == {ss \in Nat \X Nat : ss[1] < ss[2]}
<1>1. IsWellFoundedOn(R, Nat)
  BY NatLessThanWellFounded DEF OpToRel
<1>2. PICK m \in S : \A i \in S : ~ (<<i, m>> \in R)
  <2> HIDE DEF R
  <2> QED BY <1>1, WFMin
<1>3. ASSUME NEW i \in S PROVE m <= i
  <2> SUFFICES ASSUME ~ (m <= i) PROVE FALSE
    OBVIOUS
  <2>1. <<i, m>> \in R
    OBVIOUS
  <2> HIDE DEF R
  <2> QED BY <1>2, <2>1
<1> QED BY <1>3

(* Induction over the numbers up to n, for a set of numbers.               *)
LEMMA Ascending ==
  ASSUME NEW n \in Nat, NEW S, 0 \in S,
         \A i \in 1 .. n : i - 1 \in S => i \in S
  PROVE  0 .. n \subseteq S
<1> SUFFICES ASSUME (0 .. n) \ S # {} PROVE FALSE
  OBVIOUS
<1>1. PICK k \in (0 .. n) \ S : \A i \in (0 .. n) \ S : k <= i
  <2> DEFINE T == (0 .. n) \ S
  <2>1. T \subseteq Nat /\ T # {}
    OBVIOUS
  <2> HIDE DEF T
  <2>2. \E m \in T : \A i \in T : m <= i
    BY <2>1, LeastElement
  <2> QED BY <2>2 DEF T
<1>2. k \in 1 .. n /\ k - 1 \in 0 .. n /\ ~ (k <= k - 1)
  BY <1>1
<1>3. k - 1 \in S
  BY <1>1, <1>2
<1> QED BY <1>1, <1>2, <1>3

(* Induction downwards.                                                    *)
LEMMA Descending ==
  ASSUME NEW n \in Nat, NEW S, n \in S,
         \A i \in 0 .. n - 1 : i + 1 \in S => i \in S
  PROVE  0 .. n \subseteq S
<1> DEFINE T == {j \in 0 .. n : n - j \in S}
<1>1. 0 \in T
  OBVIOUS
<1>2. ASSUME NEW j \in 1 .. n, j - 1 \in T PROVE j \in T
  <2>1. n - j \in 0 .. n - 1 /\ (n - j) + 1 = n - (j - 1)
    OBVIOUS
  <2> QED BY <1>2, <2>1
<1>3. 0 .. n \subseteq T
  <2> HIDE DEF T
  <2> QED BY <1>1, <1>2, Ascending
<1>4. ASSUME NEW i \in 0 .. n PROVE i \in S
  <2>1. n - i \in 0 .. n /\ n - (n - i) = i
    OBVIOUS
  <2>2. n - i \in T
    BY <1>3, <2>1
  <2> QED BY <2>1, <2>2
<1> QED BY <1>4


(* The pointers of a memory: every head and entry points somewhere, next   *)
(* and prev.                                                               *)
Links == [Nodes -> Pointers]
Memory == [next : Links, prev : Links]

(* RingsIntact of any memory m and any set l of nodes.                     *)
Ring(m, l) ==
  /\ m \in Memory /\ l \subseteq Nodes
  /\ \A n \in l : /\ m.next[n] \in l /\ m.prev[m.next[n]] = n
                  /\ m.prev[n] \in l /\ m.next[m.prev[n]] = n

(* A node by itself may be left out of the rings.                          *)
LEMMA LooseIsOutside ==
  ASSUME NEW m, NEW l, Ring(m, l), NEW n, n \notin l \/ m.next[n] = n
  PROVE  Ring(m, l \ {n})
BY DEF Ring

(* INIT_LIST_HEAD makes a ring of one of a node that is in no list.        *)
LEMMA InitAddsRing ==
  ASSUME NEW m, NEW l, Ring(m, l), NEW n \in Nodes, n \notin l
  PROVE  Ring(INIT_LIST_HEAD(m, n), l \cup {n})
BY DEF Ring, INIT_LIST_HEAD, Memory, Links, Pointers

(* Linking a loose entry between two neighbours keeps the rings.           *)
LEMMA LinkKeepsRing ==
  ASSUME NEW m, NEW l, Ring(m, l), NEW n \in Nodes, n \notin l, NEW p \in l
  PROVE  Ring(list_add_between(m, n, p, m.next[p]), l \cup {n})
BY DEF Ring, list_add_between, Memory, Links, Pointers

(* So does making two nodes neighbours over the one between them,          *)
LEMMA UnlinkKeepsRing ==
  ASSUME NEW m, NEW l, Ring(m, l), NEW n \in l
  PROVE  Ring(list_del_entry(m, n), l \ {n})
BY DEF Ring, list_del_entry, list_del_between, Memory, Links, Pointers

(* and list_del, which poisons the entry it takes out.                     *)
LEMMA DelKeepsRing ==
  ASSUME NEW m, NEW l, Ring(m, l), NEW n \in l
  PROVE  Ring(list_del(m, n), l \ {n})
<1>1. Ring(list_del_entry(m, n), l \ {n})
  BY UnlinkKeepsRing
<1>2. n \in Nodes
  BY DEF Ring
<1>. QED
  BY <1>1, <1>2 DEF Ring, list_del, Memory, Links, Pointers

(* list_replace puts a loose node in the place of a linked one.            *)
LEMMA ReplaceKeepsRing ==
  ASSUME NEW m, NEW l, Ring(m, l), NEW o \in l, NEW n \in Nodes, n \notin l
  PROVE  Ring(list_replace(m, o, n), (l \ {o}) \cup {n})
<1>1. CASE m.next[o] = o
  BY <1>1 DEF Ring, list_replace, Memory, Links, Pointers
<1>2. CASE m.next[o] # o
  BY <1>2 DEF Ring, list_replace, Memory, Links, Pointers
<1>. QED
  BY <1>1, <1>2

(* Cutting a list in two between its neighbours leaves two rings,          *)
LEMMA CutKeepsRing ==
  ASSUME NEW m, NEW l, Ring(m, l), NEW n \in Nodes, n \notin l,
         NEW h \in l, NEW e \in l, e # h
  PROVE  Ring(list_cut_between(m, n, h, e), l \cup {n})
BY DEF Ring, list_cut_between, Memory, Links, Pointers

(* and splicing one list into another leaves the second whole.             *)
LEMMA SpliceKeepsRing ==
  ASSUME NEW m, NEW l, Ring(m, l), NEW n \in l, m.next[n] # n,
         NEW p \in l, p # n, m.next[p] # n
  PROVE  Ring(list_splice_between(m, n, p, m.next[p]), l \ {n})
BY DEF Ring, list_splice_between, Memory, Links, Pointers
-----------------------------------------------------------------------------
(* RingsIntact, strengthened by the types: the inductive invariant of the  *)
(* rings.                                                                  *)
IInv == Ring(mem, live)

(* At the start no node is in a list.                                      *)
LEMMA InitIInv == Init => IInv
BY DEF Init, IInv, Ring, Memory, Links, Pointers, Nodes

(* Adding and moving: the node is made loose first, then linked.           *)
LEMMA AddKeepsIInv ==
  ASSUME NEW m, NEW l, Ring(m, l), NEW h \in l, NEW n \in Nodes, n # h,
         n \notin l \/ m.next[n] = n
  PROVE  /\ Ring(list_add(m, n, h), l \cup {n})
         /\ Ring(list_add_tail(m, n, h), l \cup {n})
<1>1. Ring(m, l \ {n}) /\ (l \ {n}) \cup {n} = l \cup {n} /\ h \in l \ {n}
  BY LooseIsOutside
<1>2. Ring(list_add_between(m, n, h, m.next[h]), l \cup {n})
  BY <1>1, LinkKeepsRing
<1>3. m.prev[h] \in l \ {n} /\ m.next[m.prev[h]] = h
  BY <1>1 DEF Ring
<1>4. Ring(list_add_between(m, n, m.prev[h], m.next[m.prev[h]]), l \cup {n})
  BY <1>1, <1>3, LinkKeepsRing
<1>. QED
  BY <1>2, <1>3, <1>4 DEF list_add, list_add_tail

(* The operations of list.h made of those steps.                           *)
LEMMA MoveKeepsRing ==
  ASSUME NEW m, NEW l, Ring(m, l), NEW n \in l, NEW h \in l, n # h
  PROVE  Ring(list_move(m, n, h), l) /\ Ring(list_move_tail(m, n, h), l)
<1>0. n \in Nodes /\ h \in l \ {n} /\ n \notin l \ {n}
  BY DEF Ring
<1>1. Ring(list_del_entry(m, n), l \ {n})
  BY UnlinkKeepsRing
<1>2. /\ Ring(list_add(list_del_entry(m, n), n, h), (l \ {n}) \cup {n})
      /\ Ring(list_add_tail(list_del_entry(m, n), n, h), (l \ {n}) \cup {n})
  BY <1>0, <1>1, AddKeepsIInv
<1>3. (l \ {n}) \cup {n} = l
  OBVIOUS
<1>. QED
  BY <1>2, <1>3 DEF list_move, list_move_tail

LEMMA DelInitKeepsRing ==
  ASSUME NEW m, NEW l, Ring(m, l), NEW n \in l
  PROVE  Ring(list_del_init(m, n), l)
<1>0. n \in Nodes /\ n \notin l \ {n}
  BY DEF Ring
<1>1. Ring(list_del_entry(m, n), l \ {n})
  BY UnlinkKeepsRing
<1>2. Ring(INIT_LIST_HEAD(list_del_entry(m, n), n), (l \ {n}) \cup {n})
  BY <1>0, <1>1, InitAddsRing
<1>3. (l \ {n}) \cup {n} = l
  OBVIOUS
<1>. QED
  BY <1>2, <1>3 DEF list_del_init

LEMMA RotateKeepsRing ==
  ASSUME NEW m, NEW l, Ring(m, l), NEW h \in l
  PROVE  Ring(list_rotate_left(m, h), l)
<1>1. m.next[h] \in l
  BY DEF Ring
<1>2. CASE list_empty(m, h)
  BY <1>2 DEF list_rotate_left
<1>3. CASE ~list_empty(m, h)
  BY <1>1, <1>3, MoveKeepsRing DEF list_rotate_left, list_empty
<1>. QED
  BY <1>2, <1>3

LEMMA ReplaceInitKeepsRing ==
  ASSUME NEW m, NEW l, Ring(m, l), NEW o \in l, NEW n \in Nodes, n \notin l
  PROVE  Ring(list_replace_init(m, o, n), l \cup {n})
<1>1. Ring(list_replace(m, o, n), (l \ {o}) \cup {n})
  BY ReplaceKeepsRing
<1>2. o \in Nodes /\ o \notin (l \ {o}) \cup {n}
  BY DEF Ring
<1>3. Ring(INIT_LIST_HEAD(list_replace(m, o, n), o), ((l \ {o}) \cup {n}) \cup {o})
  BY <1>1, <1>2, InitAddsRing
<1>4. ((l \ {o}) \cup {n}) \cup {o} = l \cup {n}
  OBVIOUS
<1>. QED
  BY <1>3, <1>4 DEF list_replace_init

LEMMA CutPositionKeepsRing ==
  ASSUME NEW m, NEW l, Ring(m, l), NEW n \in Nodes, n \notin l \/ m.next[n] = n,
         NEW h \in l, NEW e \in l, n # h, n # e
  PROVE  Ring(list_cut_position(m, n, h, e),
              IF CutsNothing(m, h, e) THEN l ELSE l \cup {n})
<1>1. Ring(m, l \ {n}) /\ (l \ {n}) \cup {n} = l \cup {n}
      /\ h \in l \ {n} /\ e \in l \ {n} /\ n \notin l \ {n}
  BY LooseIsOutside
<1>2. CASE CutsNothing(m, h, e)
  BY <1>2 DEF list_cut_position
<1>3. CASE ~CutsNothing(m, h, e) /\ e = h
  <2>1. Ring(INIT_LIST_HEAD(m, n), l \cup {n})
    BY <1>1, InitAddsRing
  <2>. QED
    BY <1>3, <2>1 DEF list_cut_position
<1>4. CASE ~CutsNothing(m, h, e) /\ e # h
  <2>1. Ring(list_cut_between(m, n, h, e), l \cup {n})
    BY <1>1, <1>4, CutKeepsRing
  <2>. QED
    BY <1>4, <2>1 DEF list_cut_position
<1>. QED
  BY <1>2, <1>3, <1>4

(* Either end of head, for a list that is not beside it.                   *)
LEMMA SpliceEnds ==
  ASSUME NEW m, NEW l, Ring(m, l), NEW n \in l, NEW h \in l, n # h,
         n \notin {m.next[h], m.prev[h]}
  PROVE  LET rest == IF list_empty(m, n) THEN l ELSE l \ {n}
         IN /\ Ring(list_splice(m, n, h), rest)
            /\ Ring(list_splice_tail(m, n, h), rest)
            /\ Ring(list_splice_init(m, n, h), l)
            /\ Ring(list_splice_tail_init(m, n, h), l)
<1>1. CASE list_empty(m, n)
  BY <1>1 DEF list_splice, list_splice_tail, list_splice_init, list_splice_tail_init
<1>2. CASE ~list_empty(m, n)
  <2>1. m.next[n] # n /\ n \in Nodes
    BY <1>2 DEF list_empty, Ring
  <2>2. m.prev[h] \in l /\ m.next[m.prev[h]] = h
    BY DEF Ring
  <2>3. Ring(list_splice_between(m, n, h, m.next[h]), l \ {n})
    BY <2>1, SpliceKeepsRing
  <2>4. Ring(list_splice_between(m, n, m.prev[h], m.next[m.prev[h]]), l \ {n})
    BY <2>1, <2>2, SpliceKeepsRing
  <2>5. Ring(list_splice(m, n, h), l \ {n}) /\ Ring(list_splice_tail(m, n, h), l \ {n})
    BY <1>2, <2>2, <2>3, <2>4 DEF list_splice, list_splice_tail
  <2>6. /\ Ring(INIT_LIST_HEAD(list_splice(m, n, h), n), (l \ {n}) \cup {n})
        /\ Ring(INIT_LIST_HEAD(list_splice_tail(m, n, h), n), (l \ {n}) \cup {n})
    BY <2>1, <2>5, InitAddsRing
  <2>7. (l \ {n}) \cup {n} = l
    OBVIOUS
  <2>. QED
    BY <1>2, <2>5, <2>6, <2>7 DEF list_splice_init, list_splice_tail_init
<1>. QED
  BY <1>1, <1>2

-----------------------------------------------------------------------------
USE DEF Call, Loose, IInv

(* Every call of list.h keeps the rings: those that take a head and an     *)
(* entry,                                                                  *)
LEMMA CallsKeepIInv ==
  ASSUME IInv, NEW h \in Heads, NEW e \in Entries,
         \/ InitListHead(h) \/ ListRotateLeft(h) \/ ListDel(e) \/ ListDelInit(e)
         \/ ListAdd(e, h) \/ ListAddTail(e, h) \/ ListMove(e, h) \/ ListMoveTail(e, h)
  PROVE  IInv'
<1>0. h \in Nodes /\ e \in Nodes /\ e # h
  BY ListsAssumption DEF Nodes
<1>1. CASE InitListHead(h)
  BY <1>0, <1>1, InitAddsRing DEF InitListHead
<1>2. CASE ListRotateLeft(h)
  BY <1>2, RotateKeepsRing DEF ListRotateLeft
<1>3. CASE ListDel(e)
  BY <1>3, DelKeepsRing DEF ListDel
<1>4. CASE ListDelInit(e)
  BY <1>4, DelInitKeepsRing DEF ListDelInit
<1>5. CASE ListAdd(e, h)
  BY <1>0, <1>5, AddKeepsIInv DEF ListAdd
<1>6. CASE ListAddTail(e, h)
  BY <1>0, <1>6, AddKeepsIInv DEF ListAddTail
<1>7. CASE ListMove(e, h)
  BY <1>0, <1>7, MoveKeepsRing DEF ListMove
<1>8. CASE ListMoveTail(e, h)
  BY <1>0, <1>8, MoveKeepsRing DEF ListMoveTail
<1>. QED
  BY <1>1, <1>2, <1>3, <1>4, <1>5, <1>6, <1>7, <1>8

(* those that replace an entry or a head,                                  *)
LEMMA ReplaceKeepsIInv ==
  ASSUME IInv, NEW o \in Nodes, NEW n \in Nodes,
         ListReplace(o, n) \/ ListReplaceInit(o, n)
  PROVE  IInv'
<1>1. MayReplace(o, n)
  BY DEF ListReplace, ListReplaceInit
<1>2. Ring(mem, live \ {n}) /\ o \in live \ {n} /\ n \notin live \ {n}
  BY <1>1, LooseIsOutside DEF MayReplace
<1>3. Ring(list_replace(mem, o, n), ((live \ {n}) \ {o}) \cup {n})
  BY <1>2, ReplaceKeepsRing
<1>4. Ring(list_replace_init(mem, o, n), (live \ {n}) \cup {n})
  BY <1>2, ReplaceInitKeepsRing
<1>5. /\ ((live \ {n}) \ {o}) \cup {n} = (live \ {o}) \cup {n}
      /\ (live \ {n}) \cup {n} = live \cup {n}
  BY <1>2
<1>. QED
  BY <1>3, <1>4, <1>5 DEF ListReplace, ListReplaceInit

(* those that cut and splice whole lists,                                  *)
LEMMA JoiningKeepsIInv ==
  ASSUME IInv, NEW l \in Heads, NEW h \in Heads, NEW e \in Nodes,
         \/ ListCutPosition(l, h, e)
         \/ ListSplice(l, h) \/ ListSpliceTail(l, h)
         \/ ListSpliceInit(l, h) \/ ListSpliceTailInit(l, h)
  PROVE  IInv'
<1>0. l \in Nodes
  BY DEF Nodes
<1>1. CASE ListCutPosition(l, h, e)
  <2>1. /\ l # h /\ h \in live /\ e \in live /\ l # e
        /\ l \notin live \/ mem.next[l] = l
        /\ mem' = list_cut_position(mem, l, h, e)
        /\ live' = IF CutsNothing(mem, h, e) THEN live ELSE live \cup {l}
    BY <1>1 DEF ListCutPosition
  <2>. QED
    BY <1>0, <2>1, CutPositionKeepsRing
<1>2. CASE \/ ListSplice(l, h) \/ ListSpliceTail(l, h)
           \/ ListSpliceInit(l, h) \/ ListSpliceTailInit(l, h)
  <2>1. l # h /\ l \in live /\ h \in live /\ l \notin {mem.next[h], mem.prev[h]}
    BY <1>2 DEF ListSplice, ListSpliceTail, ListSpliceInit, ListSpliceTailInit, Apart
  <2>2. /\ Ring(list_splice(mem, l, h), AfterSplice(l))
        /\ Ring(list_splice_tail(mem, l, h), AfterSplice(l))
        /\ Ring(list_splice_init(mem, l, h), live)
        /\ Ring(list_splice_tail_init(mem, l, h), live)
    BY <2>1, SpliceEnds DEF AfterSplice
  <2>. QED
    BY <1>2, <2>2
       DEF ListSplice, ListSpliceTail, ListSpliceInit, ListSpliceTailInit
<1>. QED
  BY <1>1, <1>2

(* and the bodies of the loops that walk a list.                           *)
LEMMA LoopsKeepIInv ==
  ASSUME IInv, NEW h \in Heads,
         \/ Look \/ DelPos \/ DelInitPos \/ DelNextAndReset \/ Leave
         \/ MovePos(h) \/ MoveTailPos(h)
  PROVE  IInv'
<1>0. h \notin Entries
  BY ListsAssumption
<1>1. CASE Look \/ Leave
  BY <1>1 DEF Look, Leave
<1>2. CASE DelPos
  BY <1>2, DelKeepsRing DEF DelPos, TakeOut, InBody
<1>3. CASE DelInitPos
  BY <1>3, DelInitKeepsRing DEF DelInitPos, TakeOut, InBody
<1>4. CASE DelNextAndReset
  BY <1>4, DelKeepsRing DEF DelNextAndReset
<1>5. CASE MovePos(h) \/ MoveTailPos(h)
  <2>1. walk.pos \in live /\ h \in live /\ walk.pos # h
    BY <1>0, <1>5 DEF MovePos, MoveTailPos, InBody
  <2>2. Ring(list_move(mem, walk.pos, h), live)
        /\ Ring(list_move_tail(mem, walk.pos, h), live)
    BY <2>1, MoveKeepsRing
  <2>. QED
    BY <1>5, <2>2 DEF MovePos, MoveTailPos, TakeOut
<1>. QED
  BY <1>1, <1>2, <1>3, <1>4, <1>5

(* Every step, then, keeps the rings.                                      *)
LEMMA StepIInv == IInv /\ [Next]_vars => IInv'
<1>. SUFFICES ASSUME IInv, [Next]_vars
              PROVE  IInv'
  OBVIOUS
<1>1. CASE UNCHANGED vars
  BY <1>1 DEF vars
<1>2. CASE \E h \in Heads : InitListHead(h) \/ ListRotateLeft(h)
  <2>1. PICK h \in Heads : InitListHead(h) \/ ListRotateLeft(h)
    BY <1>2
  <2>. QED
    BY <2>1, InitAddsRing, RotateKeepsRing DEF InitListHead, ListRotateLeft, Nodes
<1>3. CASE \E e \in Entries : ListDel(e) \/ ListDelInit(e)
  BY <1>3, DelKeepsRing, DelInitKeepsRing DEF ListDel, ListDelInit
<1>4. CASE \E e \in Entries, h \in Heads :
             ListAdd(e, h) \/ ListAddTail(e, h) \/ ListMove(e, h) \/ ListMoveTail(e, h)
  BY <1>4, CallsKeepIInv
<1>5. CASE \E o, n \in Nodes : ListReplace(o, n) \/ ListReplaceInit(o, n)
  BY <1>5, ReplaceKeepsIInv
<1>6. CASE \E l, h \in Heads :
             \/ \E e \in Nodes : ListCutPosition(l, h, e)
             \/ ListSplice(l, h) \/ ListSpliceTail(l, h)
             \/ ListSpliceInit(l, h) \/ ListSpliceTailInit(l, h)
  <2>1. PICK l \in Heads, h \in Heads :
             \/ \E e \in Nodes : ListCutPosition(l, h, e)
             \/ ListSplice(l, h) \/ ListSpliceTail(l, h)
             \/ ListSpliceInit(l, h) \/ ListSpliceTailInit(l, h)
    BY <1>6
  <2>2. h \in Nodes
    BY DEF Nodes
  <2>. QED
    BY <2>1, <2>2, JoiningKeepsIInv
<1>7. CASE \E h \in Heads, safe \in BOOLEAN :
             \/ \E dir \in {"next", "prev"} :
                  \/ ForEach(dir, safe, h)
                  \/ \E pos \in Entries : ForEachContinue(dir, safe, pos, h)
             \/ \E pos \in Entries : ForEachFrom(safe, pos, h)
  <2>1. UNCHANGED <<mem, live>>
    BY <1>7 DEF ForEach, ForEachContinue, ForEachFrom, Start
  <2>. QED
    BY <2>1
<1>8. CASE Look \/ DelPos \/ DelInitPos \/ DelNextAndReset \/ Leave
  BY <1>8, DelKeepsRing, DelInitKeepsRing
     DEF Look, Leave, DelPos, DelInitPos, DelNextAndReset, TakeOut, InBody
<1>9. CASE \E h \in Heads : MovePos(h) \/ MoveTailPos(h)
  BY <1>9, LoopsKeepIInv
<1>. QED
  BY <1>1, <1>2, <1>3, <1>4, <1>5, <1>6, <1>7, <1>8, <1>9 DEF Next

(* After any calls on any number of lists, in the middle of any loop, next *)
(* and prev undo each other and no stale or poisoned node is reached.      *)
THEOREM RingsStayIntact == Spec => []RingsIntact
<1>1. IInv => RingsIntact
  BY DEF Ring, RingsIntact
<1>. QED
  BY InitIInv, StepIInv, <1>1, PTL DEF Spec

HIDE DEF Call, Loose, IInv

-----------------------------------------------------------------------------
(* What the pointers of hlist.h hold: a node, NULL or the poison, and for  *)
(* pprev the address of the pointer that leads to the node.                *)
Targets == HNodes \cup {NULL, POISON}
HMemory == [first : [HHeads -> Targets], next : [HNodes -> Targets],
            pprev : [HNodes -> Addresses \cup {NULL, POISON}]]

(* HlistsIntact of any memory m and any set s of hashed nodes.             *)
Linked(m, s) ==
  /\ m \in HMemory /\ s \subseteq HNodes
  /\ \A n \in s : /\ m.pprev[n] \in Addresses
                  /\ \A h \in HHeads : m.pprev[n] = <<"first", h>> => m.first[h] = n
                  /\ \A p \in HNodes : m.pprev[n] = <<"next", p>> =>
                       m.next[p] = n /\ p \in s
                  /\ m.next[n] # NULL => /\ m.next[n] \in s
                                         /\ m.pprev[m.next[n]] = <<"next", n>>
  /\ \A h \in HHeads :
       m.first[h] # NULL => /\ m.first[h] \in s
                            /\ m.pprev[m.first[h]] = <<"first", h>>

(* An address is that of a head's first or of a node's next, and tells     *)
(* which.                                                                  *)
LEMMA AddressKinds ==
  ASSUME NEW a \in Addresses
  PROVE  \/ \E h \in HHeads : a = <<"first", h>>
         \/ \E n \in HNodes : a = <<"next", n>>
BY DEF Addresses

LEMMA AddressesAre ==
  /\ \A h \in HHeads : <<"first", h>> \in Addresses
  /\ \A n \in HNodes : <<"next", n>> \in Addresses
BY DEF Addresses

LEMMA AddressesApart ==
  /\ \A h, n : <<"first", h>> # <<"next", n>>
  /\ \A h, g : <<"first", h>> = <<"first", g>> => h = g
  /\ \A p, n : <<"next", p>> = <<"next", n>> => p = n
OBVIOUS

(* Linked says HlistsIntact, and the types.                                *)
LEMMA LinkedMeans == Linked(hmem, hashed) => HlistsIntact
<1>1. SUFFICES ASSUME Linked(hmem, hashed) PROVE HlistsIntact
  OBVIOUS
<1>2. ASSUME NEW n \in hashed
      PROVE  /\ hmem[hmem.pprev[n][1]][hmem.pprev[n][2]] = n
             /\ hmem.pprev[n][1] = "next" => hmem.pprev[n][2] \in hashed
  <2>1. CASE \E h \in HHeads : hmem.pprev[n] = <<"first", h>>
    BY <1>1, <2>1 DEF Linked, HMemory
  <2>2. CASE \E p \in HNodes : hmem.pprev[n] = <<"next", p>>
    BY <1>1, <2>2 DEF Linked, HMemory
  <2>3. hmem.pprev[n] \in Addresses
    BY <1>1 DEF Linked
  <2>. QED
    BY <2>1, <2>2, <2>3, AddressKinds
<1>3. /\ \A n \in hashed : \/ hmem.next[n] = NULL
                           \/ /\ hmem.next[n] \in hashed
                              /\ hmem.pprev[hmem.next[n]] = <<"next", n>>
      /\ \A n \in hashed : hmem.pprev[n] \in Addresses
      /\ \A h \in HHeads : \/ hmem.first[h] = NULL
                           \/ /\ hmem.first[h] \in hashed
                              /\ hmem.pprev[hmem.first[h]] = <<"first", h>>
  BY <1>1 DEF Linked
<1>. QED
  BY <1>2, <1>3 DEF HlistsIntact

(* What the fields of the nodes outside the lists are does not matter.     *)
LEMMA OutsideIsFree ==
  ASSUME NEW m, NEW s, Linked(m, s), NEW u \in HMemory, u.first = m.first,
         \A k \in s : u.next[k] = m.next[k] /\ u.pprev[k] = m.pprev[k]
  PROVE  Linked(u, s)
<1>1. ASSUME NEW n \in s
      PROVE  /\ u.pprev[n] \in Addresses
             /\ \A h \in HHeads : u.pprev[n] = <<"first", h>> => u.first[h] = n
             /\ \A p \in HNodes : u.pprev[n] = <<"next", p>> => u.next[p] = n /\ p \in s
             /\ u.next[n] # NULL => /\ u.next[n] \in s
                                    /\ u.pprev[u.next[n]] = <<"next", n>>
  BY <1>1 DEF Linked
<1>2. ASSUME NEW h \in HHeads, u.first[h] # NULL
      PROVE  u.first[h] \in s /\ u.pprev[u.first[h]] = <<"first", h>>
  BY <1>2 DEF Linked
<1>. QED
  BY <1>1, <1>2 DEF Linked

(* Taking n out, for memory u in which the pointer that led to n leads to  *)
(* the node after n, and that node points back at it.                      *)
LEMMA UnlinkKeepsLinked ==
  ASSUME NEW m, NEW s, Linked(m, s), NEW n \in s
  PROVE  Linked(hlist_unlink(m, n), s \ {n})
<1>. DEFINE a == m.pprev[n]
            j == m.next[n]
            w == [m EXCEPT ![a[1]][a[2]] = j]
            u == hlist_unlink(m, n)
<1>1. CASE \E h \in HHeads : a = <<"first", h>>
  <2>1. PICK h \in HHeads : a = <<"first", h>>
    BY <1>1
  <2>2. w = [m EXCEPT !.first[h] = j]
    BY <2>1
  <2>3. /\ u.next = m.next
        /\ u.first = [m.first EXCEPT ![h] = j]
        /\ u.pprev = IF j = NULL THEN m.pprev ELSE [m.pprev EXCEPT ![j] = a]
        /\ u \in HMemory
    BY <2>1, <2>2, AddressesAre DEF Linked, HMemory, Targets, hlist_unlink, PointBack
  <2>. HIDE DEF u
  <2>4. Linked(u, s \ {n})
    BY <2>1, <2>3, HlistsAssumption, AddressesAre, AddressesApart
       DEF Linked, HMemory
  <2>. QED
    BY <2>4 DEF u
<1>2. CASE \E p \in HNodes : a = <<"next", p>>
  <2>1. PICK p \in HNodes : a = <<"next", p>>
    BY <1>2
  <2>2. w = [m EXCEPT !.next[p] = j]
    BY <2>1
  <2>3. /\ u.first = m.first
        /\ u.next = [m.next EXCEPT ![p] = j]
        /\ u.pprev = IF j = NULL THEN m.pprev ELSE [m.pprev EXCEPT ![j] = a]
        /\ u \in HMemory
    BY <2>1, <2>2, AddressesAre DEF Linked, HMemory, Targets, hlist_unlink, PointBack
  <2>. HIDE DEF u
  <2>4. Linked(u, s \ {n})
    BY <2>1, <2>3, HlistsAssumption, AddressesAre, AddressesApart
       DEF Linked, HMemory
  <2>. QED
    BY <2>4 DEF u
<1>. QED
  BY <1>1, <1>2, AddressKinds DEF Linked

(* Only a node that was made to look hashed is taken out and in no list.   *)
LEMMA FakedUnlink ==
  ASSUME NEW m, NEW s, Linked(m, s), NEW n \in HNodes, n \notin s,
         m.pprev[n] = <<"next", n>>, m.next[n] = NULL
  PROVE  Linked(hlist_unlink(m, n), s)
<1>. DEFINE u == hlist_unlink(m, n)
<1>1. u = [m EXCEPT !.next[n] = NULL]
  BY DEF hlist_unlink, PointBack
<1>2. u.next = m.next /\ u.first = m.first /\ u.pprev = m.pprev /\ u \in HMemory
  BY <1>1 DEF Linked, HMemory
<1>. QED
  BY <1>2, OutsideIsFree

LEMMA ResetKeepsLinked ==
  ASSUME NEW m, NEW s, Linked(m, s), NEW n \in HNodes, n \notin s, NEW v \in {NULL, POISON}
  PROVE  Linked([m EXCEPT !.next[n] = v, !.pprev[n] = v], s)
<1>. DEFINE u == [m EXCEPT !.next[n] = v, !.pprev[n] = v]
<1>1. /\ u.first = m.first /\ u \in HMemory
      /\ \A k \in s : u.next[k] = m.next[k] /\ u.pprev[k] = m.pprev[k]
  BY DEF Linked, HMemory, Targets
<1>. QED
  BY <1>1, OutsideIsFree

(* The node is hashed, or hlist_add_fake made it look so.                  *)
LooksHashed(m, s, n) ==
  n \in s \/ (m.pprev[n] = <<"next", n>> /\ m.next[n] = NULL)

(* Each call of hlist.h keeps the nodes linked.                            *)
LEMMA TakingOutKeepsLinked ==
  ASSUME NEW m, NEW s, Linked(m, s), NEW n \in HNodes, LooksHashed(m, s, n)
  PROVE  Linked(hlist_unlink(m, n), s \ {n})
<1>1. CASE n \in s
  BY <1>1, UnlinkKeepsLinked
<1>2. CASE n \notin s
  <2>1. s \ {n} = s
    BY <1>2
  <2>. QED
    BY <1>2, <2>1, FakedUnlink DEF LooksHashed
<1>. QED
  BY <1>1, <1>2

LEMMA DelKeepsLinked ==
  ASSUME NEW m, NEW s, Linked(m, s), NEW n \in HNodes, LooksHashed(m, s, n)
  PROVE  Linked(hlist_del(m, n), s \ {n})
BY TakingOutKeepsLinked, ResetKeepsLinked DEF hlist_del

LEMMA DelInitKeepsLinked ==
  ASSUME NEW m, NEW s, Linked(m, s), NEW n \in HNodes,
         LooksHashed(m, s, n) \/ hlist_unhashed(m, n)
  PROVE  Linked(hlist_del_init(m, n), s \ {n})
<1>1. CASE hlist_unhashed(m, n)
  <2>1. n \notin s
    BY <1>1, HlistsAssumption DEF hlist_unhashed, Linked
  <2>2. s \ {n} = s
    BY <2>1
  <2>. QED
    BY <1>1, <2>2 DEF hlist_del_init
<1>2. CASE ~hlist_unhashed(m, n)
  BY <1>2, TakingOutKeepsLinked, ResetKeepsLinked DEF hlist_del_init, INIT_HLIST_NODE
<1>. QED
  BY <1>1, <1>2

LEMMA AddHeadKeepsLinked ==
  ASSUME NEW m, NEW s, Linked(m, s), NEW n \in HNodes, n \notin s, NEW h \in HHeads
  PROVE  Linked(hlist_add_head(m, n, h), s \cup {n})
<1>. DEFINE u == hlist_add_head(m, n, h)
<1>1. /\ u.first = [m.first EXCEPT ![h] = n]
      /\ u.next = [m.next EXCEPT ![n] = m.first[h]]
      /\ u.pprev = IF m.first[h] = NULL THEN [m.pprev EXCEPT ![n] = <<"first", h>>]
                   ELSE [m.pprev EXCEPT ![m.first[h]] = <<"next", n>>,
                                        ![n] = <<"first", h>>]
      /\ u \in HMemory
  BY AddressesAre DEF Linked, HMemory, Targets, hlist_add_head, PointBack
<1>2. SUFFICES Linked(u, s \cup {n})
  OBVIOUS
<1>. HIDE DEF u
<1>3. ASSUME NEW k \in s \cup {n}
      PROVE  /\ u.pprev[k] \in Addresses
             /\ \A g \in HHeads : u.pprev[k] = <<"first", g>> => u.first[g] = k
  BY <1>1, HlistsAssumption, AddressesAre, AddressesApart DEF Linked, HMemory
<1>4. ASSUME NEW k \in s \cup {n}, NEW q \in HNodes, u.pprev[k] = <<"next", q>>
      PROVE  u.next[q] = k /\ q \in s \cup {n}
  BY <1>1, <1>4, HlistsAssumption, AddressesAre, AddressesApart DEF Linked, HMemory
<1>5. ASSUME NEW k \in s \cup {n}, u.next[k] # NULL
      PROVE  u.next[k] \in s \cup {n} /\ u.pprev[u.next[k]] = <<"next", k>>
  BY <1>1, <1>5, HlistsAssumption, AddressesAre, AddressesApart DEF Linked, HMemory
<1>6. ASSUME NEW g \in HHeads, u.first[g] # NULL
      PROVE  /\ u.first[g] \in s \cup {n}
             /\ u.pprev[u.first[g]] = <<"first", g>>
  BY <1>1, <1>6, HlistsAssumption, AddressesAre, AddressesApart DEF Linked, HMemory
<1>. QED
  BY <1>1, <1>3, <1>4, <1>5, <1>6 DEF Linked

LEMMA AddAfterKeepsLinked ==
  ASSUME NEW m, NEW s, Linked(m, s), NEW n \in s, NEW next \in HNodes, next \notin s
  PROVE  Linked(hlist_add_after(m, n, next), s \cup {next})
<1>. DEFINE u == hlist_add_after(m, n, next)
            j == m.next[n]
<1>1. /\ u.first = m.first
      /\ u.next = [m.next EXCEPT ![next] = j, ![n] = next]
      /\ u.pprev = IF j = NULL THEN [m.pprev EXCEPT ![next] = <<"next", n>>]
                   ELSE [m.pprev EXCEPT ![next] = <<"next", n>>,
                                        ![j] = <<"next", next>>]
      /\ u \in HMemory
  BY AddressesAre DEF Linked, HMemory, Targets, hlist_add_after, PointBack
<1>2. SUFFICES Linked(u, s \cup {next})
  OBVIOUS
<1>. HIDE DEF u
<1>3. ASSUME NEW k \in s \cup {next}
      PROVE  /\ u.pprev[k] \in Addresses
             /\ \A g \in HHeads : u.pprev[k] = <<"first", g>> => u.first[g] = k
  BY <1>1, HlistsAssumption, AddressesAre, AddressesApart DEF Linked, HMemory
<1>4. ASSUME NEW k \in s \cup {next}, NEW q \in HNodes, u.pprev[k] = <<"next", q>>
      PROVE  u.next[q] = k /\ q \in s \cup {next}
  BY <1>1, <1>4, HlistsAssumption, AddressesAre, AddressesApart DEF Linked, HMemory
<1>5. ASSUME NEW k \in s \cup {next}, u.next[k] # NULL
      PROVE  u.next[k] \in s \cup {next} /\ u.pprev[u.next[k]] = <<"next", k>>
  BY <1>1, <1>5, HlistsAssumption, AddressesAre, AddressesApart DEF Linked, HMemory
<1>6. ASSUME NEW g \in HHeads, u.first[g] # NULL
      PROVE  /\ u.first[g] \in s \cup {next}
             /\ u.pprev[u.first[g]] = <<"first", g>>
  BY <1>1, <1>6, HlistsAssumption, AddressesAre, AddressesApart DEF Linked, HMemory
<1>. QED
  BY <1>1, <1>3, <1>4, <1>5, <1>6 DEF Linked

LEMMA AddBeforeKeepsLinked ==
  ASSUME NEW m, NEW s, Linked(m, s), NEW n \in HNodes, n \notin s, NEW next \in s
  PROVE  Linked(hlist_add_before(m, n, next), s \cup {n})
<1>. DEFINE a == m.pprev[next]
            link == [m EXCEPT !.pprev[n] = a, !.next[n] = next,
                              !.pprev[next] = <<"next", n>>]
            u == [link EXCEPT ![link.pprev[n][1]][link.pprev[n][2]] = n]
<1>0. /\ link.first = m.first
      /\ link.next = [m.next EXCEPT ![n] = next]
      /\ link.pprev = [m.pprev EXCEPT ![n] = a, ![next] = <<"next", n>>]
      /\ link \in HMemory /\ link.pprev[n] = a
  BY AddressesAre DEF Linked, HMemory, Targets
<1>. SUFFICES Linked(u, s \cup {n})
  BY DEF hlist_add_before
<1>. HIDE DEF link, u
<1>1. ASSUME NEW h \in HHeads, a = <<"first", h>>
      PROVE  Linked(u, s \cup {n})
  <2>1. u = [link EXCEPT !.first[h] = n]
    BY <1>1, <1>0 DEF u
  <2>2. /\ u.first = [m.first EXCEPT ![h] = n]
        /\ u.next = [m.next EXCEPT ![n] = next]
        /\ u.pprev = [m.pprev EXCEPT ![n] = a, ![next] = <<"next", n>>]
        /\ u \in HMemory
    BY <2>1, <1>0 DEF Linked, HMemory, Targets
  <2>3. ASSUME NEW k \in s \cup {n}
        PROVE  /\ u.pprev[k] \in Addresses
               /\ \A g \in HHeads : u.pprev[k] = <<"first", g>> => u.first[g] = k
    BY <1>1, <2>2, HlistsAssumption, AddressesAre, AddressesApart DEF Linked, HMemory
  <2>4. ASSUME NEW k \in s \cup {n}, NEW q \in HNodes, u.pprev[k] = <<"next", q>>
        PROVE  u.next[q] = k /\ q \in s \cup {n}
    BY <1>1, <2>2, <2>4, HlistsAssumption, AddressesAre, AddressesApart
       DEF Linked, HMemory
  <2>5. ASSUME NEW k \in s \cup {n}, u.next[k] # NULL
        PROVE  u.next[k] \in s \cup {n} /\ u.pprev[u.next[k]] = <<"next", k>>
    BY <1>1, <2>2, <2>5, HlistsAssumption, AddressesAre, AddressesApart
       DEF Linked, HMemory
  <2>6. ASSUME NEW g \in HHeads, u.first[g] # NULL
        PROVE  u.first[g] \in s \cup {n} /\ u.pprev[u.first[g]] = <<"first", g>>
    BY <1>1, <2>2, <2>6, HlistsAssumption, AddressesAre, AddressesApart
       DEF Linked, HMemory
  <2>. QED
    BY <2>2, <2>3, <2>4, <2>5, <2>6 DEF Linked
<1>2. ASSUME NEW p \in HNodes, a = <<"next", p>>
      PROVE  Linked(u, s \cup {n})
  <2>1. u = [link EXCEPT !.next[p] = n]
    BY <1>2, <1>0 DEF u
  <2>2. /\ u.first = m.first
        /\ u.next = [m.next EXCEPT ![n] = next, ![p] = n]
        /\ u.pprev = [m.pprev EXCEPT ![n] = a, ![next] = <<"next", n>>]
        /\ u \in HMemory
    BY <2>1, <1>0 DEF Linked, HMemory, Targets
  <2>3. ASSUME NEW k \in s \cup {n}
        PROVE  /\ u.pprev[k] \in Addresses
               /\ \A g \in HHeads : u.pprev[k] = <<"first", g>> => u.first[g] = k
    BY <1>2, <2>2, HlistsAssumption, AddressesAre, AddressesApart DEF Linked, HMemory
  <2>4. ASSUME NEW k \in s \cup {n}, NEW q \in HNodes, u.pprev[k] = <<"next", q>>
        PROVE  u.next[q] = k /\ q \in s \cup {n}
    BY <1>2, <2>2, <2>4, HlistsAssumption, AddressesAre, AddressesApart
       DEF Linked, HMemory
  <2>5. ASSUME NEW k \in s \cup {n}, u.next[k] # NULL
        PROVE  u.next[k] \in s \cup {n} /\ u.pprev[u.next[k]] = <<"next", k>>
    BY <1>2, <2>2, <2>5, HlistsAssumption, AddressesAre, AddressesApart
       DEF Linked, HMemory
  <2>6. ASSUME NEW g \in HHeads, u.first[g] # NULL
        PROVE  u.first[g] \in s \cup {n} /\ u.pprev[u.first[g]] = <<"first", g>>
    BY <1>2, <2>2, <2>6, HlistsAssumption, AddressesAre, AddressesApart
       DEF Linked, HMemory
  <2>. QED
    BY <2>2, <2>3, <2>4, <2>5, <2>6 DEF Linked
<1>. QED
  BY <1>1, <1>2, AddressKinds DEF Linked

LEMMA MoveListKeepsLinked ==
  ASSUME NEW m, NEW s, Linked(m, s), NEW old \in HHeads, NEW new \in HHeads,
         old # new, m.first[new] = NULL
  PROVE  Linked(hlist_move_list(m, old, new), s)
<1>. DEFINE u == hlist_move_list(m, old, new)
            j == m.first[old]
<1>1. /\ u.first = [m.first EXCEPT ![new] = j, ![old] = NULL]
      /\ u.next = m.next
      /\ u.pprev = IF j = NULL THEN m.pprev
                   ELSE [m.pprev EXCEPT ![j] = <<"first", new>>]
      /\ u \in HMemory
  BY AddressesAre DEF Linked, HMemory, Targets, hlist_move_list, PointBack
<1>. HIDE DEF u
<1>2. Linked(u, s)
  BY <1>1, HlistsAssumption, AddressesAre, AddressesApart DEF Linked, HMemory
<1>. QED
  BY <1>2 DEF u
-----------------------------------------------------------------------------
(* The inductive invariant of the hashed lists.                            *)
HIInv == Linked(hmem, hashed)

(* At the start no node is hashed.                                         *)
LEMMA InitHIInv == HInit => HIInv
BY HlistsAssumption DEF HInit, HIInv, Linked, HMemory, Targets

(* The calls of hlist.h keep it, one step of the specification each.       *)
LEMMA HCallsKeepHIInv ==
  ASSUME HIInv, NEW n \in HNodes,
         InitHlistNode(n) \/ HlistAddFake(n) \/ HlistDel(n) \/ HlistDelInit(n)
  PROVE  HIInv'
<1>1. CASE InitHlistNode(n)
  BY <1>1, ResetKeepsLinked DEF InitHlistNode, HCall, HIInv, INIT_HLIST_NODE
<1>2. CASE HlistAddFake(n)
  <2>. DEFINE u == hlist_add_fake(hmem, n)
  <2>1. /\ u.first = hmem.first /\ u \in HMemory
        /\ \A k \in hashed : u.next[k] = hmem.next[k] /\ u.pprev[k] = hmem.pprev[k]
    BY <1>2, AddressesAre DEF HlistAddFake, hlist_add_fake, HIInv, Linked, HMemory
  <2>. QED
    BY <1>2, <2>1, OutsideIsFree DEF HlistAddFake, HCall, HIInv
<1>3. CASE HlistDel(n)
  BY <1>3, DelKeepsLinked DEF HlistDel, HCall, HIInv, LooksHashed, Faked
<1>4. CASE HlistDelInit(n)
  BY <1>4, DelInitKeepsLinked DEF HlistDelInit, HCall, HIInv, LooksHashed, Faked
<1>. QED
  BY <1>1, <1>2, <1>3, <1>4

LEMMA HAddsKeepHIInv ==
  ASSUME HIInv, NEW n \in HNodes, NEW next \in HNodes,
         \/ \E h \in HHeads : HlistAddHead(n, h)
         \/ HlistAddBefore(n, next) \/ HlistAddAfter(n, next)
  PROVE  HIInv'
<1>1. CASE \E h \in HHeads : HlistAddHead(n, h)
  BY <1>1, AddHeadKeepsLinked DEF HlistAddHead, HCall, HIInv
<1>2. CASE HlistAddBefore(n, next)
  BY <1>2, AddBeforeKeepsLinked DEF HlistAddBefore, HCall, HIInv
<1>3. CASE HlistAddAfter(n, next)
  BY <1>3, AddAfterKeepsLinked DEF HlistAddAfter, HCall, HIInv
<1>. QED
  BY <1>1, <1>2, <1>3

(* The loops: their bodies look, or take the node they are on out.         *)
LEMMA HLoopsKeepHIInv ==
  ASSUME HIInv,
         HLook \/ HDelPos \/ HLeave \/ \E safe \in BOOLEAN : HForEachFrom(safe)
  PROVE  HIInv'
<1>1. CASE HDelPos
  <2>1. hwalk.pos \in hashed /\ hwalk.pos \in HNodes
    BY <1>1 DEF HDelPos, HIInv, Linked
  <2>2. LooksHashed(hmem, hashed, hwalk.pos)
    BY <2>1 DEF LooksHashed
  <2>. QED
    BY <1>1, <2>1, <2>2, DelKeepsLinked, DelInitKeepsLinked DEF HDelPos, HBody, HIInv
<1>2. CASE ~HDelPos
  <2>1. UNCHANGED <<hmem, hashed>>
    BY <1>2 DEF HLook, HBody, HLeave, HForEachFrom, HForEach
  <2>. QED
    BY <2>1 DEF HIInv
<1>. QED
  BY <1>1, <1>2

(* Every step, then, keeps the hashed lists linked.                        *)
LEMMA StepHIInv == HIInv /\ [HNext]_hvars => HIInv'
<1>. SUFFICES ASSUME HIInv, [HNext]_hvars PROVE HIInv'
  OBVIOUS
<1>1. ASSUME NEW n \in HNodes,
             InitHlistNode(n) \/ HlistAddFake(n) \/ HlistDel(n) \/ HlistDelInit(n)
      PROVE  HIInv'
  BY <1>1, HCallsKeepHIInv
<1>2. ASSUME NEW n \in HNodes, NEW h \in HHeads, HlistAddHead(n, h)
      PROVE  HIInv'
  BY <1>2, HAddsKeepHIInv
<1>3. ASSUME NEW n \in HNodes, NEW next \in HNodes,
             HlistAddBefore(n, next) \/ HlistAddAfter(n, next)
      PROVE  HIInv'
  BY <1>3, HAddsKeepHIInv
<1>4. ASSUME NEW old \in HHeads, NEW new \in HHeads, HlistMoveList(old, new)
      PROVE  HIInv'
  BY <1>4, MoveListKeepsLinked DEF HlistMoveList, HCall, HIInv, hlist_empty
<1>5. CASE HLook \/ HDelPos \/ HLeave \/ \E safe \in BOOLEAN : HForEachFrom(safe)
  BY <1>5, HLoopsKeepHIInv
<1>6. CASE UNCHANGED hvars
  BY <1>6 DEF HIInv, hvars
<1>. QED
  BY <1>1, <1>2, <1>3, <1>4, <1>5, <1>6 DEF HNext

(* No sequence of calls and loops, on hlists of any number of nodes, leaves *)
(* a pointer to a node that was deleted or a node that cannot be unlinked. *)
THEOREM HlistsStayIntact == HSpec => []HlistsIntact
<1>1. HIInv => HlistsIntact
  BY LinkedMeans DEF HIInv
<1>. QED
  BY <1>1, InitHIInv, StepHIInv, PTL DEF HSpec

-----------------------------------------------------------------------------
(* The nodes of a list with the entries s are numbered along it; the head  *)
(* is before the first and behind the last.                                *)
NodeAt(h, s, i) == IF i \in 1 .. Len(s) THEN s[i] ELSE h

(* next leads through the entries of s, each of which occurs once.         *)
Chained(m, h, s) ==
  /\ s \in Seq(Entries)
  /\ \A i, j \in 1 .. Len(s) : s[i] = s[j] => i = j
  /\ \A i \in 0 .. Len(s) : m.next[NodeAt(h, s, i)] = NodeAt(h, s, i + 1)

(* The nodes of the list of h: its head and its entries.                   *)
Owned(h, s) == {NodeAt(h, s, i) : i \in 0 .. Len(s)}

(* A sequence whose elements are distinct is not longer than their number. *)
LEMMA NotLonger ==
  ASSUME NEW E, IsFiniteSet(E), NEW s \in Seq(E),
         \A i, j \in 1 .. Len(s) : s[i] = s[j] => i = j
  PROVE  Len(s) <= Cardinality(E) /\ Cardinality(E) \in Nat
<1>1. Len(s) \in Nat /\ \A i \in 1 .. Len(s) : s[i] \in E
  OBVIOUS
<1>2. IsFiniteSet(1 .. Len(s)) /\ Cardinality(1 .. Len(s)) = Len(s)
  <2>1. 0 \in Int /\ 1 \in Int /\ Len(s) \in Int
    BY <1>1
  <2>2. Cardinality(1 .. Len(s)) = IF 1 > Len(s) THEN 0 ELSE Len(s) - 1 + 1
    BY <2>1, FS_Interval
  <2> QED BY SMTT(30), <1>1, <2>1, <2>2, FS_Interval
<1> DEFINE f == [i \in 1 .. Len(s) |-> s[i]]
<1>3. f \in Injection(1 .. Len(s), E)
  BY <1>1 DEF Injection, IsInjective
<1>4. Cardinality(1 .. Len(s)) <= Cardinality(E)
  <2> HIDE DEF f
  <2> QED BY <1>2, <1>3, FS_Injection
<1> QED BY <1>2, <1>4, FS_CardinalityType

(* Chain and Nodes_from follow the pointers nx from a node on.             *)
Follow(E, nx, from) ==
  LET f[k \in Nat] == IF k = 0 THEN from
                      ELSE IF f[k - 1] \in E THEN nx[f[k - 1]] ELSE f[k - 1]
      met == {k \in 0 .. Cardinality(E) : f[k] \in E}
  IN [k \in 1 .. Cardinality(met) |-> f[k - 1]]

(* Follow is what Chain and HChain compute.                                *)
LEMMA FollowIs ==
  /\ \A m, dir, from : Chain(m, dir, from) = Follow(Entries, m[dir], from)
  /\ \A m, from : Nodes_from(m, from) = Follow(HNodes, m.next, from)
BY DEF Follow, Chain, Nodes_from

(* This is what they find.                                                 *)
LEMMA FollowFinds ==
  ASSUME NEW E, IsFiniteSet(E), NEW nx, NEW s \in Seq(E), NEW end, end \notin E,
         \A i, j \in 1 .. Len(s) : s[i] = s[j] => i = j,
         \A i \in 1 .. Len(s) : nx[s[i]] = NodeAt(end, s, i + 1)
  PROVE  Follow(E, nx, NodeAt(end, s, 1)) = s
<1> DEFINE from == NodeAt(end, s, 1)
           Then(x) == IF x \in E THEN nx[x] ELSE x
           Link(f, k) == IF k = 0 THEN from ELSE Then(f[k - 1])
           Step(f) == [k \in Nat |-> Link(f, k)]
           g == [k \in Nat |-> NodeAt(end, s, k + 1)]
           f == CHOOSE ff : ff = Step(ff)
<1>1. Len(s) \in Nat /\ \A i \in 1 .. Len(s) : s[i] \in E
  OBVIOUS
<1>2. \A k \in Nat : g[k] = Link(g, k)
  <2> SUFFICES ASSUME NEW k \in Nat PROVE g[k] = Link(g, k)
    OBVIOUS
  <2>1. CASE k = 0
    BY <2>1
  <2>2. CASE k \in 1 .. Len(s)
    <3>1. g[k - 1] = s[k] /\ g[k] = NodeAt(end, s, k + 1)
      BY <1>1, <2>2 DEF NodeAt
    <3>2. nx[s[k]] = NodeAt(end, s, k + 1)
      BY <2>2
    <3> HIDE DEF g
    <3> QED BY <1>1, <2>2, <3>1, <3>2
  <2>3. CASE k > Len(s) /\ k # 0
    <3>1. g[k - 1] = end /\ g[k] = end
      BY <1>1, <2>3 DEF NodeAt
    <3> HIDE DEF g
    <3> QED BY <2>3, <3>1
  <2> QED BY <1>1, <2>1, <2>2, <2>3
<1>3. g = Step(g)
  BY <1>2
<1>4. f = Step(f)
  <2> HIDE DEF g, Step
  <2> QED BY <1>3
<1>5. \A k \in Nat : f[k] = Link(f, k)
  <2> HIDE DEF f
  <2> QED BY <1>4
<1> DEFINE S == {k \in Nat : f[k] = g[k]}
<1>6. 0 \in S
  <2> HIDE DEF f, g
  <2>1. f[0] = from /\ g[0] = from
    BY <1>2, <1>5
  <2> QED BY <2>1
<1>7. \A k \in Nat \ {0} : k - 1 \in S => k \in S
  <2> SUFFICES ASSUME NEW k \in Nat \ {0}, f[k - 1] = g[k - 1] PROVE f[k] = g[k]
    OBVIOUS
  <2> HIDE DEF f, g
  <2>1. f[k] = Link(f, k) /\ g[k] = Link(g, k)
    BY <1>2, <1>5
  <2> HIDE DEF Then
  <2> QED BY <2>1
<1>8. \A n \in Nat : f[n] = g[n]
  <2> TAKE n \in Nat
  <2>1. n \in S
    <3>1. \A k \in 1 .. n : k - 1 \in S => k \in S
      <4> HIDE DEF S
      <4> QED BY <1>7
    <3> HIDE DEF S
    <3>2. 0 .. n \subseteq S
      BY <1>6, <3>1, Ascending
    <3> QED BY <3>2
  <2> QED BY <2>1
<1>9. \A k \in Nat : f[k] = NodeAt(end, s, k + 1)
  <2> HIDE DEF f
  <2> QED BY <1>8
<1> DEFINE met == {k \in 0 .. Cardinality(E) : f[k] \in E}
<1>10. met = 0 .. Len(s) - 1
  <2> HIDE DEF f
  <2>1. Len(s) <= Cardinality(E) /\ Cardinality(E) \in Nat
    BY NotLonger
  <2>2. \A k \in Nat : f[k] \in E <=> k + 1 <= Len(s)
    BY <1>1, <1>9 DEF NodeAt
  <2>3. \A k : k \in 0 .. Cardinality(E) /\ k + 1 <= Len(s) <=> k \in 0 .. Len(s) - 1
    BY <1>1, <2>1
  <2>4. \A k : k \in met <=> k \in 0 .. Len(s) - 1
    <3> TAKE k
    <3>1. k \in met <=> k \in 0 .. Cardinality(E) /\ f[k] \in E
      OBVIOUS
    <3>2. k \in 0 .. Cardinality(E) => k \in Nat
      BY <2>1
    <3> QED BY <2>2, <2>3, <3>1, <3>2
  <2> HIDE DEF met
  <2> QED BY <2>4
<1>11. Cardinality(met) = Len(s)
  <2> HIDE DEF met
  <2>1. 0 \in Int /\ Len(s) - 1 \in Int
    BY <1>1
  <2>2. Cardinality(0 .. Len(s) - 1) = IF 0 > Len(s) - 1 THEN 0 ELSE Len(s) - 1 - 0 + 1
    BY <2>1, FS_Interval
  <2> QED BY <1>1, <1>10, <2>2
<1>12. Follow(E, nx, from) = [k \in 1 .. Cardinality(met) |-> f[k - 1]]
  BY DEF Follow
<1>13. [k \in 1 .. Len(s) |-> f[k - 1]] = s
  <2> HIDE DEF f
  <2> QED BY <1>1, <1>9 DEF NodeAt
<1> QED
  <2> HIDE DEF f, met
  <2> QED BY <1>11, <1>12, <1>13

(* The pointers dir of m lead through the entries s, each met once, to end.  *)
Path(m, dir, s, end) ==
  /\ s \in Seq(Entries) /\ end \notin Entries
  /\ \A i, j \in 1 .. Len(s) : s[i] = s[j] => i = j
  /\ \A i \in 1 .. Len(s) : m[dir][s[i]] = NodeAt(end, s, i + 1)

LEMMA ChainFinds ==
  ASSUME NEW m, NEW dir, NEW s, NEW end, Path(m, dir, s, end)
  PROVE  Chain(m, dir, NodeAt(end, s, 1)) = s
BY FollowFinds, FollowIs, ListsAssumption DEF Path

(* The entries a memory gives for a list are the sequence chained from its *)
(* head.                                                                   *)
LEMMA ChainIs ==
  ASSUME NEW h \in Heads, NEW m, NEW s, Chained(m, h, s)
  PROVE  Chain(m, "next", m.next[h]) = s
<1>1. h \notin Entries /\ Len(s) \in Nat /\ m.next = m["next"]
  BY ListsAssumption DEF Chained
<1>2. m.next[h] = NodeAt(h, s, 1)
  <2>1. NodeAt(h, s, 0) = h
    BY DEF NodeAt
  <2> QED BY <1>1, <2>1 DEF Chained
<1>3. \A i \in 1 .. Len(s) : m["next"][s[i]] = NodeAt(h, s, i + 1)
  <2> TAKE i \in 1 .. Len(s)
  <2>1. NodeAt(h, s, i) = s[i] /\ i \in 0 .. Len(s)
    BY <1>1 DEF NodeAt
  <2> QED BY <1>1, <2>1 DEF Chained
<1>4. s \in Seq(Entries) /\ \A i, j \in 1 .. Len(s) : s[i] = s[j] => i = j
  BY DEF Chained
<1>5. Chain(m, "next", NodeAt(h, s, 1)) = s
  <2>1. Path(m, "next", s, h)
    BY <1>1, <1>3, <1>4 DEF Path
  <2> QED BY <2>1, ChainFinds
<1> QED BY <1>2, <1>5

(* A step along a list, and one back.                                      *)
LEMMA Along ==
  ASSUME NEW m, NEW l, Ring(m, l), NEW h \in l, NEW s, Chained(m, h, s)
  PROVE  /\ Len(s) \in Nat /\ \A i \in 1 .. Len(s) : s[i] \in Entries
         /\ NodeAt(h, s, 0) = h /\ NodeAt(h, s, Len(s) + 1) = h
         /\ \A i \in 1 .. Len(s) : NodeAt(h, s, i) = s[i]
         /\ \A i \in 0 .. Len(s) + 1 : NodeAt(h, s, i) \in l
         /\ \A i \in 0 .. Len(s) : /\ m.next[NodeAt(h, s, i)] = NodeAt(h, s, i + 1)
                                   /\ m.prev[NodeAt(h, s, i + 1)] = NodeAt(h, s, i)
<1>1. Len(s) \in Nat /\ \A i \in 1 .. Len(s) : s[i] \in Entries
  BY DEF Chained
<1>2. NodeAt(h, s, 0) = h /\ NodeAt(h, s, Len(s) + 1) = h
      /\ \A i \in 1 .. Len(s) : NodeAt(h, s, i) = s[i]
  BY <1>1 DEF NodeAt
<1>3. \A i \in 0 .. Len(s) : m.next[NodeAt(h, s, i)] = NodeAt(h, s, i + 1)
  BY DEF Chained
<1> DEFINE S == {i \in Nat : NodeAt(h, s, i) \in l}
<1>4. 0 \in S
  BY <1>2
<1>5. \A i \in 1 .. Len(s) + 1 : i - 1 \in S => i \in S
  <2> TAKE i \in 1 .. Len(s) + 1
  <2>1. i - 1 \in 0 .. Len(s) /\ (i - 1) + 1 = i /\ i \in Nat
    BY <1>1
  <2>2. m.next[NodeAt(h, s, i - 1)] = NodeAt(h, s, i)
    BY <1>3, <2>1
  <2> QED BY <2>1, <2>2 DEF Ring
<1>6. 0 .. Len(s) + 1 \subseteq S
  <2> DEFINE n == Len(s) + 1
  <2>1. n \in Nat
    BY <1>1
  <2>2. \A i \in 1 .. n : i - 1 \in S => i \in S
    BY <1>5
  <2> HIDE DEF S, n
  <2>3. 0 .. n \subseteq S
    BY <1>4, <2>1, <2>2, Ascending
  <2> QED BY <2>3 DEF n
<1>7. \A i \in 0 .. Len(s) + 1 : NodeAt(h, s, i) \in l
  BY <1>6
<1>8. \A i \in 0 .. Len(s) : m.prev[NodeAt(h, s, i + 1)] = NodeAt(h, s, i)
  <2> TAKE i \in 0 .. Len(s)
  <2>1. i \in 0 .. Len(s) + 1
    BY <1>1
  <2> QED BY <1>3, <1>7, <2>1 DEF Ring
<1> QED BY <1>1, <1>2, <1>3, <1>7, <1>8

(* A chained list stays within its ring.                                   *)
LEMMA OwnedNodes ==
  ASSUME NEW m, NEW l, Ring(m, l), NEW h \in l, NEW s, Chained(m, h, s)
  PROVE  Owned(h, s) \subseteq l /\ Owned(h, s) \subseteq Nodes /\ m.next \in Links
<1>1. \A i \in 0 .. Len(s) : i \in 0 .. Len(s) + 1
  BY Along
<1>2. Owned(h, s) \subseteq l
  BY <1>1, Along DEF Owned
<1> QED BY <1>2 DEF Ring, Memory

(* The nodes of two lists are different.                                   *)
LEMMA OwnedApart ==
  ASSUME NEW m, NEW l, Ring(m, l), NEW h \in Heads \cap l, NEW g \in Heads \cap l,
         h # g, NEW s, Chained(m, h, s), NEW t, Chained(m, g, t)
  PROVE  Owned(h, s) \cap Owned(g, t) = {}
<1>1. h \notin Entries /\ g \notin Entries
  BY ListsAssumption
<1> DEFINE S == {i \in Nat : \A j \in 0 .. Len(t) : NodeAt(h, s, i) # NodeAt(g, t, j)}
<1>2. 0 \in S
  <2> SUFFICES ASSUME NEW j \in 0 .. Len(t) PROVE h # NodeAt(g, t, j)
    BY Along
  <2>1. NodeAt(g, t, j) = g \/ NodeAt(g, t, j) \in Entries
    BY Along DEF NodeAt
  <2> QED BY <1>1, <2>1
<1>3. ASSUME NEW i \in 1 .. Len(s), i - 1 \in S PROVE i \in S
  <2>1. Len(s) \in Nat /\ i - 1 \in 0 .. Len(s) /\ (i - 1) + 1 = i /\ i \in Nat
    BY Along
  <2>2. NodeAt(h, s, i) \in Entries /\ m.prev[NodeAt(h, s, i)] = NodeAt(h, s, i - 1)
    BY <2>1, Along
  <2> SUFFICES ASSUME NEW j \in 0 .. Len(t), NodeAt(h, s, i) = NodeAt(g, t, j)
               PROVE  FALSE
    BY <2>1
  <2>3. CASE j = 0
    BY <1>1, <2>2, <2>3, Along
  <2>4. CASE j # 0
    <3>1. Len(t) \in Nat /\ j - 1 \in 0 .. Len(t) /\ (j - 1) + 1 = j
      BY <2>4, Along
    <3>2. m.prev[NodeAt(g, t, j)] = NodeAt(g, t, j - 1)
      BY <3>1, Along
    <3> QED BY <1>3, <2>2, <3>1, <3>2
  <2> QED BY <2>3, <2>4
<1>4. 0 .. Len(s) \subseteq S
  <2>1. Len(s) \in Nat
    BY Along
  <2> HIDE DEF S
  <2> QED BY <1>2, <1>3, <2>1, Ascending
<1> QED BY <1>4 DEF Owned

(* Neither pointer of a node leads into a list the node is not in.         *)
LEMMA Outside ==
  ASSUME NEW m, NEW l, Ring(m, l), NEW h \in l, NEW s, Chained(m, h, s),
         NEW x \in l, x \notin Owned(h, s)
  PROVE  m.prev[x] \notin Owned(h, s) /\ m.next[x] \notin Owned(h, s)
<1>1. m.next[m.prev[x]] = x /\ m.prev[m.next[x]] = x
  BY DEF Ring
<1>2. ASSUME NEW i \in 0 .. Len(s) PROVE NodeAt(h, s, i + 1) \in Owned(h, s)
  <2>1. Len(s) \in Nat
    BY Along
  <2>2. CASE i = Len(s)
    <3>1. NodeAt(h, s, i + 1) = NodeAt(h, s, 0) /\ 0 \in 0 .. Len(s)
      BY <2>1, <2>2, Along
    <3> QED BY <3>1 DEF Owned
  <2>3. CASE i # Len(s)
    <3>1. i + 1 \in 0 .. Len(s)
      BY <2>1, <2>3
    <3> QED BY <3>1 DEF Owned
  <2> QED BY <2>2, <2>3
<1>3. m.prev[x] \notin Owned(h, s)
  <2> SUFFICES ASSUME NEW i \in 0 .. Len(s), m.prev[x] = NodeAt(h, s, i) PROVE FALSE
    BY DEF Owned
  <2> QED BY <1>1, <1>2, Along
<1>4. m.next[x] \notin Owned(h, s)
  <2> SUFFICES ASSUME NEW i \in 0 .. Len(s), m.next[x] = NodeAt(h, s, i) PROVE FALSE
    BY DEF Owned
  <2>1. Len(s) \in Nat
    BY Along
  <2>2. PICK j \in 0 .. Len(s) : NodeAt(h, s, i) = NodeAt(h, s, j + 1)
    <3>1. CASE i = 0
      <4>1. Len(s) \in 0 .. Len(s) /\ NodeAt(h, s, i) = NodeAt(h, s, Len(s) + 1)
        BY <2>1, <3>1, Along
      <4> QED BY <4>1
    <3>2. CASE i # 0
      <4>1. i - 1 \in 0 .. Len(s) /\ (i - 1) + 1 = i
        BY <2>1, <3>2
      <4> QED BY <4>1
    <3> QED BY <3>1, <3>2
  <2>3. x = NodeAt(h, s, j)
    BY <1>1, <2>2, Along
  <2> QED BY <2>3 DEF Owned
<1> QED BY <1>3, <1>4

(* A node in no ring is in no list.                                        *)
LEMMA LooseIsUnowned ==
  ASSUME NEW m, NEW l, Ring(m, l), NEW h \in Heads \cap l, NEW s, Chained(m, h, s),
         NEW x, x # h, x \notin l \/ m.next[x] = x
  PROVE  x \notin Owned(h, s)
<1> SUFFICES ASSUME NEW i \in 0 .. Len(s), x = NodeAt(h, s, i) PROVE FALSE
  BY DEF Owned
<1>1. Len(s) \in Nat /\ i # 0 /\ i \in 1 .. Len(s) /\ x = s[i]
  BY Along
<1>2. x \in l /\ x \in Entries /\ x # h
  <2>1. i \in 0 .. Len(s) + 1
    BY <1>1
  <2> QED BY <1>1, <2>1, Along
<1>3. NodeAt(h, s, i + 1) = s[i]
  BY <1>1, <1>2, Along
<1>4. CASE i = Len(s)
  BY <1>1, <1>2, <1>3, <1>4, Along
<1>5. CASE i # Len(s)
  <2>1. i + 1 \in 1 .. Len(s)
    BY <1>1, <1>5
  <2>2. s[i + 1] = s[i]
    BY <1>3, <2>1 DEF NodeAt
  <2>3. i + 1 = i
    BY <1>1, <2>1, <2>2 DEF Chained
  <2> QED BY <1>1, <2>3
<1> QED BY <1>4, <1>5

(* What is written elsewhere leaves a list alone.                          *)
LEMMA Untouched ==
  ASSUME NEW m, NEW h, NEW s, Chained(m, h, s),
         NEW m2, \A x \in Owned(h, s) : m2.next[x] = m.next[x]
  PROVE  Chained(m2, h, s)
BY DEF Chained, Owned

(* What the entries of a list become when one is put in behind place i, or *)
(* the one at place i is taken out or replaced.                            *)
Inserted(s, i, e) ==
  [k \in 1 .. Len(s) + 1 |-> IF k <= i THEN s[k] ELSE IF k = i + 1 THEN e ELSE s[k - 1]]
Removed(s, i) == [k \in 1 .. Len(s) - 1 |-> IF k < i THEN s[k] ELSE s[k + 1]]
Replaced(s, i, e) == [k \in 1 .. Len(s) |-> IF k = i THEN e ELSE s[k]]

(* A loose entry linked between two neighbours is inserted into the list.  *)
LEMMA LinkInserts ==
  ASSUME NEW m, NEW l, Ring(m, l), NEW h \in Heads \cap l, NEW s, Chained(m, h, s),
         NEW e \in Entries, e \notin Owned(h, s), NEW i \in 0 .. Len(s),
         NEW m2, m2.next = [m.next EXCEPT ![e] = NodeAt(h, s, i + 1), ![NodeAt(h, s, i)] = e]
  PROVE  Chained(m2, h, Inserted(s, i, e))
<1> DEFINE t == Inserted(s, i, e)
<1>1. Len(s) \in Nat /\ \A k \in 1 .. Len(s) : s[k] \in Entries /\ s[k] # e
  <2> SUFFICES ASSUME NEW k \in 1 .. Len(s), s[k] = e PROVE FALSE
    BY Along
  <2>1. k \in 0 .. Len(s) /\ NodeAt(h, s, k) = s[k]
    BY DEF NodeAt
  <2> QED BY <2>1 DEF Owned
<1>2. t \in Seq(Entries) /\ Len(t) = Len(s) + 1
  BY <1>1 DEF Inserted
<1>3. \A k \in 1 .. Len(t) : t[k] = IF k <= i THEN s[k] ELSE IF k = i + 1 THEN e ELSE s[k - 1]
  BY <1>2 DEF Inserted
<1>4. \A j, k \in 1 .. Len(t) : t[j] = t[k] => j = k
  <2> HIDE DEF t
  <2> DEFINE P(k) == IF k <= i THEN k ELSE k - 1
  <2>1. \A k \in 1 .. Len(t) : k # i + 1 => P(k) \in 1 .. Len(s) /\ t[k] = s[P(k)]
    BY <1>1, <1>2, <1>3
  <2>2. i + 1 \in 1 .. Len(t) /\ t[i + 1] = e
    BY <1>1, <1>2, <1>3
  <2>3. \A j, k \in 1 .. Len(s) : s[j] = s[k] => j = k
    BY DEF Chained
  <2> SUFFICES ASSUME NEW j \in 1 .. Len(t), NEW k \in 1 .. Len(t), t[j] = t[k]
               PROVE  j = k
    OBVIOUS
  <2>4. CASE j = i + 1 \/ k = i + 1
    BY <1>1, <2>1, <2>2, <2>4
  <2>5. CASE j # i + 1 /\ k # i + 1
    <3>1. P(j) = P(k)
      <4> HIDE DEF P
      <4> QED BY <2>1, <2>3, <2>5
    <3> QED BY <1>1, <1>2, <2>5, <3>1
  <2> QED BY <2>4, <2>5
<1>5. \A k \in 0 .. Len(t) + 1 :
        NodeAt(h, t, k) = IF k <= i THEN NodeAt(h, s, k)
                          ELSE IF k = i + 1 THEN e ELSE NodeAt(h, s, k - 1)
  <2> HIDE DEF t
  <2> QED BY <1>1, <1>2, <1>3 DEF NodeAt
<1>6. m.next \in Links /\ e \in Nodes /\ h \in Nodes /\ h # e
  BY ListsAssumption DEF Ring, Memory, Nodes
<1>7. \A j, k \in 0 .. Len(s) : NodeAt(h, s, j) = NodeAt(h, s, k) => j = k
  BY <1>1, ListsAssumption DEF Chained, NodeAt
<1>8. \A k \in 0 .. Len(s) : /\ NodeAt(h, s, k) \in Nodes /\ NodeAt(h, s, k) # e
                             /\ m2.next[NodeAt(h, s, k)] = IF k = i THEN e ELSE NodeAt(h, s, k + 1)
  <2> TAKE k \in 0 .. Len(s)
  <2>1. NodeAt(h, s, k) \in Nodes /\ NodeAt(h, s, k) # e
    BY <1>1, <1>6 DEF NodeAt, Nodes
  <2>2. m.next[NodeAt(h, s, k)] = NodeAt(h, s, k + 1)
    BY DEF Chained
  <2> QED BY <1>6, <1>7, <2>1, <2>2 DEF Links
<1>9. m2.next[e] = NodeAt(h, s, i + 1)
  BY <1>6, <1>8 DEF Links
<1>10. ASSUME NEW k \in 0 .. Len(t)
       PROVE  m2.next[NodeAt(h, t, k)] = NodeAt(h, t, k + 1)
  <2> HIDE DEF t
  <2>1. CASE k <= i
    <3>1. k \in 0 .. Len(s) /\ k \in 0 .. Len(t) + 1 /\ k + 1 \in 0 .. Len(t) + 1
      BY <1>1, <1>2, <2>1
    <3> QED BY <1>1, <1>5, <1>8, <2>1, <3>1
  <2>2. CASE k = i + 1
    <3>1. k \in 0 .. Len(t) + 1 /\ k + 1 \in 0 .. Len(t) + 1 /\ (k + 1) - 1 = i + 1
      BY <1>1, <1>2, <2>2
    <3> QED BY <1>1, <1>5, <1>9, <2>2, <3>1
  <2>3. CASE k > i + 1
    <3>1. /\ k - 1 \in 0 .. Len(s) /\ k \in 0 .. Len(t) + 1 /\ k + 1 \in 0 .. Len(t) + 1
          /\ (k + 1) - 1 = (k - 1) + 1 /\ k - 1 # i
          /\ ~ (k <= i) /\ k # i + 1 /\ ~ (k + 1 <= i) /\ k + 1 # i + 1
      BY <1>1, <1>2, <2>3
    <3>2. NodeAt(h, t, k) = NodeAt(h, s, k - 1)
      BY <1>5, <3>1
    <3>3. NodeAt(h, t, k + 1) = NodeAt(h, s, (k - 1) + 1)
      BY <1>5, <3>1
    <3> QED BY <1>8, <3>1, <3>2, <3>3
  <2> QED BY <1>1, <1>2, <2>1, <2>2, <2>3
<1> QED BY <1>2, <1>4, <1>10 DEF Chained

(* Neighbours joined over an entry take it out of the list.                *)
LEMMA UnlinkRemoves ==
  ASSUME NEW m, NEW l, Ring(m, l), NEW h \in Heads \cap l, NEW s, Chained(m, h, s),
         NEW i \in 1 .. Len(s),
         NEW m2, \A x \in Owned(h, s) \ {s[i]} :
           m2.next[x] = IF x = NodeAt(h, s, i - 1) THEN NodeAt(h, s, i + 1) ELSE m.next[x]
  PROVE  Chained(m2, h, Removed(s, i))
<1> DEFINE t == Removed(s, i)
<1>1. Len(s) \in Nat /\ \A k \in 1 .. Len(s) : s[k] \in Entries
  BY Along
<1>2. t \in Seq(Entries) /\ Len(t) = Len(s) - 1
  BY <1>1 DEF Removed
<1>3. \A k \in 1 .. Len(t) : t[k] = IF k < i THEN s[k] ELSE s[k + 1]
  BY <1>2 DEF Removed
<1>4. \A j, k \in 1 .. Len(t) : t[j] = t[k] => j = k
  BY <1>1, <1>2, <1>3 DEF Chained
<1>5. \A k \in 0 .. Len(t) + 1 :
        NodeAt(h, t, k) = IF k < i THEN NodeAt(h, s, k) ELSE NodeAt(h, s, k + 1)
  <2> HIDE DEF t
  <2> QED BY <1>1, <1>2, <1>3 DEF NodeAt
<1>7. \A j, k \in 0 .. Len(s) : NodeAt(h, s, j) = NodeAt(h, s, k) => j = k
  BY <1>1, ListsAssumption DEF Chained, NodeAt
<1>8. \A k \in 0 .. Len(s) : k # i =>
        m2.next[NodeAt(h, s, k)] =
          IF k = i - 1 THEN NodeAt(h, s, i + 1) ELSE NodeAt(h, s, k + 1)
  <2> SUFFICES ASSUME NEW k \in 0 .. Len(s), k # i
               PROVE  m2.next[NodeAt(h, s, k)] =
                        IF k = i - 1 THEN NodeAt(h, s, i + 1) ELSE NodeAt(h, s, k + 1)
    OBVIOUS
  <2>1. i \in 0 .. Len(s) /\ i - 1 \in 0 .. Len(s) /\ NodeAt(h, s, i) = s[i]
    BY <1>1 DEF NodeAt
  <2>2. NodeAt(h, s, k) \in Owned(h, s) \ {s[i]}
    BY <1>7, <2>1 DEF Owned
  <2>3. NodeAt(h, s, k) = NodeAt(h, s, i - 1) <=> k = i - 1
    BY <1>7, <2>1
  <2> QED BY <2>2, <2>3, Along
<1>10. ASSUME NEW k \in 0 .. Len(t)
       PROVE  m2.next[NodeAt(h, t, k)] = NodeAt(h, t, k + 1)
  <2> HIDE DEF t
  <2>1. CASE k < i - 1
    <3>1. /\ k \in 0 .. Len(s) /\ k # i /\ k < i /\ k + 1 < i
          /\ k \in 0 .. Len(t) + 1 /\ k + 1 \in 0 .. Len(t) + 1
      BY <1>1, <1>2, <2>1
    <3> QED BY <1>5, <1>8, <2>1, <3>1
  <2>2. CASE k = i - 1
    <3>1. /\ k \in 0 .. Len(s) /\ k # i /\ k < i /\ ~ (k + 1 < i) /\ (k + 1) + 1 = i + 1
          /\ k \in 0 .. Len(t) + 1 /\ k + 1 \in 0 .. Len(t) + 1
      BY <1>1, <1>2, <2>2
    <3> QED BY <1>5, <1>8, <2>2, <3>1
  <2>3. CASE k >= i
    <3>1. /\ k + 1 \in 0 .. Len(s) /\ k + 1 # i /\ k + 1 # i - 1 /\ ~ (k < i) /\ ~ (k + 1 < i)
          /\ k \in 0 .. Len(t) + 1 /\ k + 1 \in 0 .. Len(t) + 1
      BY <1>1, <1>2, <2>3
    <3> QED BY <1>5, <1>8, <2>3, <3>1
  <2> QED BY <1>1, <1>2, <2>1, <2>2, <2>3
<1> QED BY <1>2, <1>4, <1>10 DEF Chained

(* An entry replaced leaves the others where they were.                    *)
LEMMA ReplaceSwaps ==
  ASSUME NEW m, NEW l, Ring(m, l), NEW h \in Heads \cap l, NEW s, Chained(m, h, s),
         NEW i \in 1 .. Len(s), NEW e \in Entries, e \notin Owned(h, s),
         NEW m2,
         m2.next = [m.next EXCEPT ![e] = NodeAt(h, s, i + 1), ![NodeAt(h, s, i - 1)] = e]
  PROVE  Chained(m2, h, Replaced(s, i, e))
<1> DEFINE t == Replaced(s, i, e)
<1>1. Len(s) \in Nat /\ \A k \in 1 .. Len(s) : s[k] \in Entries /\ s[k] # e
  <2> SUFFICES ASSUME NEW k \in 1 .. Len(s), s[k] = e PROVE FALSE
    BY Along
  <2>1. k \in 0 .. Len(s) /\ NodeAt(h, s, k) = s[k]
    BY DEF NodeAt
  <2> QED BY <2>1 DEF Owned
<1>2. t \in Seq(Entries) /\ Len(t) = Len(s)
  BY <1>1 DEF Replaced
<1>3. \A k \in 1 .. Len(t) : t[k] = IF k = i THEN e ELSE s[k]
  BY <1>2 DEF Replaced
<1>4. \A j, k \in 1 .. Len(t) : t[j] = t[k] => j = k
  <2> HIDE DEF t
  <2> QED BY <1>1, <1>2, <1>3 DEF Chained
<1>5. \A k \in 0 .. Len(t) + 1 : NodeAt(h, t, k) = IF k = i THEN e ELSE NodeAt(h, s, k)
  <2> HIDE DEF t
  <2> QED BY <1>1, <1>2, <1>3 DEF NodeAt
<1>6. m.next \in Links /\ e \in Nodes /\ h \in Nodes /\ h # e
  BY ListsAssumption DEF Ring, Memory, Nodes
<1>7. \A j, k \in 0 .. Len(s) : NodeAt(h, s, j) = NodeAt(h, s, k) => j = k
  BY <1>1, ListsAssumption DEF Chained, NodeAt
<1>8. \A k \in 0 .. Len(s) :
        /\ NodeAt(h, s, k) \in Nodes /\ NodeAt(h, s, k) # e
        /\ m2.next[NodeAt(h, s, k)] = IF k = i - 1 THEN e ELSE NodeAt(h, s, k + 1)
  <2> TAKE k \in 0 .. Len(s)
  <2>1. NodeAt(h, s, k) \in Nodes /\ NodeAt(h, s, k) # e
    BY <1>1, <1>6 DEF NodeAt, Nodes
  <2>2. m.next[NodeAt(h, s, k)] = NodeAt(h, s, k + 1)
    BY DEF Chained
  <2>3. i - 1 \in 0 .. Len(s)
    BY <1>1
  <2>4. NodeAt(h, s, k) = NodeAt(h, s, i - 1) <=> k = i - 1
    BY <1>7, <2>3
  <2> QED BY <1>6, <2>1, <2>2, <2>4 DEF Links
<1>9. m2.next[e] = NodeAt(h, s, i + 1)
  <2>1. i - 1 \in 0 .. Len(s)
    BY <1>1
  <2> QED BY <1>6, <1>8, <2>1 DEF Links
<1>10. ASSUME NEW k \in 0 .. Len(t)
       PROVE  m2.next[NodeAt(h, t, k)] = NodeAt(h, t, k + 1)
  <2> HIDE DEF t
  <2>1. k \in 0 .. Len(s) /\ k \in 0 .. Len(t) + 1 /\ k + 1 \in 0 .. Len(t) + 1
        /\ (k = i - 1 <=> k + 1 = i)
    BY <1>1, <1>2
  <2>2. NodeAt(h, t, k + 1) = IF k = i - 1 THEN e ELSE NodeAt(h, s, k + 1)
    BY <1>5, <2>1
  <2>3. CASE k = i
    <3>1. NodeAt(h, t, k) = e /\ k # i - 1
      BY <1>5, <2>1, <2>3
    <3> QED BY <1>9, <2>2, <2>3, <3>1
  <2>4. CASE k # i
    <3>1. NodeAt(h, t, k) = NodeAt(h, s, k)
      BY <1>5, <2>1, <2>4
    <3> QED BY <1>8, <2>1, <2>2, <3>1
  <2> QED BY <2>3, <2>4
<1> QED BY <1>2, <1>4, <1>10 DEF Chained

(* Another head takes over the whole list.                                 *)
LEMMA HeadSwaps ==
  ASSUME NEW m, NEW l, Ring(m, l), NEW h \in Heads \cap l, NEW s, Chained(m, h, s),
         NEW g \in Heads, g # h, NEW m2, m2.next \in Links,
         m2.next = [m.next EXCEPT ![g] = NodeAt(g, s, 1), ![NodeAt(g, s, Len(s))] = g]
  PROVE  Chained(m2, g, s)
<1>1. Len(s) \in Nat /\ \A k \in 1 .. Len(s) : s[k] \in Entries
  BY Along
<1>2. \A j, k \in 0 .. Len(s) : NodeAt(g, s, j) = NodeAt(g, s, k) => j = k
  BY <1>1, ListsAssumption DEF Chained, NodeAt
<1>3. \A k \in 0 .. Len(s) : NodeAt(g, s, k) \in Nodes /\ m.next \in Links /\ g \in Nodes
  BY <1>1 DEF NodeAt, Nodes, Ring, Memory
<1>4. NodeAt(g, s, 0) = g /\ NodeAt(g, s, Len(s) + 1) = g
  BY <1>1 DEF NodeAt
<1>5. ASSUME NEW k \in 0 .. Len(s)
      PROVE  m2.next[NodeAt(g, s, k)] = NodeAt(g, s, k + 1)
  <2>1. 0 \in 0 .. Len(s) /\ Len(s) \in 0 .. Len(s)
    BY <1>1
  <2>2. CASE k = Len(s)
    BY <1>3, <1>4, <2>1, <2>2 DEF Links
  <2>3. CASE k # Len(s) /\ k = 0
    <3>1. NodeAt(g, s, Len(s)) # g
      BY <1>2, <1>4, <2>1, <2>3
    <3> QED BY <1>3, <1>4, <2>3, <3>1 DEF Links
  <2>4. CASE k # Len(s) /\ k # 0
    <3>1. NodeAt(g, s, k) # g /\ NodeAt(g, s, k) # NodeAt(g, s, Len(s))
      BY <1>2, <1>4, <2>1, <2>4
    <3>2. m2.next[NodeAt(g, s, k)] = m.next[NodeAt(g, s, k)]
      BY <1>3, <3>1 DEF Links
    <3>3. NodeAt(g, s, k) = NodeAt(h, s, k) /\ NodeAt(g, s, k + 1) = NodeAt(h, s, k + 1)
      BY <1>1, <2>4 DEF NodeAt
    <3> QED BY <3>2, <3>3, Along
  <2> QED BY <2>2, <2>3, <2>4
<1> QED BY <1>5 DEF Chained

(* A list is cut behind place i: the entries before are those of head g.   *)
LEMMA CutParts ==
  ASSUME NEW m, NEW l, Ring(m, l), NEW h \in Heads \cap l, NEW s, Chained(m, h, s),
         NEW i \in 1 .. Len(s), NEW g \in Heads, g # h, NEW m2,
         m2.next = [m.next EXCEPT ![g] = s[1], ![s[i]] = g, ![h] = NodeAt(h, s, i + 1)]
  PROVE  Chained(m2, g, SubSeq(s, 1, i)) /\ Chained(m2, h, SubSeq(s, i + 1, Len(s)))
<1> DEFINE t == SubSeq(s, 1, i)
           u == SubSeq(s, i + 1, Len(s))
<1>1. Len(s) \in Nat /\ \A k \in 1 .. Len(s) : s[k] \in Entries
  BY Along
<1>2. /\ t \in Seq(Entries) /\ Len(t) = i /\ \A k \in 1 .. i : t[k] = s[k]
      /\ u \in Seq(Entries) /\ Len(u) = Len(s) - i
      /\ \A k \in 1 .. Len(s) - i : u[k] = s[k + i]
  <2>1. s \in Seq(Entries)
    BY DEF Chained
  <2> QED BY <1>1, <2>1
<1>3. g \in Nodes /\ h \in Nodes /\ g \notin Entries /\ h \notin Entries /\ m.next \in Links
  BY ListsAssumption DEF Ring, Memory, Nodes
<1>4. \A j, k \in 1 .. Len(s) : s[j] = s[k] => j = k
  BY DEF Chained
<1>5. /\ m2.next[g] = s[1] /\ m2.next[h] = NodeAt(h, s, i + 1)
      /\ \A k \in 1 .. Len(s) : m2.next[s[k]] = IF k = i THEN g ELSE NodeAt(h, s, k + 1)
  <2>1. \A k \in 1 .. Len(s) : s[k] \in Nodes /\ s[k] # g /\ s[k] # h
    BY <1>1, <1>3 DEF Nodes
  <2>2. ASSUME NEW k \in 1 .. Len(s)
        PROVE  m2.next[s[k]] = IF k = i THEN g ELSE NodeAt(h, s, k + 1)
    <3>1. m.next[s[k]] = NodeAt(h, s, k + 1)
      <4>1. k \in 0 .. Len(s) /\ NodeAt(h, s, k) = s[k]
        BY <1>1 DEF NodeAt
      <4> QED BY <4>1 DEF Chained
    <3>2. s[k] = s[i] <=> k = i
      BY <1>4
    <3> QED BY <1>3, <2>1, <3>1, <3>2 DEF Links
  <2>3. m2.next[g] = s[1] /\ m2.next[h] = NodeAt(h, s, i + 1)
    BY <1>3, <2>1 DEF Links
  <2> QED BY <2>2, <2>3
<1> HIDE DEF t, u
<1>6. ASSUME NEW k \in 0 .. Len(t)
      PROVE  m2.next[NodeAt(g, t, k)] = NodeAt(g, t, k + 1)
  <2>1. CASE k = 0
    BY <1>1, <1>2, <1>5, <2>1 DEF NodeAt
  <2>2. CASE k # 0
    <3>1. k \in 1 .. Len(s) /\ k \in 1 .. i /\ NodeAt(g, t, k) = s[k]
      BY <1>1, <1>2, <2>2 DEF NodeAt
    <3>2. NodeAt(g, t, k + 1) = IF k = i THEN g ELSE NodeAt(h, s, k + 1)
      BY <1>1, <1>2, <3>1 DEF NodeAt
    <3> QED BY <1>5, <3>1, <3>2
  <2> QED BY <2>1, <2>2
<1>7. ASSUME NEW k \in 0 .. Len(u)
      PROVE  m2.next[NodeAt(h, u, k)] = NodeAt(h, u, k + 1)
  <2>1. CASE k = 0
    BY <1>1, <1>2, <1>5, <2>1 DEF NodeAt
  <2>2. CASE k # 0
    <3>1. k + i \in 1 .. Len(s) /\ k + i # i /\ NodeAt(h, u, k) = s[k + i]
      BY <1>1, <1>2, <2>2 DEF NodeAt
    <3>2. NodeAt(h, u, k + 1) = NodeAt(h, s, (k + i) + 1)
      BY <1>1, <1>2, <2>2 DEF NodeAt
    <3> QED BY <1>5, <3>1, <3>2
  <2> QED BY <2>1, <2>2
<1>8. \A j, k \in 1 .. Len(t) : t[j] = t[k] => j = k
  <2> TAKE j, k \in 1 .. Len(t)
  <2>1. j \in 1 .. Len(s) /\ k \in 1 .. Len(s) /\ t[j] = s[j] /\ t[k] = s[k]
    BY <1>1, <1>2
  <2> QED BY <1>4, <2>1
<1>9. \A j, k \in 1 .. Len(u) : u[j] = u[k] => j = k
  <2> TAKE j, k \in 1 .. Len(u)
  <2>1. j + i \in 1 .. Len(s) /\ k + i \in 1 .. Len(s) /\ u[j] = s[j + i] /\ u[k] = s[k + i]
    BY <1>1, <1>2
  <2>2. u[j] = u[k] => j + i = k + i
    BY <1>4, <2>1
  <2>3. i \in Int /\ j \in Int /\ k \in Int
    BY <1>1
  <2> QED BY <2>2, <2>3
<1>10. Chained(m2, g, t)
  BY <1>2, <1>6, <1>8 DEF Chained
<1>11. Chained(m2, h, u)
  BY <1>2, <1>7, <1>9 DEF Chained
<1> QED BY <1>10, <1>11 DEF t, u

(* The entries t put into s after its i-th.                                *)
Spliced(s, i, t) ==
  [k \in 1 .. Len(s) + Len(t) |-> IF k <= i THEN s[k]
                                  ELSE IF k <= i + Len(t) THEN t[k - i] ELSE s[k - Len(t)]]

(* The entries of one list, spliced between two neighbours of another.     *)
LEMMA SpliceInserts ==
  ASSUME NEW m, NEW l, Ring(m, l),
         NEW h \in Heads \cap l, NEW s, Chained(m, h, s), NEW i \in 0 .. Len(s),
         NEW g \in Heads \cap l, g # h, NEW t, Chained(m, g, t), t # <<>>,
         NEW m2, \A x \in Owned(h, s) \cup Owned(g, t) : x # g =>
           m2.next[x] = IF x = t[Len(t)] THEN NodeAt(h, s, i + 1)
                        ELSE IF x = NodeAt(h, s, i) THEN t[1] ELSE m.next[x]
  PROVE  Chained(m2, h, Spliced(s, i, t))
<1> DEFINE u == Spliced(s, i, t)
           N == Len(s)
           K == Len(t)
<1>1. /\ N \in Nat /\ K \in Nat \ {0} /\ i \in 0 .. N
      /\ \A k \in 1 .. N : s[k] \in Entries
      /\ \A k \in 1 .. K : t[k] \in Entries
  <2>1. t \in Seq(Entries)
    BY DEF Chained
  <2> QED BY <2>1, Along
<1>2. u \in Seq(Entries) /\ Len(u) = N + K
  <2>1. \A k \in 1 .. N + K : (IF k <= i THEN s[k]
                                 ELSE IF k <= i + K THEN t[k - i] ELSE s[k - K]) \in Entries
    BY <1>1
  <2> HIDE DEF N, K
  <2>2. N + K \in Nat
    BY <1>1
  <2> QED BY <2>1, <2>2 DEF Spliced, N, K
<1>3. \A k \in 1 .. N + K : u[k] = IF k <= i THEN s[k]
                                   ELSE IF k <= i + K THEN t[k - i] ELSE s[k - K]
  BY <1>2 DEF Spliced
<1>4. \A j \in 0 .. N : \A k \in 1 .. K : NodeAt(h, s, j) # t[k]
  <2> TAKE j \in 0 .. N
  <2> TAKE k \in 1 .. K
  <2>1. k \in 0 .. K /\ NodeAt(g, t, k) = t[k]
    BY <1>1 DEF NodeAt
  <2> QED BY <2>1, OwnedApart DEF Owned
<1>5. /\ \A j, k \in 0 .. N : NodeAt(h, s, j) = NodeAt(h, s, k) => j = k
      /\ \A j, k \in 1 .. K : t[j] = t[k] => j = k
  BY <1>1, ListsAssumption DEF Chained, NodeAt
<1>6. \A j \in 0 .. N : m2.next[NodeAt(h, s, j)] = IF j = i THEN t[1] ELSE NodeAt(h, s, j + 1)
  <2> TAKE j \in 0 .. N
  <2>1. NodeAt(h, s, j) \in Owned(h, s) /\ NodeAt(h, s, j) # t[K]
    BY <1>1, <1>4 DEF Owned
  <2>2. NodeAt(h, s, j) # g
    BY <1>1, ListsAssumption DEF NodeAt
  <2>3. NodeAt(h, s, j) = NodeAt(h, s, i) <=> j = i
    BY <1>5
  <2> QED BY <2>1, <2>2, <2>3, Along
<1>7. \A j \in 1 .. K : m2.next[t[j]] = IF j = K THEN NodeAt(h, s, i + 1) ELSE t[j + 1]
  <2> TAKE j \in 1 .. K
  <2>1. j \in 0 .. K /\ NodeAt(g, t, j) = t[j] /\ t[j] # g
    BY <1>1, ListsAssumption DEF NodeAt
  <2>2. t[j] \in Owned(g, t) /\ t[j] # NodeAt(h, s, i)
    BY <1>1, <1>4, <2>1 DEF Owned
  <2>3. t[j] = t[K] <=> j = K
    BY <1>1, <1>5
  <2>4. m.next[t[j]] = NodeAt(g, t, j + 1) /\ (j # K => NodeAt(g, t, j + 1) = t[j + 1])
    BY <1>1, <2>1 DEF Chained, NodeAt
  <2> QED BY <2>1, <2>2, <2>3, <2>4
<1> HIDE DEF u, N, K
<1>8. \A k \in 0 .. N + K + 1 :
        NodeAt(h, u, k) = IF k <= i THEN NodeAt(h, s, k)
                          ELSE IF k <= i + K THEN t[k - i] ELSE NodeAt(h, s, k - K)
  BY <1>1, <1>2, <1>3 DEF NodeAt, N
<1>9. ASSUME NEW k \in 0 .. N + K
      PROVE  m2.next[NodeAt(h, u, k)] = NodeAt(h, u, k + 1)
  <2>0. k \in 0 .. N + K + 1 /\ k + 1 \in 0 .. N + K + 1
    BY <1>1
  <2>1. CASE k < i
    <3>1. k \in 0 .. N /\ k <= i /\ k + 1 <= i /\ k # i
      BY <1>1, <2>1
    <3> QED BY <1>6, <1>8, <2>0, <3>1
  <2>2. CASE k = i
    <3>1. k <= i /\ ~ (k + 1 <= i) /\ k + 1 <= i + K /\ (k + 1) - i = 1
      BY <1>1, <2>2
    <3>2. NodeAt(h, u, k) = NodeAt(h, s, i) /\ NodeAt(h, u, k + 1) = t[1]
      BY <1>8, <2>0, <2>2, <3>1
    <3> QED BY <1>1, <1>6, <3>2
  <2>3. CASE k > i /\ k < i + K
    <3>1. /\ ~ (k <= i) /\ k <= i + K /\ ~ (k + 1 <= i) /\ k + 1 <= i + K
          /\ k - i \in 1 .. K /\ k - i # K /\ (k + 1) - i = (k - i) + 1
      BY <1>1, <2>3
    <3> QED BY <1>7, <1>8, <2>0, <3>1
  <2>4. CASE k = i + K
    <3>1. /\ ~ (k <= i) /\ k <= i + K /\ ~ (k + 1 <= i) /\ ~ (k + 1 <= i + K)
          /\ k - i \in 1 .. K /\ k - i = K /\ (k + 1) - K = i + 1
      BY <1>1, <2>4
    <3> QED BY <1>7, <1>8, <2>0, <3>1
  <2>5. CASE k > i + K
    <3>1. /\ ~ (k <= i) /\ ~ (k <= i + K) /\ ~ (k + 1 <= i) /\ ~ (k + 1 <= i + K)
          /\ k - K \in 0 .. N /\ k - K # i /\ (k + 1) - K = (k - K) + 1
      BY <1>1, <2>5
    <3> QED BY <1>6, <1>8, <2>0, <3>1
  <2> QED BY <1>1, <2>1, <2>2, <2>3, <2>4, <2>5
<1>10. ASSUME NEW j \in 1 .. N + K, NEW k \in 1 .. N + K, u[j] = u[k]
       PROVE  j = k
  <2> DEFINE InT(x) == x > i /\ x <= i + K
             P(x) == IF x <= i THEN x ELSE x - K
  <2>1. ASSUME NEW x \in 1 .. N + K, InT(x) PROVE x - i \in 1 .. K /\ u[x] = t[x - i]
    BY <1>1, <1>3, <2>1
  <2>2. ASSUME NEW x \in 1 .. N + K, ~ InT(x)
        PROVE  P(x) \in 1 .. N /\ P(x) \in 0 .. N /\ u[x] = s[P(x)] /\ NodeAt(h, s, P(x)) = u[x]
    BY <1>1, <1>3, <2>2 DEF NodeAt, N
  <2>3. CASE InT(j) /\ InT(k)
    BY <1>1, <1>5, <1>10, <2>1, <2>3
  <2>4. CASE ~ InT(j) /\ ~ InT(k)
    <3>1. P(j) = P(k)
      <4> HIDE DEF P, InT
      <4> QED BY <1>5, <1>10, <2>2, <2>4
    <3> QED BY <1>1, <2>4, <3>1
  <2>5. CASE InT(j) /\ ~ InT(k)
    <3> HIDE DEF P, InT
    <3> QED BY <1>4, <1>10, <2>1, <2>2, <2>5
  <2>6. CASE ~ InT(j) /\ InT(k)
    <3> HIDE DEF P, InT
    <3> QED BY <1>4, <1>10, <2>1, <2>2, <2>6
  <2> QED BY <2>3, <2>4, <2>5, <2>6
<1>11. Chained(m2, h, u)
  BY <1>2, <1>9, <1>10 DEF Chained
<1> QED BY <1>11 DEF u

-----------------------------------------------------------------------------
(* S is what the heads of the memory m own.                                *)
Holds(m, l, S) ==
  /\ Ring(m, l)
  /\ S = [h \in Heads |-> S[h]]
  /\ \A h \in Heads \cap l : Chained(m, h, S[h])
  /\ \A h \in Heads \ l : S[h] = <<>>

(* A memory holds no lists but the ones it gives.                          *)
LEMMA HoldsIs ==
  ASSUME NEW m, NEW l, NEW S, Holds(m, l, S)
  PROVE  [h \in Heads |-> IF h \in l THEN Chain(m, "next", m.next[h]) ELSE <<>>] = S
<1>1. \A h \in Heads : (IF h \in l THEN Chain(m, "next", m.next[h]) ELSE <<>>) = S[h]
  BY ChainIs DEF Holds
<1>2. [h \in Heads |-> IF h \in l THEN Chain(m, "next", m.next[h]) ELSE <<>>]
        = [h \in Heads |-> S[h]]
  BY <1>1
<1> QED BY <1>2 DEF Holds

(* Lists that are held are sequences of live entries, no entry in two      *)
(* places.                                                                 *)
LEMMA HoldsTypes ==
  ASSUME NEW m, NEW l, NEW S, Holds(m, l, S), NEW h \in Heads
  PROVE  /\ S[h] \in Seq(Entries) /\ Len(S[h]) \in Nat
         /\ \A i \in 1 .. Len(S[h]) : /\ S[h][i] \in Entries /\ S[h][i] \in l
                                      /\ m.next[S[h][i]] # S[h][i]
         /\ \A i, j \in 1 .. Len(S[h]) : S[h][i] = S[h][j] => i = j
         /\ \A g \in Heads : g # h =>
              \A i \in 1 .. Len(S[h]) : \A j \in 1 .. Len(S[g]) : S[h][i] # S[g][j]
<1> DEFINE s == S[h]
<1>1. CASE h \notin l
  <2>1. s = <<>>
    BY <1>1 DEF Holds
  <2> QED BY <2>1
<1>2. CASE h \in l
  <2>1. Ring(m, l) /\ Chained(m, h, s)
    BY <1>2 DEF Holds
  <2>2. s \in Seq(Entries) /\ \A i, j \in 1 .. Len(s) : s[i] = s[j] => i = j
    BY <2>1 DEF Chained
  <2> HIDE DEF s
  <2>3. Len(s) \in Nat /\ \A i \in 1 .. Len(s) : /\ i \in 0 .. Len(s) + 1 /\ i \in 0 .. Len(s)
                                                 /\ s[i] = NodeAt(h, s, i)
    BY <2>2 DEF NodeAt
  <2>4. \A i \in 1 .. Len(s) : s[i] \in Entries /\ s[i] \in l /\ s[i] \in Owned(h, s)
    BY <1>2, <2>1, <2>3, Along DEF Owned
  <2>5. \A i \in 1 .. Len(s) : m.next[s[i]] # s[i]
    <3> SUFFICES ASSUME NEW i \in 1 .. Len(s), m.next[s[i]] = s[i] PROVE FALSE
      OBVIOUS
    <3>1. s[i] # h
      BY <2>4, ListsAssumption
    <3> QED BY <1>2, <2>1, <2>4, <3>1, LooseIsUnowned
  <2>6. ASSUME NEW g \in Heads, g # h, NEW i \in 1 .. Len(s), NEW j \in 1 .. Len(S[g])
        PROVE  s[i] # S[g][j]
    <3>1. CASE g \notin l
      <4>1. S[g] = <<>>
        BY <3>1 DEF Holds
      <4> QED BY <4>1
    <3>2. CASE g \in l
      <4>1. Chained(m, g, S[g])
        BY <3>2 DEF Holds
      <4>2. S[g][j] \in Owned(g, S[g])
        <5>1. S[g][j] = NodeAt(g, S[g], j) /\ j \in 0 .. Len(S[g])
          BY DEF NodeAt
        <5> QED BY <5>1 DEF Owned
      <4> QED BY <1>2, <2>1, <2>4, <2>6, <3>2, <4>1, <4>2, OwnedApart
    <3> QED BY <3>1, <3>2
  <2> QED BY <2>2, <2>3, <2>4, <2>5, <2>6 DEF s
<1> QED BY <1>1, <1>2

(* A list that a node is not in does not own it.                           *)
LEMMA NotOwned ==
  ASSUME NEW h \in Heads, NEW s, NEW x, x # h, \A i \in 1 .. Len(s) : s[i] # x
  PROVE  x \notin Owned(h, s)
BY DEF Owned, NodeAt

(* list_add and list_add_tail, in terms of the lists held.                 *)
LEMMA AddHolds ==
  ASSUME NEW m, NEW l, NEW S, Holds(m, l, S), NEW h \in Heads \cap l,
         NEW e \in Entries, e \notin l \/ m.next[e] = e
  PROVE  /\ \A g \in Heads : \A i \in 1 .. Len(S[g]) : S[g][i] # e
         /\ Holds(list_add(m, e, h), l \cup {e}, [S EXCEPT ![h] = <<e>> \o @])
         /\ Holds(list_add_tail(m, e, h), l \cup {e}, [S EXCEPT ![h] = Append(@, e)])
<1> DEFINE s == S[h]
           a == list_add(m, e, h)
           b == list_add_tail(m, e, h)
           L == l \cup {e}
<1>1. \A g \in Heads : \A i \in 1 .. Len(S[g]) : S[g][i] # e
  BY HoldsTypes
<1>2. Ring(m, l) /\ Chained(m, h, s) /\ e \notin Heads /\ e \in Nodes /\ e # h
  BY ListsAssumption DEF Holds, Nodes
<1>3. Ring(a, L) /\ Ring(b, L)
  BY <1>2, AddKeepsIInv
<1>4. s \in Seq(Entries) /\ Len(s) \in Nat
  BY HoldsTypes
<1>5. /\ NodeAt(h, s, 0) = h /\ NodeAt(h, s, Len(s) + 1) = h
      /\ m.next[h] = NodeAt(h, s, 1) /\ m.prev[h] = NodeAt(h, s, Len(s))
      /\ 0 \in 0 .. Len(s) /\ Len(s) \in 0 .. Len(s)
  <2>1. 0 \in 0 .. Len(s) /\ Len(s) \in 0 .. Len(s) /\ 0 + 1 = 1
    BY <1>4
  <2> HIDE DEF s
  <2> QED BY <1>2, <2>1, Along
<1>6. /\ a.next = [m.next EXCEPT ![e] = NodeAt(h, s, 0 + 1), ![NodeAt(h, s, 0)] = e]
      /\ b.next = [m.next EXCEPT ![e] = NodeAt(h, s, Len(s) + 1), ![NodeAt(h, s, Len(s))] = e]
  BY <1>5 DEF list_add, list_add_tail, list_add_between
<1>7. e \notin Owned(h, s)
  BY <1>1, <1>2, NotOwned
<1>8. Inserted(s, 0, e) = <<e>> \o s /\ Inserted(s, Len(s), e) = Append(s, e)
  <2> HIDE DEF s
  <2>1. Inserted(s, 0, e) = <<e>> \o s
    BY <1>4 DEF Inserted
  <2>2. Inserted(s, Len(s), e) = Append(s, e)
    <3>1. \A k \in 1 .. Len(s) + 1 : Append(s, e)[k] = IF k <= Len(s) THEN s[k] ELSE e
      <4>1. \A k \in 1 .. Len(s) + 1 : k <= Len(s) => k \in 1 .. Len(s)
        BY <1>4
      <4>2. \A k \in 1 .. Len(s) + 1 : ~ (k <= Len(s)) => k = Len(s) + 1
        BY <1>4
      <4> QED BY <1>4, <4>1, <4>2, AppendProperties
    <3>2. Append(s, e) = [k \in 1 .. Len(s) + 1 |-> Append(s, e)[k]]
      <4>1. Append(s, e) \in Seq(Entries) /\ Len(Append(s, e)) = Len(s) + 1
        BY <1>4, AppendProperties
      <4> HIDE DEF s
      <4> QED BY <4>1, LenProperties
    <3>3. [k \in 1 .. Len(s) + 1 |-> Append(s, e)[k]] = Inserted(s, Len(s), e)
      BY <1>4, <3>1 DEF Inserted
    <3> QED BY <3>2, <3>3
  <2> QED BY <2>1, <2>2
<1>9. Chained(a, h, <<e>> \o s) /\ Chained(b, h, Append(s, e))
  <2> HIDE DEF s, a, b
  <2>1. Chained(a, h, Inserted(s, 0, e))
    BY <1>2, <1>5, <1>6, <1>7, LinkInserts
  <2>2. Chained(b, h, Inserted(s, Len(s), e))
    BY <1>2, <1>5, <1>6, <1>7, LinkInserts
  <2> QED BY <1>8, <2>1, <2>2
<1>10. ASSUME NEW g \in Heads \cap l, g # h
       PROVE  Chained(a, g, S[g]) /\ Chained(b, g, S[g])
  <2>1. Chained(m, g, S[g])
    BY DEF Holds
  <2>2. e \notin Owned(g, S[g])
    BY <1>1, <1>2, NotOwned
  <2>3. Owned(g, S[g]) \cap Owned(h, s) = {}
    BY <1>2, <1>10, <2>1, OwnedApart
  <2>4. NodeAt(h, s, 0) \in Owned(h, s) /\ NodeAt(h, s, Len(s)) \in Owned(h, s)
    BY <1>5 DEF Owned
  <2>5. \A x \in Owned(g, S[g]) : a.next[x] = m.next[x] /\ b.next[x] = m.next[x]
    <3> HIDE DEF s, a, b
    <3>1. Owned(g, S[g]) \subseteq Nodes /\ m.next \in Links
      BY <1>2, <2>1, OwnedNodes
    <3> QED BY <1>6, <2>2, <2>3, <2>4, <3>1 DEF Links
  <2> HIDE DEF a, b
  <2> QED BY <2>1, <2>5, Untouched
<1>11. Heads \cap L = Heads \cap l /\ Heads \ L = Heads \ l
  BY <1>2
<1>12. DOMAIN S = Heads
  BY DEF Holds
<1> HIDE DEF a, b, L
<1>13. Holds(a, L, [S EXCEPT ![h] = <<e>> \o @])
  BY <1>3, <1>9, <1>10, <1>11, <1>12 DEF Holds
<1>14. Holds(b, L, [S EXCEPT ![h] = Append(@, e)])
  BY <1>3, <1>9, <1>10, <1>11, <1>12 DEF Holds
<1> QED BY <1>1, <1>13, <1>14 DEF a, b, L

(* Where an entry stands in a list.                                        *)
Has(s, e) == \E i \in DOMAIN s : s[i] = e
PlaceOf(e, s) == CHOOSE i \in DOMAIN s : s[i] = e

(* The lists without an entry.                                             *)
Gone(S, e) ==
  [h \in Heads |-> IF Has(S[h], e) THEN RemoveAt(S[h], PlaceOf(e, S[h])) ELSE S[h]]

(* The place of an entry is the only one it has.                           *)
LEMMA PlaceIs ==
  ASSUME NEW E, NEW s \in Seq(E), \A i, j \in 1 .. Len(s) : s[i] = s[j] => i = j,
         NEW i \in 1 .. Len(s)
  PROVE  Has(s, s[i]) /\ PlaceOf(s[i], s) = i
<1>1. DOMAIN s = 1 .. Len(s)
  OBVIOUS
<1>2. \E k \in DOMAIN s : s[k] = s[i]
  BY <1>1
<1>3. PlaceOf(s[i], s) \in DOMAIN s /\ s[PlaceOf(s[i], s)] = s[i]
  BY <1>2 DEF PlaceOf
<1> QED BY <1>1, <1>2, <1>3 DEF Has

(* Removing the entry at a place, and only that.                           *)
LEMMA RemoveAtIs ==
  ASSUME NEW E, NEW s \in Seq(E), NEW i \in 1 .. Len(s)
  PROVE  RemoveAt(s, i) = Removed(s, i)
<1> DEFINE a == SubSeq(s, 1, i - 1)
           b == SubSeq(s, i + 1, Len(s))
<1>1. Len(s) \in Nat /\ \A k \in 1 .. Len(s) : s[k] \in E
  OBVIOUS
<1>2. /\ a \in Seq(E) /\ Len(a) = i - 1 /\ \A k \in 1 .. i - 1 : a[k] = s[k]
      /\ b \in Seq(E) /\ Len(b) = Len(s) - i
      /\ \A k \in 1 .. Len(s) - i : b[k] = s[k + i]
  BY <1>1
<1> HIDE DEF a, b
<1>3. /\ a \o b \in Seq(E) /\ Len(a \o b) = Len(s) - 1
      /\ \A k \in 1 .. Len(s) - 1 : (a \o b)[k] = IF k <= Len(a) THEN a[k] ELSE b[k - Len(a)]
  <2>1. Len(a) + Len(b) = Len(s) - 1
    BY <1>1, <1>2
  <2>2. /\ a \o b \in Seq(E) /\ Len(a \o b) = Len(a) + Len(b)
        /\ \A k \in 1 .. Len(a) + Len(b) : (a \o b)[k] = IF k <= Len(a) THEN a[k] ELSE b[k - Len(a)]
    BY <1>2, ConcatProperties
  <2> QED BY <2>1, <2>2
<1>4. \A k \in 1 .. Len(s) - 1 : (a \o b)[k] = IF k < i THEN s[k] ELSE s[k + 1]
  <2> TAKE k \in 1 .. Len(s) - 1
  <2>1. CASE k < i
    BY <1>1, <1>2, <1>3, <2>1
  <2>2. CASE ~ (k < i)
    <3>1. k - (i - 1) \in 1 .. Len(s) - i /\ (k - (i - 1)) + i = k + 1 /\ ~ (k <= i - 1)
      BY <1>1, <2>2
    <3> QED BY <1>2, <1>3, <2>2, <3>1
  <2> QED BY <2>1, <2>2
<1>5. a \o b = [k \in 1 .. Len(s) - 1 |-> (a \o b)[k]]
  BY <1>3, LenProperties
<1>6. [k \in 1 .. Len(s) - 1 |-> (a \o b)[k]] = Removed(s, i)
  BY <1>4 DEF Removed
<1> QED BY <1>5, <1>6 DEF RemoveAt, a, b

(* Taking an entry out takes it out of its list and of no other: list_del, *)
LEMMA UnlinkHolds ==
  ASSUME NEW m, NEW l, NEW S, Holds(m, l, S), NEW e \in Entries \cap l,
         NEW m2, NEW l2, Ring(m2, l2), Heads \cap l2 = Heads \cap l,
         \A x \in Nodes \ {e} : m2.next[x] = list_del_entry(m, e).next[x]
  PROVE  Holds(m2, l2, Gone(S, e))
<1>1. Ring(m, l) /\ m.next \in Links /\ e \in Nodes /\ e \notin Heads
  BY ListsAssumption DEF Holds, Ring, Memory, Nodes
<1>2. \A x \in Nodes \ {e} : m2.next[x] = IF x = m.prev[e] THEN m.next[e] ELSE m.next[x]
  BY <1>1 DEF list_del_entry, list_del_between, Links
<1>3. ASSUME NEW h \in Heads \cap l, ~ Has(S[h], e)
      PROVE  Chained(m2, h, S[h])
  <2>1. Chained(m, h, S[h]) /\ S[h] \in Seq(Entries)
    BY HoldsTypes DEF Holds
  <2>2. e \notin Owned(h, S[h])
    <3>1. \A i \in 1 .. Len(S[h]) : S[h][i] # e
      BY <1>3, <2>1 DEF Has
    <3> QED BY <1>1, <3>1, NotOwned
  <2>3. m.prev[e] \notin Owned(h, S[h])
    BY <1>1, <2>1, <2>2, Outside
  <2>4. Owned(h, S[h]) \subseteq Nodes
    BY <1>1, <2>1, OwnedNodes
  <2>5. \A x \in Owned(h, S[h]) : m2.next[x] = m.next[x]
    BY <1>2, <2>2, <2>3, <2>4
  <2> QED BY <2>1, <2>5, Untouched
<1>4. ASSUME NEW h \in Heads \cap l, Has(S[h], e)
      PROVE  Chained(m2, h, RemoveAt(S[h], PlaceOf(e, S[h])))
  <2> DEFINE s == S[h]
  <2>1. /\ Chained(m, h, s) /\ s \in Seq(Entries) /\ Len(s) \in Nat
        /\ \A i, j \in 1 .. Len(s) : s[i] = s[j] => i = j
    BY HoldsTypes DEF Holds
  <2> HIDE DEF s
  <2>2. PICK i \in 1 .. Len(s) : s[i] = e
    BY <1>4, <2>1 DEF Has, s
  <2>3. PlaceOf(e, s) = i /\ RemoveAt(s, i) = Removed(s, i)
    BY <2>1, <2>2, PlaceIs, RemoveAtIs
  <2>4. i \in 0 .. Len(s) /\ i - 1 \in 0 .. Len(s) /\ (i - 1) + 1 = i /\ NodeAt(h, s, i) = s[i]
    BY <2>1 DEF NodeAt
  <2>5. m.prev[e] = NodeAt(h, s, i - 1) /\ m.next[e] = NodeAt(h, s, i + 1)
    BY <1>1, <2>1, <2>2, <2>4, Along
  <2>6. Owned(h, s) \subseteq Nodes
    BY <1>1, <2>1, OwnedNodes
  <2>7. \A x \in Owned(h, s) \ {s[i]} :
          m2.next[x] = IF x = NodeAt(h, s, i - 1) THEN NodeAt(h, s, i + 1) ELSE m.next[x]
    BY <1>2, <2>2, <2>5, <2>6
  <2>8. Chained(m2, h, Removed(s, i))
    BY <1>1, <2>1, <2>7, UnlinkRemoves
  <2> QED BY <2>3, <2>8 DEF s
<1>5. ASSUME NEW h \in Heads \ l PROVE S[h] = <<>> /\ ~ Has(S[h], e)
  BY DEF Holds, Has
<1>6. Heads \ l2 = Heads \ l
  OBVIOUS
<1>7. Gone(S, e) = [h \in Heads |-> Gone(S, e)[h]]
  BY DEF Gone
<1> QED BY <1>3, <1>4, <1>5, <1>6, <1>7 DEF Holds, Gone

(* with the entry poisoned,                                                *)
LEMMA DelHolds ==
  ASSUME NEW m, NEW l, NEW S, Holds(m, l, S), NEW e \in Entries \cap l
  PROVE  /\ Holds(list_del_entry(m, e), l \ {e}, Gone(S, e))
         /\ Holds(list_del(m, e), l \ {e}, Gone(S, e))
         /\ Holds(list_del_init(m, e), l, Gone(S, e))
<1>1. /\ Ring(list_del_entry(m, e), l \ {e}) /\ Ring(list_del(m, e), l \ {e})
      /\ Ring(list_del_init(m, e), l)
  BY UnlinkKeepsRing, DelKeepsRing, DelInitKeepsRing DEF Holds
<1>2. Heads \cap (l \ {e}) = Heads \cap l /\ e \in Nodes
  BY ListsAssumption DEF Nodes
<1>3. list_del_entry(m, e).next \in Links
  BY <1>1 DEF Ring, Memory
<1>4. \A x \in Nodes \ {e} :
        /\ list_del(m, e).next[x] = list_del_entry(m, e).next[x]
        /\ list_del_init(m, e).next[x] = list_del_entry(m, e).next[x]
  BY <1>2, <1>3 DEF list_del, list_del_init, INIT_LIST_HEAD, Links
<1>5. Holds(list_del_entry(m, e), l \ {e}, Gone(S, e))
  BY <1>1, <1>2, UnlinkHolds
<1>6. Holds(list_del(m, e), l \ {e}, Gone(S, e))
  BY <1>1, <1>2, <1>4, UnlinkHolds
<1>7. Holds(list_del_init(m, e), l, Gone(S, e))
  BY <1>1, <1>2, <1>4, UnlinkHolds
<1> QED BY <1>5, <1>6, <1>7

(* list_move, which adds it to a list at once,                             *)
LEMMA MoveHolds ==
  ASSUME NEW m, NEW l, NEW S, Holds(m, l, S), NEW e \in Entries \cap l, NEW h \in Heads \cap l
  PROVE  /\ Holds(list_move(m, e, h), l, [Gone(S, e) EXCEPT ![h] = <<e>> \o @])
         /\ Holds(list_move_tail(m, e, h), l, [Gone(S, e) EXCEPT ![h] = Append(@, e)])
<1> DEFINE d == list_del_entry(m, e)
<1>1. Holds(d, l \ {e}, Gone(S, e))
  BY DelHolds
<1>2. h \in Heads \cap (l \ {e}) /\ e \notin l \ {e} /\ (l \ {e}) \cup {e} = l
  BY ListsAssumption
<1> HIDE DEF d
<1>3. /\ Holds(list_add(d, e, h), (l \ {e}) \cup {e}, [Gone(S, e) EXCEPT ![h] = <<e>> \o @])
      /\ Holds(list_add_tail(d, e, h), (l \ {e}) \cup {e}, [Gone(S, e) EXCEPT ![h] = Append(@, e)])
  BY <1>1, <1>2, AddHolds
<1> QED BY <1>2, <1>3 DEF list_move, list_move_tail, d

(* list_rotate_left, which moves the first entry to the end,               *)
LEMMA RotateHolds ==
  ASSUME NEW m, NEW l, NEW S, Holds(m, l, S), NEW h \in Heads \cap l
  PROVE  /\ list_empty(m, h) <=> S[h] = <<>>
         /\ Holds(list_rotate_left(m, h), l,
              [S EXCEPT ![h] = IF @ = <<>> THEN @ ELSE Append(Tail(@), Head(@))])
<1> DEFINE s == S[h]
           R == [S EXCEPT ![h] = IF @ = <<>> THEN @ ELSE Append(Tail(@), Head(@))]
<1>1. Ring(m, l) /\ Chained(m, h, s) /\ s \in Seq(Entries) /\ Len(s) \in Nat /\ h \notin Entries
  BY HoldsTypes, ListsAssumption DEF Holds
<1> HIDE DEF s
<1>2. m.next[h] = NodeAt(h, s, 1)
  <2>1. 0 \in 0 .. Len(s) /\ 0 + 1 = 1
    BY <1>1
  <2> QED BY <1>1, <2>1, Along
<1>3. CASE s = <<>>
  <2>1. list_empty(m, h)
    BY <1>2, <1>3 DEF list_empty, NodeAt
  <2>2. R = S
    BY <1>3 DEF s, Holds
  <2> QED BY <1>3, <2>1, <2>2 DEF list_rotate_left, s
<1>4. CASE s # <<>>
  <2>1. 1 \in 1 .. Len(s) /\ m.next[h] = s[1] /\ s[1] \in Entries
    BY <1>1, <1>2, <1>4 DEF NodeAt
  <2>2. s[1] \in Entries \cap l /\ s[1] # h
    BY <1>1, <2>1, HoldsTypes DEF s
  <2>3. ~list_empty(m, h)
    BY <2>1, <2>2 DEF list_empty
  <2>4. Holds(list_rotate_left(m, h), l, [Gone(S, s[1]) EXCEPT ![h] = Append(@, s[1])])
    BY <2>1, <2>2, <2>3, MoveHolds DEF list_rotate_left
  <2>5. ASSUME NEW g \in Heads, g # h PROVE Gone(S, s[1])[g] = S[g]
    <3>1. ~ Has(S[g], s[1])
      <4>1. S[g] \in Seq(Entries) /\ \A j \in 1 .. Len(S[g]) : s[1] # S[g][j]
        BY <2>1, <2>5, HoldsTypes DEF s
      <4> QED BY <4>1 DEF Has
    <3> QED BY <3>1 DEF Gone
  <2>6. Gone(S, s[1])[h] = Tail(s) /\ Head(s) = s[1]
    <3>1. \A i, j \in 1 .. Len(s) : s[i] = s[j] => i = j
      BY HoldsTypes DEF s
    <3>2. Has(s, s[1]) /\ PlaceOf(s[1], s) = 1
      BY <1>1, <2>1, <3>1, PlaceIs
    <3>3. RemoveAt(s, 1) = Removed(s, 1)
      BY <1>1, <2>1, RemoveAtIs
    <3>4. Removed(s, 1) = Tail(s)
      <4>1. /\ Tail(s) \in Seq(Entries) /\ Len(Tail(s)) = Len(s) - 1
            /\ \A i \in 1 .. Len(Tail(s)) : Tail(s)[i] = s[i + 1]
        BY <1>1, <1>4, HeadTailProperties
      <4>2. Tail(s) = [i \in 1 .. Len(s) - 1 |-> Tail(s)[i]]
        BY <4>1, LenProperties
      <4>3. \A i \in 1 .. Len(s) - 1 : ~ (i < 1)
        BY <1>1
      <4> QED BY <4>1, <4>2, <4>3 DEF Removed
    <3> QED BY <1>1, <1>4, <3>2, <3>3, <3>4 DEF Gone, s
  <2>7. [Gone(S, s[1]) EXCEPT ![h] = Append(@, s[1])] = R
    <3>1. DOMAIN S = Heads /\ DOMAIN Gone(S, s[1]) = Heads
      BY DEF Holds, Gone
    <3> QED BY <1>4, <2>5, <2>6, <3>1 DEF s
  <2> QED BY <1>4, <2>3, <2>4, <2>7 DEF s
<1> QED BY <1>3, <1>4

(* and INIT_LIST_HEAD, which makes an empty list.                          *)
LEMMA InitHolds ==
  ASSUME NEW m, NEW l, NEW S, Holds(m, l, S), NEW h \in Heads, h \notin l
  PROVE  Holds(INIT_LIST_HEAD(m, h), l \cup {h}, S)
<1> DEFINE a == INIT_LIST_HEAD(m, h)
<1>1. Ring(m, l) /\ h \in Nodes /\ m.next \in Links /\ S[h] = <<>>
  BY DEF Holds, Ring, Memory, Nodes
<1>2. Ring(a, l \cup {h})
  BY <1>1, InitAddsRing
<1>3. a.next = [m.next EXCEPT ![h] = h]
  BY DEF INIT_LIST_HEAD
<1>4. Chained(a, h, S[h])
  BY <1>1, <1>3 DEF Chained, NodeAt, Links
<1>5. ASSUME NEW g \in Heads \cap l PROVE Chained(a, g, S[g])
  <2>1. Chained(m, g, S[g])
    BY DEF Holds
  <2>2. Owned(g, S[g]) \subseteq l /\ Owned(g, S[g]) \subseteq Nodes
    BY <1>1, <2>1, OwnedNodes
  <2>3. \A x \in Owned(g, S[g]) : a.next[x] = m.next[x]
    BY <1>1, <1>3, <2>2 DEF Links
  <2> HIDE DEF a
  <2> QED BY <2>1, <2>3, Untouched
<1> HIDE DEF a
<1>6. Holds(a, l \cup {h}, S)
  BY <1>2, <1>4, <1>5 DEF Holds
<1> QED BY <1>6 DEF a

(* A head that owns nothing may be left out, or initialised again.         *)
LEMMA EmptyHead ==
  ASSUME NEW m, NEW l, NEW S, Holds(m, l, S), NEW h \in Heads,
         h \notin l \/ m.next[h] = h
  PROVE  S[h] = <<>> /\ Holds(m, l \ {h}, S)
<1>1. S[h] = <<>>
  <2>1. CASE h \notin l
    BY <2>1 DEF Holds
  <2>2. CASE h \in l
    <3>1. Ring(m, l) /\ Chained(m, h, S[h]) /\ Len(S[h]) \in Nat
      BY <2>2, HoldsTypes DEF Holds
    <3>2. 0 \in 0 .. Len(S[h]) /\ 0 + 1 = 1
      BY <3>1
    <3>3. m.next[h] = NodeAt(h, S[h], 1)
      BY <2>2, <3>1, <3>2, Along
    <3>4. CASE 1 \in 1 .. Len(S[h])
      <4>1. NodeAt(h, S[h], 1) \in Entries
        BY <3>1, <3>4, HoldsTypes DEF NodeAt
      <4> QED BY <2>2, <3>3, <4>1, ListsAssumption
    <3>5. CASE 1 \notin 1 .. Len(S[h])
      BY <3>1, <3>5, HoldsTypes
    <3> QED BY <3>4, <3>5
  <2> QED BY <2>1, <2>2
<1>2. Ring(m, l \ {h})
  BY LooseIsOutside DEF Holds
<1> QED BY <1>1, <1>2 DEF Holds

(* Replacing an entry, and replacing a head.                               *)
Renamed(S, old, new) ==
  [h \in Heads |-> [i \in 1 .. Len(S[h]) |-> IF S[h][i] = old THEN new ELSE S[h][i]]]
HandedOver(S, old, new) == [S EXCEPT ![new] = S[old], ![old] = <<>>]

(* list_replace on an entry, and on the head of a list.                    *)
LEMMA ReplaceEntryHolds ==
  ASSUME NEW m, NEW l, NEW S, Holds(m, l, S), NEW o \in Entries \cap l,
         NEW n \in Entries \ l, NEW m2, NEW l2, Ring(m2, l2), Heads \cap l2 = Heads \cap l,
         \A x \in Nodes \ {o} : m2.next[x] = list_replace(m, o, n).next[x]
  PROVE  Holds(m2, l2, Renamed(S, o, n))
<1>1. Ring(m, l) /\ m.next \in Links /\ m.prev \in Links /\ o \in Nodes /\ n \in Nodes /\ o \notin Heads
      /\ n \notin Heads /\ o # n
  BY ListsAssumption DEF Holds, Ring, Memory, Nodes
<1> DEFINE p == IF m.next[o] = o THEN n ELSE m.prev[o]
<1>2. \A x \in Nodes \ {o} : m2.next[x] = IF x = p THEN n ELSE IF x = n THEN m.next[o] ELSE m.next[x]
  <2>1. list_replace(m, o, n).next = [m.next EXCEPT ![n] = m.next[o], ![p] = n]
    <3>1. m.next[o] \in Nodes
      BY <1>1 DEF Ring
    <3> QED BY <1>1, <3>1 DEF list_replace, Links
  <2>2. p \in Nodes
    BY <1>1 DEF Ring
  <2> HIDE DEF p
  <2> QED BY <1>1, <2>1, <2>2 DEF Links
<1>3. ASSUME NEW h \in Heads \cap l, ~ Has(S[h], o)
      PROVE  Chained(m2, h, S[h]) /\ Renamed(S, o, n)[h] = S[h]
  <2>1. Chained(m, h, S[h]) /\ S[h] \in Seq(Entries) /\ \A i \in 1 .. Len(S[h]) : S[h][i] # n
    BY HoldsTypes DEF Holds
  <2>2. \A i \in 1 .. Len(S[h]) : S[h][i] # o
    BY <1>3, <2>1 DEF Has
  <2>3. o \notin Owned(h, S[h]) /\ n \notin Owned(h, S[h])
    BY <1>1, <2>1, <2>2, NotOwned
  <2>4. p \notin Owned(h, S[h])
    BY <1>1, <2>1, <2>3, Outside
  <2>5. Owned(h, S[h]) \subseteq Nodes
    BY <1>1, <2>1, OwnedNodes
  <2> HIDE DEF p
  <2>6. \A x \in Owned(h, S[h]) : m2.next[x] = m.next[x]
    BY <1>2, <2>3, <2>4, <2>5
  <2>7. Renamed(S, o, n)[h] = [i \in 1 .. Len(S[h]) |-> S[h][i]]
    BY <2>2 DEF Renamed
  <2> QED BY <2>1, <2>6, <2>7, Untouched, LenProperties
<1>4. ASSUME NEW h \in Heads \cap l, Has(S[h], o)
      PROVE  Chained(m2, h, Renamed(S, o, n)[h])
  <2> DEFINE s == S[h]
  <2>1. /\ Chained(m, h, s) /\ s \in Seq(Entries) /\ Len(s) \in Nat
        /\ \A i, j \in 1 .. Len(s) : s[i] = s[j] => i = j
        /\ \A i \in 1 .. Len(s) : s[i] # n /\ m.next[s[i]] # s[i]
    BY HoldsTypes DEF Holds
  <2> HIDE DEF s
  <2>2. PICK i \in 1 .. Len(s) : s[i] = o
    BY <1>4, <2>1 DEF Has, s
  <2>3. Renamed(S, o, n)[h] = Replaced(s, i, n)
    <3>1. \A k \in 1 .. Len(s) : s[k] = o <=> k = i
      BY <2>1, <2>2
    <3> QED BY <3>1 DEF Renamed, Replaced, s
  <2>4. i \in 0 .. Len(s) /\ i - 1 \in 0 .. Len(s) /\ (i - 1) + 1 = i /\ NodeAt(h, s, i) = s[i]
    BY <2>1 DEF NodeAt
  <2>5. m.prev[o] = NodeAt(h, s, i - 1) /\ m.next[o] = NodeAt(h, s, i + 1)
    BY <1>1, <2>1, <2>2, <2>4, Along
  <2>6. p = NodeAt(h, s, i - 1)
    BY <2>1, <2>2, <2>5
  <2>7. n \notin Owned(h, s)
    BY <1>1, <2>1, NotOwned
  <2> DEFINE t == [m.next EXCEPT ![n] = NodeAt(h, s, i + 1), ![NodeAt(h, s, i - 1)] = n]
             q == [next |-> t, prev |-> m.prev]
  <2>8. Chained(q, h, Replaced(s, i, n))
    <3>1. q.next = t
      OBVIOUS
    <3> HIDE DEF q
    <3> QED BY <1>1, <2>1, <2>7, <3>1, ReplaceSwaps
  <2>9. NodeAt(h, s, i - 1) \in Nodes /\ NodeAt(h, s, i - 1) # n
    <3>1. NodeAt(h, s, i - 1) \in Owned(h, s)
      BY <2>4 DEF Owned
    <3> QED BY <1>1, <2>1, <2>7, <3>1, OwnedNodes
  <2>10. \A x \in Nodes \ {o} : m2.next[x] = q.next[x]
    <3> HIDE DEF p
    <3> QED BY <1>1, <1>2, <2>5, <2>6, <2>9 DEF Links
  <2>11. Owned(h, Replaced(s, i, n)) \subseteq Nodes \ {o}
    <3> SUFFICES ASSUME NEW k \in 0 .. Len(Replaced(s, i, n))
                 PROVE  NodeAt(h, Replaced(s, i, n), k) \in Nodes \ {o}
      BY DEF Owned
    <3>1. Len(Replaced(s, i, n)) = Len(s)
      BY <2>1 DEF Replaced
    <3>2. CASE k \in 1 .. Len(s)
      <4>1. NodeAt(h, Replaced(s, i, n), k) = IF k = i THEN n ELSE s[k]
        BY <3>1, <3>2 DEF NodeAt, Replaced
      <4>2. s[k] \in Nodes /\ (s[k] = o => k = i)
        BY <2>1, <2>2, <3>2, HoldsTypes DEF Nodes
      <4> QED BY <1>1, <4>1, <4>2
    <3>3. CASE k \notin 1 .. Len(s)
      BY <1>1, <3>1, <3>3 DEF NodeAt, Nodes
    <3> QED BY <3>2, <3>3
  <2> HIDE DEF q
  <2>12. Chained(m2, h, Replaced(s, i, n))
    BY <2>8, <2>10, <2>11, Untouched
  <2> QED BY <2>3, <2>12
<1>5. ASSUME NEW h \in Heads \ l PROVE Renamed(S, o, n)[h] = <<>>
  BY DEF Holds, Renamed
<1>6. Heads \ l2 = Heads \ l
  OBVIOUS
<1>7. Renamed(S, o, n) = [h \in Heads |-> Renamed(S, o, n)[h]]
  BY DEF Renamed
<1> QED BY <1>3, <1>4, <1>5, <1>6, <1>7 DEF Holds

LEMMA ReplaceHeadHolds ==
  ASSUME NEW m, NEW l, NEW S, Holds(m, l, S), NEW o \in Heads \cap l, NEW n \in Heads \ l
  PROVE  Holds(list_replace(m, o, n), (l \ {o}) \cup {n}, HandedOver(S, o, n))
<1> DEFINE a == list_replace(m, o, n)
           L == (l \ {o}) \cup {n}
           s == S[o]
           p == IF m.next[o] = o THEN n ELSE m.prev[o]
<1>1. Ring(m, l) /\ m.next \in Links /\ m.prev \in Links /\ o \in Nodes /\ n \in Nodes /\ o # n
      /\ n \notin Entries /\ o \notin Entries
  BY ListsAssumption DEF Holds, Ring, Memory, Nodes
<1>2. Ring(a, L)
  BY <1>1, ReplaceKeepsRing
<1>3. Chained(m, o, s) /\ s \in Seq(Entries) /\ Len(s) \in Nat
  BY HoldsTypes DEF Holds
<1>4. a.next = [m.next EXCEPT ![n] = m.next[o], ![p] = n]
  <2>1. m.next[o] \in Nodes
    BY <1>1 DEF Ring
  <2> QED BY <1>1, <2>1 DEF list_replace, Links
<1>5. p = NodeAt(n, s, Len(s)) /\ (s # <<>> => p = m.prev[o] /\ m.next[o] = NodeAt(n, s, 1))
      /\ (s = <<>> => p = n)
  <2> HIDE DEF s
  <2>0. 0 \in 0 .. Len(s) /\ 0 + 1 = 1 /\ Len(s) \in 0 .. Len(s)
    BY <1>3
  <2>1. /\ m.next[o] = NodeAt(o, s, 1) /\ NodeAt(o, s, 0) = o /\ NodeAt(o, s, Len(s) + 1) = o
        /\ m.prev[o] = NodeAt(o, s, Len(s))
    BY <1>1, <1>3, <2>0, Along
  <2>2. CASE s = <<>>
    BY <2>1, <2>2 DEF NodeAt
  <2>3. CASE s # <<>>
    <3>1. 1 \in 1 .. Len(s) /\ Len(s) \in 1 .. Len(s) /\ s[1] \in Entries
      BY <1>3, <2>3
    <3> QED BY <1>1, <2>1, <2>3, <3>1 DEF NodeAt
  <2> QED BY <2>2, <2>3
<1>6. a.next = [m.next EXCEPT ![n] = NodeAt(n, s, 1), ![NodeAt(n, s, Len(s))] = n]
  <2> HIDE DEF p, a, s
  <2>1. CASE s = <<>>
    <3>1. NodeAt(n, s, 1) = n /\ NodeAt(n, s, Len(s)) = n
      BY <2>1 DEF NodeAt
    <3> QED BY <1>1, <1>4, <1>5, <2>1, <3>1 DEF Links
  <2>2. CASE s # <<>>
    BY <1>4, <1>5, <2>2
  <2> QED BY <2>1, <2>2
<1>7. a.next \in Links
  BY <1>2 DEF Ring, Memory
<1>8. Chained(a, n, s)
  <2> HIDE DEF a, s
  <2> QED BY <1>1, <1>3, <1>6, <1>7, HeadSwaps
<1>9. ASSUME NEW g \in Heads \cap l, g # o
      PROVE  Chained(a, g, S[g])
  <2>1. Chained(m, g, S[g])
    BY DEF Holds
  <2>2. Owned(g, S[g]) \subseteq l /\ Owned(g, S[g]) \subseteq Nodes
    BY <1>1, <2>1, OwnedNodes
  <2>3. o \in Owned(o, s) /\ Owned(g, S[g]) \cap Owned(o, s) = {}
    <3>1. o = NodeAt(o, s, 0) /\ 0 \in 0 .. Len(s)
      BY <1>3 DEF NodeAt
    <3>2. o \in Owned(o, s)
      BY <3>1 DEF Owned
    <3> QED BY <1>1, <1>3, <1>9, <2>1, <3>2, OwnedApart
  <2>4. p \notin Owned(g, S[g])
    BY <1>1, <2>1, <2>2, <2>3, Outside
  <2> HIDE DEF p, a
  <2>5. \A x \in Owned(g, S[g]) : a.next[x] = m.next[x]
    BY <1>1, <1>4, <2>2, <2>4 DEF Links
  <2> QED BY <2>1, <2>5, Untouched
<1> HIDE DEF a, p, s
<1>10. HandedOver(S, o, n) = [h \in Heads |-> IF h = n THEN s ELSE IF h = o THEN <<>> ELSE S[h]]
  BY <1>1 DEF HandedOver, Holds, s
<1>11. \A h \in Heads \cap L : h = n \/ (h # o /\ h \in Heads \cap l)
  BY <1>1
<1>12. \A h \in Heads \ L : h # n /\ (h = o \/ S[h] = <<>>)
  BY DEF Holds
<1>13. Holds(a, L, HandedOver(S, o, n))
  <2> HIDE DEF L
  <2> QED BY <1>1, <1>2, <1>8, <1>9, <1>10, <1>11, <1>12 DEF Holds
<1> QED BY <1>13 DEF a

-----------------------------------------------------------------------------
(* A list is empty when its head points at itself.                         *)
LEMMA EmptyIs ==
  ASSUME NEW m, NEW l, NEW S, Holds(m, l, S), NEW h \in Heads \cap l
  PROVE  list_empty(m, h) <=> S[h] = <<>>
<1>1. ASSUME list_empty(m, h) PROVE S[h] = <<>>
  BY <1>1, EmptyHead DEF list_empty
<1>2. ASSUME S[h] = <<>> PROVE list_empty(m, h)
  <2>1. Chained(m, h, <<>>) /\ Len(<<>>) = 0
    BY <1>2 DEF Holds
  <2> QED BY <2>1 DEF Chained, NodeAt, list_empty
<1> QED BY <1>1, <1>2

(* The first entries of a list, up to e, and the others.                   *)
CutAt(s, e, h) == IF e = h THEN 0 ELSE PlaceOf(e, s)
(* The lists after list_cut_position: the entries of h up to the cut go to *)
(* g.                                                                      *)
CutLists(S, g, h, n) ==
  [S EXCEPT ![g] = SubSeq(S[h], 1, n), ![h] = SubSeq(@, n + 1, Len(@))]

(* Parts of a sequence: all of it, and its first entries.                  *)
LEMMA WholeSubSeq ==
  ASSUME NEW s \in Seq(Entries)
  PROVE  SubSeq(s, 1, 0) = <<>> /\ SubSeq(s, 1, Len(s)) = s /\ SubSeq(s, 0 + 1, Len(s)) = s
         /\ SubSeq(s, Len(s) + 1, Len(s)) = <<>>
<1>1. Len(s) \in Nat /\ s = [k \in 1 .. Len(s) |-> s[k]]
  BY LenProperties
<1>2. SubSeq(s, 1, Len(s)) = [k \in 1 .. Len(s) |-> s[k]]
  BY <1>1
<1>3. SubSeq(s, Len(s) + 1, Len(s)) = <<>> /\ SubSeq(s, 1, 0) = <<>>
  BY <1>1
<1> QED BY <1>1, <1>2, <1>3

(* Nothing is cut of the list itself: from its head, or by the early       *)
(* returns, which an entry of the list never takes.                        *)
LEMMA NothingCut ==
  ASSUME NEW m, NEW l, NEW S, Holds(m, l, S), NEW g \in Heads, NEW h \in Heads \cap l,
         g # h, S[g] = <<>>
  PROVE  CutLists(S, g, h, 0) = S
<1>1. S[h] \in Seq(Entries) /\ S = [f \in Heads |-> S[f]]
  BY HoldsTypes DEF Holds
<1>2. SubSeq(S[h], 1, 0) = S[g] /\ SubSeq(S[h], 0 + 1, Len(S[h])) = S[h]
  BY <1>1, WholeSubSeq
<1> QED BY <1>1, <1>2 DEF CutLists

(* list_cut_position cuts at an entry of the list, or at its head.         *)
LEMMA MemberIsCut ==
  ASSUME NEW m, NEW l, NEW S, Holds(m, l, S), NEW h \in Heads \cap l,
         NEW e, Has(S[h], e)
  PROVE  ~ CutsNothing(m, h, e) /\ e # h /\ e \in Entries \cap l /\ S[h] # <<>>
<1> DEFINE s == S[h]
<1>1. /\ Ring(m, l) /\ Chained(m, h, s) /\ s \in Seq(Entries) /\ Len(s) \in Nat
      /\ \A i \in 1 .. Len(s) : s[i] \in Entries /\ s[i] \in l
      /\ \A i, j \in 1 .. Len(s) : s[i] = s[j] => i = j
  BY HoldsTypes DEF Holds
<1>2. list_empty(m, h) <=> S[h] = <<>>
  BY EmptyIs
<1> HIDE DEF s
<1>3. PICK i \in 1 .. Len(s) : s[i] = e
  BY <1>1 DEF Has, s
<1>4. e # h /\ s # <<>> /\ e \in Entries \cap l
  BY <1>1, <1>3, ListsAssumption
<1>5. ~ (list_is_singular(m, h) /\ m.next[h] # e)
  <2> SUFFICES ASSUME m.next[h] = m.prev[h] PROVE m.next[h] = e
    BY DEF list_is_singular
  <2>1. 0 \in 0 .. Len(s) /\ Len(s) \in 0 .. Len(s) /\ 0 + 1 = 1
    BY <1>1
  <2>2. /\ m.next[h] = NodeAt(h, s, 1) /\ m.prev[h] = NodeAt(h, s, Len(s))
    BY <1>1, <2>1, Along
  <2>3. 1 \in 1 .. Len(s) /\ Len(s) \in 1 .. Len(s)
    BY <1>1, <1>3
  <2>4. s[1] = s[Len(s)] /\ m.next[h] = s[1]
    BY <2>2, <2>3 DEF NodeAt
  <2>5. Len(s) = 1
    BY <1>1, <2>3, <2>4
  <2> QED BY <1>3, <2>4, <2>5
<1> QED BY <1>2, <1>4, <1>5 DEF CutsNothing, s

(* The cut between two neighbours, and the call that makes it.             *)
LEMMA CutBetweenHolds ==
  ASSUME NEW m, NEW l, NEW S, Holds(m, l, S), NEW g \in Heads \ l, NEW h \in Heads \cap l,
         NEW e, Has(S[h], e)
  PROVE  Holds(list_cut_between(m, g, h, e), l \cup {g}, CutLists(S, g, h, PlaceOf(e, S[h])))
<1> DEFINE s == S[h]
           a == list_cut_between(m, g, h, e)
<1>1. /\ Ring(m, l) /\ Chained(m, h, s) /\ s \in Seq(Entries) /\ Len(s) \in Nat
      /\ \A i \in 1 .. Len(s) : s[i] \in Entries /\ s[i] \in l
      /\ \A i, j \in 1 .. Len(s) : s[i] = s[j] => i = j
  BY HoldsTypes DEF Holds
<1>0. g # h /\ g \in Nodes /\ h \in Nodes /\ m.next \in Links
  BY <1>1 DEF Nodes, Ring, Memory
<1>2. e # h /\ e \in Entries \cap l /\ e \in Nodes
  BY MemberIsCut DEF Nodes
<1> HIDE DEF s
<1>3. PICK i \in 1 .. Len(s) : s[i] = e
  BY <1>1 DEF Has, s
<1>4. PlaceOf(e, s) = i
  BY <1>1, <1>3, PlaceIs
<1>5. Ring(a, l \cup {g})
  BY <1>0, <1>1, <1>2, CutKeepsRing
<1>6. m.next[h] = s[1] /\ m.next[e] = NodeAt(h, s, i + 1)
  <2>1. 0 \in 0 .. Len(s) /\ i \in 0 .. Len(s) /\ 0 + 1 = 1 /\ 1 \in 1 .. Len(s)
    BY <1>1
  <2>2. m.next[h] = NodeAt(h, s, 1) /\ m.next[NodeAt(h, s, i)] = NodeAt(h, s, i + 1)
    BY <1>1, <2>1, Along
  <2> QED BY <1>3, <2>1, <2>2 DEF NodeAt
<1>7. a.next = [m.next EXCEPT ![g] = s[1], ![s[i]] = g, ![h] = NodeAt(h, s, i + 1)]
  BY <1>3, <1>6 DEF list_cut_between
<1>8. Chained(a, g, SubSeq(s, 1, i)) /\ Chained(a, h, SubSeq(s, i + 1, Len(s)))
  <2> HIDE DEF a
  <2> QED BY <1>0, <1>1, <1>7, CutParts
<1>9. ASSUME NEW f \in Heads \cap l, f # h
      PROVE  Chained(a, f, S[f])
  <2>1. Chained(m, f, S[f])
    BY DEF Holds
  <2>2. Owned(f, S[f]) \subseteq l /\ Owned(f, S[f]) \subseteq Nodes
    BY <1>1, <2>1, OwnedNodes
  <2>3. Owned(f, S[f]) \cap Owned(h, s) = {}
    BY <1>1, <1>9, <2>1, OwnedApart
  <2>4. h \in Owned(h, s) /\ e \in Owned(h, s)
    <3>1. 0 \in 0 .. Len(s) /\ i \in 0 .. Len(s) /\ NodeAt(h, s, 0) = h /\ NodeAt(h, s, i) = e
      BY <1>1, <1>3 DEF NodeAt
    <3> QED BY <3>1 DEF Owned
  <2>5. \A x \in Owned(f, S[f]) : a.next[x] = m.next[x]
    <3> HIDE DEF a
    <3> QED BY <1>0, <1>1, <1>3, <1>7, <2>2, <2>3, <2>4 DEF Links
  <2> HIDE DEF a
  <2> QED BY <2>1, <2>5, Untouched
<1>10. CutLists(S, g, h, i)
         = [f \in Heads |-> IF f = h THEN SubSeq(s, i + 1, Len(s))
                            ELSE IF f = g THEN SubSeq(s, 1, i) ELSE S[f]]
  BY <1>0 DEF CutLists, Holds, s
<1>11. /\ Heads \cap (l \cup {g}) = (Heads \cap l) \cup {g}
       /\ \A f \in Heads \ (l \cup {g}) : S[f] = <<>> /\ f # g /\ f # h
  BY DEF Holds
<1> HIDE DEF a
<1>12. Holds(a, l \cup {g}, CutLists(S, g, h, i))
  BY <1>1, <1>5, <1>8, <1>9, <1>10, <1>11 DEF Holds
<1> QED BY <1>4, <1>12 DEF a, s

LEMMA CutHolds ==
  ASSUME NEW m, NEW l, NEW S, Holds(m, l, S), NEW h \in Heads \cap l,
         NEW g \in Heads, g # h, g \notin l \/ m.next[g] = g,
         NEW e, e = h \/ Has(S[h], e)
  PROVE  /\ S[g] = <<>>
         /\ Holds(list_cut_position(m, g, h, e),
                  IF CutsNothing(m, h, e) THEN l ELSE l \cup {g},
                  CutLists(S, g, h, CutAt(S[h], e, h)))
<1>1. S[g] = <<>> /\ Holds(m, l \ {g}, S) /\ g \in Heads \ (l \ {g}) /\ h \in Heads \cap (l \ {g})
      /\ (l \ {g}) \cup {g} = l \cup {g}
  BY EmptyHead
<1>2. CASE e = h
  <2>1. CutLists(S, g, h, CutAt(S[h], e, h)) = S
    BY <1>1, <1>2, NothingCut DEF CutAt
  <2>2. Holds(INIT_LIST_HEAD(m, g), l \cup {g}, S)
    BY <1>1, InitHolds
  <2> QED BY <1>1, <1>2, <2>1, <2>2 DEF list_cut_position
<1>3. CASE e # h
  <2>1. Has(S[h], e) /\ ~ CutsNothing(m, h, e)
    BY <1>3, MemberIsCut
  <2>2. Holds(list_cut_between(m, g, h, e), (l \ {g}) \cup {g},
              CutLists(S, g, h, PlaceOf(e, S[h])))
    BY <1>1, <2>1, CutBetweenHolds
  <2> QED BY <1>1, <1>3, <2>1, <2>2 DEF list_cut_position, CutAt
<1> QED BY <1>2, <1>3

-----------------------------------------------------------------------------
(* All entries of g go behind place i of the list of h.                    *)
SplicedLists(S, g, h, i) == [S EXCEPT ![h] = Spliced(@, i, S[g]), ![g] = <<>>]

(* The splice between two neighbours, at the front or at the back.         *)
LEMMA SpliceBetweenHolds ==
  ASSUME NEW m, NEW l, NEW S, Holds(m, l, S), NEW g \in Heads \cap l,
         NEW h \in Heads \cap l, g # h, S[g] # <<>>, NEW i \in 0 .. Len(S[h])
  PROVE  Holds(list_splice_between(m, g, NodeAt(h, S[h], i), NodeAt(h, S[h], i + 1)),
               l \ {g}, SplicedLists(S, g, h, i))
<1> DEFINE s == S[h]
           t == S[g]
           p == NodeAt(h, s, i)
           a == list_splice_between(m, g, p, NodeAt(h, s, i + 1))
<1>1. /\ Ring(m, l) /\ Chained(m, h, s) /\ s \in Seq(Entries) /\ Len(s) \in Nat
      /\ Chained(m, g, t) /\ t \in Seq(Entries) /\ Len(t) \in Nat
  BY HoldsTypes DEF Holds
<1>2. g \in Nodes /\ h \in Nodes /\ m.next \in Links
  BY <1>1 DEF Nodes, Ring, Memory
<1>3. t # <<>> /\ i \in 0 .. Len(s)
  OBVIOUS
<1> HIDE DEF s, t
<1>4. /\ 0 \in 0 .. Len(t) /\ Len(t) \in 0 .. Len(t) /\ 0 + 1 = 1
      /\ 1 \in 1 .. Len(t) /\ Len(t) \in 1 .. Len(t)
  BY <1>1, <1>3
<1>5. m.next[g] = t[1] /\ m.prev[g] = t[Len(t)]
  <2>1. m.next[g] = NodeAt(g, t, 1) /\ m.prev[g] = NodeAt(g, t, Len(t))
    BY <1>1, <1>4, Along
  <2> QED BY <1>4, <2>1 DEF NodeAt
<1>6. p \in Owned(h, s) /\ m.next[p] = NodeAt(h, s, i + 1) /\ p \in l
  <2>1. i \in 0 .. Len(s) + 1
    BY <1>1, <1>3
  <2> QED BY <1>1, <1>3, <2>1, Along DEF Owned
<1>7. g \in Owned(g, t) /\ t[Len(t)] \in Owned(g, t) /\ Owned(g, t) \cap Owned(h, s) = {}
      /\ Owned(g, t) \subseteq Nodes /\ Owned(h, s) \subseteq Nodes /\ g \notin Entries
  <2>1. NodeAt(g, t, 0) = g /\ NodeAt(g, t, Len(t)) = t[Len(t)]
    BY <1>1, <1>4 DEF NodeAt
  <2>2. g \in Owned(g, t) /\ t[Len(t)] \in Owned(g, t)
    BY <1>4, <2>1 DEF Owned
  <2> QED BY <1>1, <2>2, OwnedApart, OwnedNodes, ListsAssumption
<1>8. m.next[p] # g /\ p # g /\ m.next[g] # g
  <2>1. p # g
    BY <1>6, <1>7
  <2>2. m.next[g] \in Entries
    BY <1>1, <1>4, <1>5
  <2>3. g \notin Owned(h, s)
    BY <1>7
  <2>4. m.prev[g] \notin Owned(h, s)
    BY <1>1, <2>3, Outside
  <2>5. m.prev[m.next[p]] = p
    BY <1>1, <1>6 DEF Ring
  <2> QED BY <1>6, <1>7, <2>1, <2>2, <2>4, <2>5
<1>9. Ring(list_splice_between(m, g, p, m.next[p]), l \ {g})
  <2> HIDE DEF p
  <2> QED BY <1>1, <1>6, <1>8, SpliceKeepsRing
<1>10. Ring(a, l \ {g})
  BY <1>6, <1>9
<1>11. a.next = [m.next EXCEPT ![p] = t[1], ![t[Len(t)]] = NodeAt(h, s, i + 1)]
  BY <1>5 DEF list_splice_between
<1> HIDE DEF a, p
<1>12. \A x \in Nodes : a.next[x] = IF x = t[Len(t)] THEN NodeAt(h, s, i + 1)
                                    ELSE IF x = p THEN t[1] ELSE m.next[x]
  BY <1>2, <1>6, <1>7, <1>11 DEF Links
<1>13. Chained(a, h, Spliced(s, i, t))
  <2>1. \A x \in Owned(h, s) \cup Owned(g, t) : x # g =>
          a.next[x] = IF x = t[Len(t)] THEN NodeAt(h, s, i + 1)
                      ELSE IF x = NodeAt(h, s, i) THEN t[1] ELSE m.next[x]
    BY <1>7, <1>12 DEF p
  <2> QED BY <1>1, <1>3, <2>1, SpliceInserts
<1>14. ASSUME NEW f \in Heads \cap l, f # h, f # g
       PROVE  Chained(a, f, S[f])
  <2>1. Chained(m, f, S[f])
    BY DEF Holds
  <2>2. /\ Owned(f, S[f]) \subseteq Nodes /\ Owned(f, S[f]) \cap Owned(h, s) = {}
        /\ Owned(f, S[f]) \cap Owned(g, t) = {}
    BY <1>1, <1>14, <2>1, OwnedApart, OwnedNodes
  <2>3. \A x \in Owned(f, S[f]) : a.next[x] = m.next[x]
    BY <1>6, <1>7, <1>12, <2>2
  <2> QED BY <2>1, <2>3, Untouched
<1>15. SplicedLists(S, g, h, i)
         = [f \in Heads |-> IF f = g THEN <<>> ELSE IF f = h THEN Spliced(s, i, t) ELSE S[f]]
  BY DEF SplicedLists, Holds, s, t
<1>16. \A f \in Heads \ (l \ {g}) : f # h /\ (f = g \/ S[f] = <<>>)
  BY DEF Holds
<1>17. Holds(a, l \ {g}, SplicedLists(S, g, h, i))
  BY <1>10, <1>13, <1>14, <1>15, <1>16 DEF Holds
<1> QED BY <1>17 DEF a, p, s

LEMMA SplicedEnds ==
  ASSUME NEW s \in Seq(Entries), NEW t \in Seq(Entries)
  PROVE  Spliced(s, 0, t) = t \o s /\ Spliced(s, Len(s), t) = s \o t
<1>1. Len(s) \in Nat /\ Len(t) \in Nat
  OBVIOUS
<1>2. /\ t \o s \in Seq(Entries) /\ Len(t \o s) = Len(s) + Len(t)
      /\ \A k \in 1 .. Len(s) + Len(t) : (t \o s)[k] = IF k <= Len(t) THEN t[k] ELSE s[k - Len(t)]
  <2>1. Len(t) + Len(s) = Len(s) + Len(t)
    BY <1>1
  <2>2. /\ t \o s \in Seq(Entries) /\ Len(t \o s) = Len(t) + Len(s)
        /\ \A k \in 1 .. Len(t) + Len(s) :
             (t \o s)[k] = IF k <= Len(t) THEN t[k] ELSE s[k - Len(t)]
    BY ConcatProperties
  <2> QED BY <2>1, <2>2
<1>3. /\ s \o t \in Seq(Entries) /\ Len(s \o t) = Len(s) + Len(t)
      /\ \A k \in 1 .. Len(s) + Len(t) : (s \o t)[k] = IF k <= Len(s) THEN s[k] ELSE t[k - Len(s)]
  BY ConcatProperties
<1>4. t \o s = [k \in 1 .. Len(s) + Len(t) |-> (t \o s)[k]]
  BY <1>2, LenProperties
<1>5. s \o t = [k \in 1 .. Len(s) + Len(t) |-> (s \o t)[k]]
  BY <1>3, LenProperties
<1>6. \A k \in 1 .. Len(s) + Len(t) :
        (t \o s)[k] = IF k <= 0 THEN s[k] ELSE IF k <= 0 + Len(t) THEN t[k - 0] ELSE s[k - Len(t)]
  <2> TAKE k \in 1 .. Len(s) + Len(t)
  <2>1. ~ (k <= 0) /\ 0 + Len(t) = Len(t) /\ k - 0 = k
    BY <1>1
  <2> QED BY <1>2, <2>1
<1>7. \A k \in 1 .. Len(s) + Len(t) :
        (s \o t)[k] = IF k <= Len(s) THEN s[k]
                      ELSE IF k <= Len(s) + Len(t) THEN t[k - Len(s)] ELSE s[k - Len(t)]
  <2> TAKE k \in 1 .. Len(s) + Len(t)
  <2>1. k <= Len(s) + Len(t)
    BY <1>1
  <2> QED BY <1>3, <2>1
<1>8. Spliced(s, 0, t) = [k \in 1 .. Len(s) + Len(t) |-> (t \o s)[k]]
  BY <1>6 DEF Spliced
<1>9. Spliced(s, Len(s), t) = [k \in 1 .. Len(s) + Len(t) |-> (s \o t)[k]]
  BY <1>7 DEF Spliced
<1> QED BY <1>4, <1>5, <1>8, <1>9

(* The lists after list_splice and list_splice_tail, emptied heads         *)
(* included.                                                               *)
JoinedFront(S, g, h) == [S EXCEPT ![h] = S[g] \o @, ![g] = <<>>]
JoinedBack(S, g, h) == [S EXCEPT ![h] = @ \o S[g], ![g] = <<>>]

(* The four splicing calls join the lists and empty the first.             *)
LEMMA SpliceHolds ==
  ASSUME NEW m, NEW l, NEW S, Holds(m, l, S), NEW g \in Heads \cap l,
         NEW h \in Heads \cap l, g # h
  PROVE  LET rest == IF list_empty(m, g) THEN l ELSE l \ {g}
         IN /\ Holds(list_splice(m, g, h), rest, JoinedFront(S, g, h))
            /\ Holds(list_splice_tail(m, g, h), rest, JoinedBack(S, g, h))
            /\ Holds(list_splice_init(m, g, h), l, JoinedFront(S, g, h))
            /\ Holds(list_splice_tail_init(m, g, h), l, JoinedBack(S, g, h))
<1> DEFINE s == S[h]
           t == S[g]
<1>1. /\ Ring(m, l) /\ Chained(m, h, s) /\ s \in Seq(Entries) /\ Len(s) \in Nat
      /\ t \in Seq(Entries) /\ S = [f \in Heads |-> S[f]]
  BY HoldsTypes DEF Holds
<1>2. list_empty(m, g) <=> S[g] = <<>>
  BY EmptyIs
<1>3. CASE list_empty(m, g)
  <2>1. S[g] = <<>> /\ <<>> \o S[h] = S[h] /\ S[h] \o <<>> = S[h]
    BY <1>1, <1>2, <1>3, ConcatEmptySeq
  <2>2. JoinedFront(S, g, h) = S /\ JoinedBack(S, g, h) = S
    BY <1>1, <2>1 DEF JoinedFront, JoinedBack
  <2> QED BY <1>3, <2>2
             DEF list_splice, list_splice_tail, list_splice_init, list_splice_tail_init
<1>4. CASE ~ list_empty(m, g)
  <2>0. 0 \in 0 .. Len(s) /\ Len(s) \in 0 .. Len(s) /\ 0 + 1 = 1
    BY <1>1
  <2>1. Spliced(s, 0, t) = t \o s /\ Spliced(s, Len(s), t) = s \o t
    <3> HIDE DEF s, t
    <3> QED BY <1>1, SplicedEnds
  <2>2. /\ SplicedLists(S, g, h, 0) = JoinedFront(S, g, h)
        /\ SplicedLists(S, g, h, Len(s)) = JoinedBack(S, g, h)
    BY <1>1, <2>1 DEF SplicedLists, JoinedFront, JoinedBack
  <2>3. /\ NodeAt(h, s, 0) = h /\ NodeAt(h, s, Len(s) + 1) = h
        /\ m.next[h] = NodeAt(h, s, 1) /\ m.prev[h] = NodeAt(h, s, Len(s))
    <3> HIDE DEF s
    <3> QED BY <1>1, <2>0, Along
  <2>4. /\ Holds(list_splice_between(m, g, NodeAt(h, s, 0), NodeAt(h, s, 0 + 1)),
                 l \ {g}, SplicedLists(S, g, h, 0))
        /\ Holds(list_splice_between(m, g, NodeAt(h, s, Len(s)), NodeAt(h, s, Len(s) + 1)),
                 l \ {g}, SplicedLists(S, g, h, Len(s)))
    BY <1>2, <1>4, <2>0, SpliceBetweenHolds
  <2> HIDE DEF s, t
  <2>5. /\ Holds(list_splice(m, g, h), l \ {g}, JoinedFront(S, g, h))
        /\ Holds(list_splice_tail(m, g, h), l \ {g}, JoinedBack(S, g, h))
    BY <1>4, <2>0, <2>2, <2>3, <2>4 DEF list_splice, list_splice_tail
  <2>6. g \notin l \ {g} /\ (l \ {g}) \cup {g} = l
    OBVIOUS
  <2>7. /\ Holds(INIT_LIST_HEAD(list_splice(m, g, h), g), (l \ {g}) \cup {g}, JoinedFront(S, g, h))
        /\ Holds(INIT_LIST_HEAD(list_splice_tail(m, g, h), g), (l \ {g}) \cup {g},
                 JoinedBack(S, g, h))
    BY <2>5, <2>6, InitHolds
  <2> QED BY <1>4, <2>5, <2>6, <2>7 DEF list_splice_init, list_splice_tail_init
<1> QED BY <1>3, <1>4

(* The replacing calls, for a new node that may also be live by itself.    *)
LEMMA ReplaceEntriesHold ==
  ASSUME NEW m, NEW l, NEW S, Holds(m, l, S), NEW o \in Entries \cap l,
         NEW n \in Entries, n # o, n \notin l \/ m.next[n] = n
  PROVE  /\ \A h \in Heads : \A i \in 1 .. Len(S[h]) : S[h][i] # n
         /\ Holds(list_replace(m, o, n), (l \ {o}) \cup {n}, Renamed(S, o, n))
         /\ Holds(list_replace_init(m, o, n), l \cup {n}, Renamed(S, o, n))
<1>1. \A h \in Heads : \A i \in 1 .. Len(S[h]) : S[h][i] # n
  BY HoldsTypes
<1> DEFINE k == l \ {n}
           a == list_replace(m, o, n)
           b == list_replace_init(m, o, n)
<1>2. /\ n \notin Heads /\ o \notin Heads /\ n \in Nodes /\ o \in Nodes
      /\ Heads \cap k = Heads \cap l /\ Heads \ k = Heads \ l
      /\ o \in Entries \cap k /\ n \in Entries \ k
      /\ (k \ {o}) \cup {n} = (l \ {o}) \cup {n} /\ k \cup {n} = l \cup {n}
  BY ListsAssumption DEF Nodes
<1>3. Ring(m, k)
  BY LooseIsOutside DEF Holds
<1>4. Holds(m, k, S)
  <2> HIDE DEF k
  <2> QED BY <1>2, <1>3 DEF Holds
<1> HIDE DEF k
<1>5. Ring(a, (k \ {o}) \cup {n}) /\ Ring(b, k \cup {n})
  BY <1>2, <1>3, ReplaceKeepsRing, ReplaceInitKeepsRing
<1>6. \A x \in Nodes \ {o} : b.next[x] = a.next[x]
  <2>1. a.next \in Links
    BY <1>5 DEF Ring, Memory
  <2> HIDE DEF a
  <2>2. b.next = [a.next EXCEPT ![o] = o]
    BY DEF list_replace_init, INIT_LIST_HEAD, a
  <2> QED BY <1>2, <2>1, <2>2 DEF Links
<1>7. Heads \cap ((k \ {o}) \cup {n}) = Heads \cap k /\ Heads \cap (k \cup {n}) = Heads \cap k
  BY <1>2
<1> HIDE DEF b
<1>8. Holds(a, (k \ {o}) \cup {n}, Renamed(S, o, n))
  BY <1>2, <1>4, <1>5, <1>7, ReplaceEntryHolds DEF a
<1>9. Holds(b, k \cup {n}, Renamed(S, o, n))
  BY <1>2, <1>4, <1>5, <1>6, <1>7, ReplaceEntryHolds DEF a
<1> QED BY <1>1, <1>2, <1>8, <1>9 DEF a, b

(* list_replace and list_replace_init between two heads.                   *)
LEMMA ReplaceHeadsHold ==
  ASSUME NEW m, NEW l, NEW S, Holds(m, l, S), NEW o \in Heads \cap l,
         NEW n \in Heads, n # o, n \notin l \/ m.next[n] = n
  PROVE  /\ S[n] = <<>>
         /\ Holds(list_replace(m, o, n), (l \ {o}) \cup {n}, HandedOver(S, o, n))
         /\ Holds(list_replace_init(m, o, n), l \cup {n}, HandedOver(S, o, n))
<1>1. S[n] = <<>> /\ Holds(m, l \ {n}, S)
  BY EmptyHead
<1>2. /\ o \in Heads \cap (l \ {n}) /\ n \in Heads \ (l \ {n})
      /\ ((l \ {n}) \ {o}) \cup {n} = (l \ {o}) \cup {n}
      /\ o \notin (l \ {o}) \cup {n} /\ ((l \ {o}) \cup {n}) \cup {o} = l \cup {n}
  OBVIOUS
<1>3. Holds(list_replace(m, o, n), ((l \ {n}) \ {o}) \cup {n}, HandedOver(S, o, n))
  BY <1>1, <1>2, ReplaceHeadHolds
<1>4. Holds(INIT_LIST_HEAD(list_replace(m, o, n), o), ((l \ {o}) \cup {n}) \cup {o},
            HandedOver(S, o, n))
  BY <1>2, <1>3, InitHolds
<1> QED BY <1>1, <1>2, <1>3, <1>4 DEF list_replace_init

-----------------------------------------------------------------------------
(* The inductive invariant of the promise: memory holds exactly the lists  *)
(* that EntriesOf reads from it.                                           *)
ListInv == Holds(mem, live, EntriesOf)

USE DEF Call, Loose

(* If the next memory holds some lists, they are the ones it gives.        *)
LEMMA NowHolds ==
  ASSUME NEW S, Holds(mem', live', S)
  PROVE  ListInv' /\ EntriesOf' = S
<1>1. EntriesOf' = S
  BY HoldsIs DEF EntriesOf
<1> QED BY <1>1 DEF ListInv

(* The abstract lists' words for what the lemmas above speak of.           *)
LEMMA AbstractWords ==
  ASSUME NEW e
  PROVE  /\ A!Without(e) = Gone(EntriesOf, e)
         /\ \A h \in Heads : A!In(e, h) <=> Has(EntriesOf[h], e)
         /\ \A s : A!Position(e, s) = PlaceOf(e, s)
<1>1. \A h \in Heads : A!In(e, h) <=> Has(EntriesOf[h], e)
  BY DEF A!In, A!ToSet, Has
<1>2. \A s : A!Position(e, s) = PlaceOf(e, s)
  BY DEF A!Position, PlaceOf
<1>3. \A s, i : A!RemoveAt(s, i) = RemoveAt(s, i)
  BY DEF A!RemoveAt, RemoveAt
<1>4. A!Without(e) = Gone(EntriesOf, e)
  BY <1>1, <1>2, <1>3 DEF A!Without, Gone
<1> QED BY <1>1, <1>2, <1>4

(* The entries the abstract lists leave free are the loose ones.           *)
LEMMA FreeIs ==
  ASSUME ListInv, NEW e, \A h \in Heads : \A i \in 1 .. Len(EntriesOf[h]) : EntriesOf[h][i] # e
  PROVE  A!Free(e)
<1> SUFFICES ASSUME NEW h \in Heads, Has(EntriesOf[h], e) PROVE FALSE
  BY AbstractWords DEF A!Free
<1>1. EntriesOf[h] \in Seq(Entries)
  BY HoldsTypes DEF ListInv
<1>2. DOMAIN EntriesOf[h] = 1 .. Len(EntriesOf[h])
  BY <1>1
<1> QED BY <1>2 DEF Has

(* The members of the abstract lists are the linked entries.               *)
LEMMA MembersAre ==
  ASSUME ListInv, NEW h \in Heads \cap live
  PROVE  \A e : e \in Members(h) <=> Has(EntriesOf[h], e)
<1>1. Chain(mem, "next", mem.next[h]) = EntriesOf[h]
  BY DEF EntriesOf
<1> QED BY <1>1 DEF Members, Has

(* Each call of list.h does what ListsAbstract says it does: adding,       *)
LEMMA AddPromise ==
  ASSUME ListInv, NEW e \in Entries, NEW h \in Heads
  PROVE  /\ ListAdd(e, h) => ListInv' /\ A!Add(e, h)
         /\ ListAddTail(e, h) => ListInv' /\ A!AddTail(e, h)
<1> SUFFICES ASSUME h \in live, e \notin live \/ mem.next[e] = e
             PROVE  /\ ListAdd(e, h) => ListInv' /\ A!Add(e, h)
                    /\ ListAddTail(e, h) => ListInv' /\ A!AddTail(e, h)
  BY DEF ListAdd, ListAddTail
<1>1. /\ \A g \in Heads : \A i \in 1 .. Len(EntriesOf[g]) : EntriesOf[g][i] # e
      /\ Holds(list_add(mem, e, h), live \cup {e}, [EntriesOf EXCEPT ![h] = <<e>> \o @])
      /\ Holds(list_add_tail(mem, e, h), live \cup {e}, [EntriesOf EXCEPT ![h] = Append(@, e)])
  BY AddHolds DEF ListInv
<1>2. A!Free(e)
  BY <1>1, FreeIs
<1>3. ASSUME ListAdd(e, h) PROVE ListInv' /\ A!Add(e, h)
  <2>1. mem' = list_add(mem, e, h) /\ live' = live \cup {e}
    BY <1>3 DEF ListAdd
  <2> QED BY <1>1, <1>2, <2>1, NowHolds DEF A!Add
<1>4. ASSUME ListAddTail(e, h) PROVE ListInv' /\ A!AddTail(e, h)
  <2>1. mem' = list_add_tail(mem, e, h) /\ live' = live \cup {e}
    BY <1>4 DEF ListAddTail
  <2> QED BY <1>1, <1>2, <2>1, NowHolds DEF A!AddTail
<1> QED BY <1>3, <1>4

(* deleting,                                                               *)
LEMMA DelPromise ==
  ASSUME ListInv, NEW e \in Entries
  PROVE  ListDel(e) \/ ListDelInit(e) => ListInv' /\ A!Del(e)
<1> SUFFICES ASSUME ListDel(e) \/ ListDelInit(e) PROVE ListInv' /\ A!Del(e)
  OBVIOUS
<1>1. e \in live
  BY DEF ListDel, ListDelInit
<1>2. /\ Holds(list_del(mem, e), live \ {e}, Gone(EntriesOf, e))
      /\ Holds(list_del_init(mem, e), live, Gone(EntriesOf, e))
  BY <1>1, DelHolds DEF ListInv
<1>3. Holds(mem', live', Gone(EntriesOf, e))
  BY <1>2 DEF ListDel, ListDelInit
<1> QED BY <1>3, NowHolds, AbstractWords DEF A!Del

(* moving,                                                                 *)
LEMMA MovePromise ==
  ASSUME ListInv, NEW e \in Entries, NEW h \in Heads
  PROVE  /\ ListMove(e, h) => ListInv' /\ A!Move(e, h)
         /\ ListMoveTail(e, h) => ListInv' /\ A!MoveTail(e, h)
<1> SUFFICES ASSUME h \in live, e \in live
             PROVE  /\ ListMove(e, h) => ListInv' /\ A!Move(e, h)
                    /\ ListMoveTail(e, h) => ListInv' /\ A!MoveTail(e, h)
  BY DEF ListMove, ListMoveTail
<1>1. /\ Holds(list_move(mem, e, h), live, [Gone(EntriesOf, e) EXCEPT ![h] = <<e>> \o @])
      /\ Holds(list_move_tail(mem, e, h), live, [Gone(EntriesOf, e) EXCEPT ![h] = Append(@, e)])
  BY MoveHolds DEF ListInv
<1>2. ASSUME ListMove(e, h) PROVE ListInv' /\ A!Move(e, h)
  <2>1. mem' = list_move(mem, e, h) /\ live' = live
    BY <1>2 DEF ListMove
  <2> QED BY <1>1, <2>1, NowHolds, AbstractWords DEF A!Move
<1>3. ASSUME ListMoveTail(e, h) PROVE ListInv' /\ A!MoveTail(e, h)
  <2>1. mem' = list_move_tail(mem, e, h) /\ live' = live
    BY <1>3 DEF ListMoveTail
  <2> QED BY <1>1, <2>1, NowHolds, AbstractWords DEF A!MoveTail
<1> QED BY <1>2, <1>3

(* what is done to one head,                                               *)
LEMMA HeadPromise ==
  ASSUME ListInv, NEW h \in Heads
  PROVE  /\ InitListHead(h) => ListInv' /\ UNCHANGED EntriesOf
         /\ ListRotateLeft(h) => ListInv' /\ A!RotateLeft(h)
<1>1. ASSUME InitListHead(h) PROVE ListInv' /\ UNCHANGED EntriesOf
  <2>1. mem' = INIT_LIST_HEAD(mem, h) /\ live' = live \cup {h} /\ h \notin live
    BY <1>1 DEF InitListHead
  <2>2. Holds(INIT_LIST_HEAD(mem, h), live \cup {h}, EntriesOf)
    BY <2>1, InitHolds DEF ListInv
  <2> QED BY <2>1, <2>2, NowHolds
<1>2. ASSUME ListRotateLeft(h) PROVE ListInv' /\ A!RotateLeft(h)
  <2>1. mem' = list_rotate_left(mem, h) /\ live' = live /\ h \in live
    BY <1>2 DEF ListRotateLeft
  <2>2. Holds(list_rotate_left(mem, h), live,
              [EntriesOf EXCEPT ![h] = IF @ = <<>> THEN @ ELSE Append(Tail(@), Head(@))])
    BY <2>1, RotateHolds DEF ListInv
  <2> QED BY <2>1, <2>2, NowHolds DEF A!RotateLeft
<1> QED BY <1>1, <1>2

(* replacing,                                                              *)
LEMMA ReplacePromise ==
  ASSUME ListInv, NEW o \in Nodes, NEW n \in Nodes, ListReplace(o, n) \/ ListReplaceInit(o, n)
  PROVE  ListInv' /\ A!Replace(o, n)
<1>1. /\ o # n /\ o \in live
      /\ n \notin live \/ mem.next[n] = n
      /\ o \in Heads <=> n \in Heads
      /\ \/ mem' = list_replace(mem, o, n) /\ live' = (live \ {o}) \cup {n}
         \/ mem' = list_replace_init(mem, o, n) /\ live' = live \cup {n}
  BY DEF ListReplace, ListReplaceInit, MayReplace
<1>2. CASE o \in Heads
  <2>1. n \in Heads /\ n # o /\ o \in Heads \cap live
    BY <1>1, <1>2
  <2>2. /\ EntriesOf[n] = <<>>
        /\ Holds(list_replace(mem, o, n), (live \ {o}) \cup {n}, HandedOver(EntriesOf, o, n))
        /\ Holds(list_replace_init(mem, o, n), live \cup {n}, HandedOver(EntriesOf, o, n))
    BY <1>1, <2>1, ReplaceHeadsHold DEF ListInv
  <2>3. Holds(mem', live', HandedOver(EntriesOf, o, n))
    BY <1>1, <2>2
  <2> QED BY <1>2, <2>2, <2>3, NowHolds DEF A!Replace, HandedOver
<1>3. CASE o \notin Heads
  <2>1. n \in Entries /\ n # o /\ o \in Entries \cap live
    BY <1>1, <1>3 DEF Nodes
  <2>2. /\ \A h \in Heads : \A i \in 1 .. Len(EntriesOf[h]) : EntriesOf[h][i] # n
        /\ Holds(list_replace(mem, o, n), (live \ {o}) \cup {n}, Renamed(EntriesOf, o, n))
        /\ Holds(list_replace_init(mem, o, n), live \cup {n}, Renamed(EntriesOf, o, n))
    BY <1>1, <2>1, ReplaceEntriesHold DEF ListInv
  <2>3. Holds(mem', live', Renamed(EntriesOf, o, n))
    BY <1>1, <2>2
  <2>4. A!Free(n)
    BY <2>2, FreeIs
  <2>5. Renamed(EntriesOf, o, n) = [h \in Heads |-> A!ReplaceAll(EntriesOf[h], o, n)]
    BY DEF Renamed, A!ReplaceAll
  <2> QED BY <1>3, <2>3, <2>4, <2>5, NowHolds DEF A!Replace
<1> QED BY <1>2, <1>3

(* cutting                                                                 *)
LEMMA CutPromise ==
  ASSUME ListInv, NEW g \in Heads, NEW h \in Heads, NEW e \in Nodes, ListCutPosition(g, h, e)
  PROVE  ListInv' /\ A!Cut(g, h, e)
<1>1. /\ g # h /\ h \in live
      /\ g \notin live \/ mem.next[g] = g
      /\ e = h \/ Has(EntriesOf[h], e)
      /\ mem' = list_cut_position(mem, g, h, e)
      /\ live' = IF CutsNothing(mem, h, e) THEN live ELSE live \cup {g}
  BY MembersAre DEF ListCutPosition
<1>2. /\ EntriesOf[g] = <<>>
      /\ Holds(list_cut_position(mem, g, h, e),
               IF CutsNothing(mem, h, e) THEN live ELSE live \cup {g},
               CutLists(EntriesOf, g, h, CutAt(EntriesOf[h], e, h)))
  BY <1>1, CutHolds DEF ListInv
<1>3. ListInv' /\ EntriesOf' = CutLists(EntriesOf, g, h, CutAt(EntriesOf[h], e, h))
  BY <1>1, <1>2, NowHolds
<1>4. CutAt(EntriesOf[h], e, h) = IF e = h THEN 0 ELSE A!Position(e, EntriesOf[h])
  BY AbstractWords DEF CutAt
<1> QED BY <1>2, <1>3, <1>4 DEF A!Cut, CutLists

(* and splicing.                                                           *)
LEMMA SplicePromise ==
  ASSUME ListInv, NEW g \in Heads, NEW h \in Heads
  PROVE  /\ ListSplice(g, h) \/ ListSpliceInit(g, h) => ListInv' /\ A!Splice(g, h)
         /\ ListSpliceTail(g, h) \/ ListSpliceTailInit(g, h) => ListInv' /\ A!SpliceTail(g, h)
<1> SUFFICES ASSUME g # h, g \in live, h \in live
             PROVE  /\ ListSplice(g, h) \/ ListSpliceInit(g, h) => ListInv' /\ A!Splice(g, h)
                    /\ ListSpliceTail(g, h) \/ ListSpliceTailInit(g, h)
                         => ListInv' /\ A!SpliceTail(g, h)
  BY DEF ListSplice, ListSpliceTail, ListSpliceInit, ListSpliceTailInit, Apart
<1>1. /\ Holds(list_splice(mem, g, h), AfterSplice(g), JoinedFront(EntriesOf, g, h))
      /\ Holds(list_splice_tail(mem, g, h), AfterSplice(g), JoinedBack(EntriesOf, g, h))
      /\ Holds(list_splice_init(mem, g, h), live, JoinedFront(EntriesOf, g, h))
      /\ Holds(list_splice_tail_init(mem, g, h), live, JoinedBack(EntriesOf, g, h))
  BY SpliceHolds DEF ListInv, AfterSplice
<1>2. ASSUME ListSplice(g, h) \/ ListSpliceInit(g, h) PROVE ListInv' /\ A!Splice(g, h)
  <2>1. Holds(mem', live', JoinedFront(EntriesOf, g, h))
    BY <1>1, <1>2 DEF ListSplice, ListSpliceInit
  <2> QED BY <2>1, NowHolds DEF A!Splice, JoinedFront
<1>3. ASSUME ListSpliceTail(g, h) \/ ListSpliceTailInit(g, h)
      PROVE  ListInv' /\ A!SpliceTail(g, h)
  <2>1. Holds(mem', live', JoinedBack(EntriesOf, g, h))
    BY <1>1, <1>3 DEF ListSpliceTail, ListSpliceTailInit
  <2> QED BY <2>1, NowHolds DEF A!SpliceTail, JoinedBack
<1> QED BY <1>2, <1>3

(* The tests list_empty, list_is_last, list_is_singular... answer for the  *)
(* lists held.                                                             *)
LEMMA TestsAnswer == ListInv => TestsAgree
<1> SUFFICES ASSUME ListInv, NEW h \in Heads \cap live
             PROVE  LET list == Chain(mem, "next", mem.next[h])
                    IN /\ list_empty(mem, h) <=> list = <<>>
                       /\ list_empty_careful(mem, h) <=> list = <<>>
                       /\ list_is_singular(mem, h) <=> Len(list) = 1
                       /\ \A i \in DOMAIN list : list_is_last(mem, list[i], h) <=> i = Len(list)
  BY DEF TestsAgree
<1> DEFINE s == EntriesOf[h]
<1>1. Chain(mem, "next", mem.next[h]) = s
  BY DEF EntriesOf
<1>2. /\ Ring(mem, live) /\ Chained(mem, h, s) /\ s \in Seq(Entries) /\ Len(s) \in Nat
      /\ \A i, j \in 1 .. Len(s) : s[i] = s[j] => i = j
  BY HoldsTypes DEF Holds, ListInv
<1>3. list_empty(mem, h) <=> EntriesOf[h] = <<>>
  BY EmptyIs DEF ListInv
<1> HIDE DEF s
<1>4. /\ mem.next[h] = NodeAt(h, s, 1) /\ mem.prev[h] = NodeAt(h, s, Len(s))
      /\ \A i \in 1 .. Len(s) : mem.next[s[i]] = NodeAt(h, s, i + 1)
  <2>1. /\ 0 \in 0 .. Len(s) /\ Len(s) \in 0 .. Len(s) /\ 0 + 1 = 1
        /\ \A i \in 1 .. Len(s) : i \in 0 .. Len(s) /\ NodeAt(h, s, i) = s[i]
    BY <1>2 DEF NodeAt
  <2> QED BY <1>2, <2>1, Along
<1>5. \A i \in 1 .. Len(s) : s[i] # h
  BY <1>2, ListsAssumption
<1>6. CASE s = <<>>
  <2>1. Len(s) = 0 /\ DOMAIN s = {}
    BY <1>6
  <2>2. mem.next[h] = h /\ mem.prev[h] = h
    BY <1>4, <2>1 DEF NodeAt
  <2>3. /\ list_empty(mem, h) /\ list_empty_careful(mem, h) /\ ~ list_is_singular(mem, h)
    BY <2>2 DEF list_empty, list_empty_careful, list_is_singular
  <2>4. \A i \in DOMAIN s : list_is_last(mem, s[i], h) <=> i = Len(s)
    BY <2>1
  <2>5. list_is_singular(mem, h) <=> Len(s) = 1
    BY <2>1, <2>3
  <2> QED BY <1>1, <1>6, <2>3, <2>4, <2>5
<1>7. CASE s # <<>>
  <2>1. 1 \in 1 .. Len(s) /\ Len(s) \in 1 .. Len(s) /\ DOMAIN s = 1 .. Len(s)
    BY <1>2, <1>7
  <2>2. mem.next[h] = s[1] /\ mem.prev[h] = s[Len(s)]
    BY <1>4, <2>1 DEF NodeAt
  <2>3. ~ list_empty(mem, h) /\ ~ list_empty_careful(mem, h)
    BY <1>5, <2>1, <2>2 DEF list_empty, list_empty_careful
  <2>4. list_is_singular(mem, h) <=> Len(s) = 1
    BY <1>2, <2>1, <2>2, <2>3 DEF list_is_singular
  <2>5. \A i \in 1 .. Len(s) : list_is_last(mem, s[i], h) <=> i = Len(s)
    <3> TAKE i \in 1 .. Len(s)
    <3>1. CASE i = Len(s)
      BY <1>2, <1>4, <3>1 DEF NodeAt, list_is_last
    <3>2. CASE i # Len(s)
      <4>1. i + 1 \in 1 .. Len(s)
        BY <1>2, <3>2
      <4> QED BY <1>4, <1>5, <3>2, <4>1 DEF NodeAt, list_is_last
    <3> QED BY <3>1, <3>2
  <2> QED BY <1>1, <1>7, <2>1, <2>3, <2>4, <2>5
<1> QED BY <1>6, <1>7

(* At the start every list is empty.                                       *)
LEMMA InitListInv == Init => ListInv /\ EntriesOf = A!Empty
<1> SUFFICES ASSUME Init PROVE ListInv /\ EntriesOf = A!Empty
  OBVIOUS
<1> DEFINE S == [h \in Heads |-> <<>>]
<1>1. Ring(mem, live)
  BY InitIInv DEF IInv
<1>2. \A h \in Heads : Chained(mem, h, <<>>) /\ h \in live
  BY DEF Init, Chained, NodeAt, Nodes
<1>3. Holds(mem, live, S)
  BY <1>1, <1>2 DEF Holds
<1>4. EntriesOf = S
  BY <1>3, HoldsIs DEF EntriesOf
<1> QED BY <1>3, <1>4 DEF ListInv, A!Empty

(* The bodies of the loops, which are calls on the node they are at.       *)
LEMMA BodiesKeepListInv ==
  ASSUME ListInv, DelPos \/ DelInitPos \/ DelNextAndReset
                    \/ \E h \in Heads : MovePos(h) \/ MoveTailPos(h)
  PROVE  ListInv'
<1>1. CASE DelPos
  <2>1. walk.pos \in Entries \cap live /\ mem' = list_del(mem, walk.pos)
        /\ live' = live \ {walk.pos}
    BY <1>1 DEF DelPos, TakeOut, InBody
  <2> QED BY <2>1, DelHolds, NowHolds DEF ListInv
<1>2. CASE DelInitPos
  <2>1. walk.pos \in Entries \cap live /\ mem' = list_del_init(mem, walk.pos) /\ live' = live
    BY <1>2 DEF DelInitPos, TakeOut, InBody
  <2> QED BY <2>1, DelHolds, NowHolds DEF ListInv
<1>3. CASE DelNextAndReset
  <2>1. walk.n \in Entries \cap live /\ mem' = list_del(mem, walk.n) /\ live' = live \ {walk.n}
    BY <1>3 DEF DelNextAndReset
  <2> QED BY <2>1, DelHolds, NowHolds DEF ListInv
<1>4. ASSUME NEW h \in Heads, MovePos(h) \/ MoveTailPos(h) PROVE ListInv'
  <2>1. /\ walk.pos \in Entries \cap live /\ h \in Heads \cap live /\ live' = live
        /\ \/ mem' = list_move(mem, walk.pos, h)
           \/ mem' = list_move_tail(mem, walk.pos, h)
    BY <1>4 DEF MovePos, MoveTailPos, TakeOut, InBody
  <2>2. /\ Holds(list_move(mem, walk.pos, h), live,
                 [Gone(EntriesOf, walk.pos) EXCEPT ![h] = <<walk.pos>> \o @])
        /\ Holds(list_move_tail(mem, walk.pos, h), live,
                 [Gone(EntriesOf, walk.pos) EXCEPT ![h] = Append(@, walk.pos)])
    BY <2>1, MoveHolds DEF ListInv
  <2> QED BY <2>1, <2>2, NowHolds
<1> QED BY <1>1, <1>2, <1>3, <1>4

(* Every step keeps the lists held.                                        *)
LEMMA StepListInv == ListInv /\ [Next]_vars => ListInv'
<1> SUFFICES ASSUME ListInv, [Next]_vars PROVE ListInv'
  OBVIOUS
<1>1. CASE UNCHANGED <<mem, live>>
  <2>1. Holds(mem', live', EntriesOf)
    BY <1>1 DEF ListInv
  <2> QED BY <2>1, NowHolds
<1>2. CASE \E h \in Heads : InitListHead(h) \/ ListRotateLeft(h)
  BY <1>2, HeadPromise
<1>3. CASE \E e \in Entries : ListDel(e) \/ ListDelInit(e)
  BY <1>3, DelPromise
<1>4. CASE \E e \in Entries, h \in Heads :
             ListAdd(e, h) \/ ListAddTail(e, h) \/ ListMove(e, h) \/ ListMoveTail(e, h)
  BY <1>4, AddPromise, MovePromise
<1>5. CASE \E old, new \in Nodes : ListReplace(old, new) \/ ListReplaceInit(old, new)
  BY <1>5, ReplacePromise
<1>6. CASE \E list, head \in Heads :
             \/ \E entry \in Nodes : ListCutPosition(list, head, entry)
             \/ ListSplice(list, head) \/ ListSpliceTail(list, head)
             \/ ListSpliceInit(list, head) \/ ListSpliceTailInit(list, head)
  BY <1>6, CutPromise, SplicePromise
<1>7. CASE \E head \in Heads, safe \in BOOLEAN :
             \/ \E dir \in {"next", "prev"} :
                  \/ ForEach(dir, safe, head)
                  \/ \E pos \in Entries : ForEachContinue(dir, safe, pos, head)
             \/ \E pos \in Entries : ForEachFrom(safe, pos, head)
  BY <1>1, <1>7 DEF ForEach, ForEachContinue, ForEachFrom, Start
<1>8. CASE Look \/ Leave
  BY <1>1, <1>8 DEF Look, Leave
<1>9. CASE DelPos \/ DelInitPos \/ DelNextAndReset
             \/ \E head \in Heads : MovePos(head) \/ MoveTailPos(head)
  BY <1>9, BodiesKeepListInv
<1>10. CASE UNCHANGED vars
  BY <1>1, <1>10 DEF vars
<1> QED BY <1>2, <1>3, <1>4, <1>5, <1>6, <1>7, <1>8, <1>9, <1>10 DEF Next

(* Every call does to the sequences of entries what its name says, and the *)
(* tests answer for the list that is there, on any number of lists.        *)
THEOREM ListCallsKeepTheirPromise == Spec => EveryCallKeepsItsPromise
<1>1. ListInv /\ [Next]_vars => [CallsDoAsNamed]_vars
  <2>1. ListInv => CallsDoAsNamed
    BY HeadPromise, DelPromise, AddPromise, MovePromise, ReplacePromise, CutPromise,
       SplicePromise DEF CallsDoAsNamed
  <2> QED BY <2>1
<1> QED BY <1>1, InitListInv, StepListInv, TestsAnswer, PTL DEF Spec, EveryCallKeepsItsPromise

HIDE DEF Call, Loose

-----------------------------------------------------------------------------
(* The memory as a loop along dir sees it: for a loop along prev the two   *)
(* pointers of every node are exchanged.                                   *)
Dirs == {"next", "prev"}
(* Walking backwards is walking the memory with next and prev exchanged.   *)
View(m, dir) == IF dir = "next" THEN m ELSE [next |-> m.prev, prev |-> m.next]

(* The view has the pointers of its direction.                             *)
LEMMA ViewIs ==
  ASSUME NEW m, NEW l, Ring(m, l), NEW dir \in Dirs
  PROVE  Ring(View(m, dir), l) /\ View(m, dir).next = m[dir]
<1>1. m = [next |-> m.next, prev |-> m.prev]
  BY DEF Ring, Memory
<1>2. CASE dir = "next"
  BY <1>2 DEF View
<1>3. CASE dir = "prev"
  <2> DEFINE v == [next |-> m.prev, prev |-> m.next]
  <2>1. v.next = m.prev /\ v.prev = m.next /\ v \in Memory
    BY DEF Ring, Memory
  <2> HIDE DEF v
  <2>2. Ring(v, l)
    BY <2>1 DEF Ring
  <2> QED BY <1>1, <1>3, <2>1, <2>2 DEF View, v
<1> QED BY <1>2, <1>3 DEF Dirs

(* The entries of a list, last to first.                                   *)
Backwards(s) == [k \in 1 .. Len(s) |-> s[Len(s) + 1 - k]]

(* A list chained forwards is chained backwards too.                       *)
LEMMA BackwardsChained ==
  ASSUME NEW m, NEW l, Ring(m, l), NEW h \in Heads \cap l, NEW s, Chained(m, h, s)
  PROVE  Chained(View(m, "prev"), h, Backwards(s))
<1> DEFINE t == Backwards(s)
           v == View(m, "prev")
<1>1. /\ Len(s) \in Nat /\ s \in Seq(Entries) /\ \A i \in 1 .. Len(s) : s[i] \in Entries
      /\ \A i, j \in 1 .. Len(s) : s[i] = s[j] => i = j
  BY DEF Chained
<1>2. t \in Seq(Entries) /\ Len(t) = Len(s) /\ \A k \in 1 .. Len(s) : t[k] = s[Len(s) + 1 - k]
  <2>1. \A k \in 1 .. Len(s) : Len(s) + 1 - k \in 1 .. Len(s)
    BY <1>1
  <2> QED BY <1>1, <2>1 DEF Backwards
<1>3. v.next = m.prev
  BY DEF View
<1> HIDE DEF t, v
<1>4. \A i, j \in 1 .. Len(t) : t[i] = t[j] => i = j
  <2> SUFFICES ASSUME NEW i \in 1 .. Len(t), NEW j \in 1 .. Len(t), t[i] = t[j] PROVE i = j
    OBVIOUS
  <2>1. /\ Len(s) + 1 - i \in 1 .. Len(s) /\ Len(s) + 1 - j \in 1 .. Len(s)
        /\ s[Len(s) + 1 - i] = s[Len(s) + 1 - j]
    BY <1>1, <1>2
  <2>2. Len(s) + 1 - i = Len(s) + 1 - j
    BY <1>1, <2>1
  <2> QED BY <1>1, <1>2, <2>2
<1>5. \A k \in 0 .. Len(s) + 1 : NodeAt(h, t, k) = NodeAt(h, s, Len(s) + 1 - k)
  <2> TAKE k \in 0 .. Len(s) + 1
  <2>1. k \in 1 .. Len(s) <=> Len(s) + 1 - k \in 1 .. Len(s)
    BY <1>1
  <2> QED BY <1>2, <2>1 DEF NodeAt
<1>6. ASSUME NEW k \in 0 .. Len(t) PROVE v.next[NodeAt(h, t, k)] = NodeAt(h, t, k + 1)
  <2> DEFINE j == Len(s) - k
  <2>1. /\ j \in 0 .. Len(s) /\ Len(s) + 1 - k = j + 1 /\ Len(s) + 1 - (k + 1) = j
        /\ k \in 0 .. Len(s) + 1 /\ k + 1 \in 0 .. Len(s) + 1
    BY <1>1, <1>2
  <2> HIDE DEF j
  <2>2. NodeAt(h, t, k) = NodeAt(h, s, j + 1) /\ NodeAt(h, t, k + 1) = NodeAt(h, s, j)
    BY <1>5, <2>1
  <2>3. m.prev[NodeAt(h, s, j + 1)] = NodeAt(h, s, j)
    BY <2>1, Along
  <2> QED BY <1>3, <2>2, <2>3
<1>7. Chained(v, h, t)
  BY <1>2, <1>4, <1>6 DEF Chained
<1> QED BY <1>7 DEF t, v

(* Along either direction a head's entries are a sequence.                 *)
LEMMA EitherWay ==
  ASSUME NEW m, NEW l, NEW S, Holds(m, l, S), NEW h \in Heads \cap l, NEW dir \in Dirs
  PROVE  \E t : /\ Chained(View(m, dir), h, t)
                /\ \A e : Has(S[h], e) => \E i \in 1 .. Len(t) : t[i] = e
<1> DEFINE s == S[h]
<1>1. /\ Ring(m, l) /\ Chained(m, h, s) /\ s \in Seq(Entries) /\ Len(s) \in Nat
  BY HoldsTypes DEF Holds
<1> HIDE DEF s
<1>2. ASSUME NEW e, Has(s, e) PROVE \E i \in 1 .. Len(s) : s[i] = e
  BY <1>1, <1>2 DEF Has
<1>3. CASE dir = "next"
  BY <1>1, <1>2, <1>3 DEF View, s
<1>4. CASE dir = "prev"
  <2>1. Chained(View(m, "prev"), h, Backwards(s))
    BY <1>1, BackwardsChained
  <2>2. ASSUME NEW e, Has(s, e)
        PROVE  \E i \in 1 .. Len(Backwards(s)) : Backwards(s)[i] = e
    <3>1. PICK i \in 1 .. Len(s) : s[i] = e
      BY <1>2, <2>2
    <3>2. /\ Len(s) + 1 - i \in 1 .. Len(s) /\ Len(s) + 1 - (Len(s) + 1 - i) = i
          /\ Len(Backwards(s)) = Len(s)
      BY <1>1 DEF Backwards
    <3>3. Backwards(s)[Len(s) + 1 - i] = e
      BY <3>1, <3>2 DEF Backwards
    <3> QED BY <3>2, <3>3
  <2> QED BY <1>4, <2>1, <2>2 DEF s
<1> QED BY <1>3, <1>4 DEF Dirs

(* From any place of a list Chain gives the entries that are left.         *)
LEMMA ChainFrom ==
  ASSUME NEW m, NEW l, Ring(m, l), NEW dir \in Dirs, NEW h \in Heads \cap l,
         NEW t, Chained(View(m, dir), h, t), NEW i \in 1 .. Len(t) + 1
  PROVE  LET due == Chain(m, dir, NodeAt(h, t, i))
         IN /\ due \in Seq(Entries) /\ Len(due) = Len(t) + 1 - i
            /\ \A k \in 1 .. Len(due) : due[k] = t[i + k - 1]
<1>1. /\ t \in Seq(Entries) /\ Len(t) \in Nat /\ \A k \in 1 .. Len(t) : t[k] \in Entries
      /\ \A j, k \in 1 .. Len(t) : t[j] = t[k] => j = k
      /\ \A k \in 0 .. Len(t) : View(m, dir).next[NodeAt(h, t, k)] = NodeAt(h, t, k + 1)
  BY DEF Chained
<1>2. View(m, dir).next = m[dir]
  BY ViewIs
<1> DEFINE u == [k \in 1 .. Len(t) + 1 - i |-> t[i + k - 1]]
<1>3. /\ u \in Seq(Entries) /\ Len(u) = Len(t) + 1 - i
      /\ \A k \in 1 .. Len(u) : u[k] = t[i + k - 1] /\ i + k - 1 \in 1 .. Len(t)
  <2>1. Len(t) + 1 - i \in Nat /\ \A k \in 1 .. Len(t) + 1 - i : i + k - 1 \in 1 .. Len(t)
    BY <1>1
  <2> QED BY <1>1, <2>1
<1> HIDE DEF u
<1>4. \A j, k \in 1 .. Len(u) : u[j] = u[k] => j = k
  <2> SUFFICES ASSUME NEW j \in 1 .. Len(u), NEW k \in 1 .. Len(u), u[j] = u[k] PROVE j = k
    OBVIOUS
  <2>1. /\ u[j] = t[i + j - 1] /\ i + j - 1 \in 1 .. Len(t)
        /\ u[k] = t[i + k - 1] /\ i + k - 1 \in 1 .. Len(t)
    BY <1>3
  <2>2. i + j - 1 = i + k - 1
    BY <1>1, <2>1
  <2> QED BY <1>1, <1>3, <2>2
<1>5. \A k \in 1 .. Len(u) + 1 : NodeAt(h, u, k) = NodeAt(h, t, i + k - 1)
  <2> TAKE k \in 1 .. Len(u) + 1
  <2>1. k \in 1 .. Len(u) <=> i + k - 1 \in 1 .. Len(t)
    BY <1>1, <1>3
  <2> QED BY <1>3, <2>1 DEF NodeAt
<1>6. \A k \in 1 .. Len(u) : m[dir][u[k]] = NodeAt(h, u, k + 1)
  <2> TAKE k \in 1 .. Len(u)
  <2>1. /\ k + 1 \in 1 .. Len(u) + 1 /\ i + (k + 1) - 1 = (i + k - 1) + 1
        /\ i + k - 1 \in 0 .. Len(t) /\ NodeAt(h, t, i + k - 1) = u[k]
    BY <1>1, <1>3 DEF NodeAt
  <2> QED BY <1>1, <1>2, <1>5, <2>1
<1>7. Chain(m, dir, NodeAt(h, u, 1)) = u
  <2>1. h \notin Entries /\ u \in Seq(Entries)
    BY <1>3, ListsAssumption
  <2>2. Path(m, dir, u, h)
    BY <1>4, <1>6, <2>1 DEF Path
  <2> QED BY <2>2, ChainFinds
<1>8. NodeAt(h, u, 1) = NodeAt(h, t, i)
  <2>1. 1 \in 1 .. Len(u) + 1 /\ i + 1 - 1 = i
    BY <1>1, <1>3
  <2> QED BY <1>5, <2>1
<1>9. \A k \in 1 .. Len(u) : u[k] = t[i + k - 1]
  BY <1>3
<1> QED BY <1>3, <1>7, <1>8, <1>9

-----------------------------------------------------------------------------
(* Of the entries due the body has seen the first; the others are those of *)
(* the list t from place i on.                                             *)
Ahead(seen, due, t, i) ==
  /\ Len(due) = Len(seen) + Len(t) + 1 - i
  /\ \A k \in 1 .. Len(seen) : due[k] = seen[k]
  /\ \A k \in i .. Len(t) : due[Len(seen) + 1 + k - i] = t[k]

(* A walk that moves on has met what it passes.                            *)
LEMMA AheadOn ==
  ASSUME NEW E, NEW seen \in Seq(E), NEW due \in Seq(E), NEW t \in Seq(E),
         NEW i \in 1 .. Len(t), Ahead(seen, due, t, i)
  PROVE  Ahead(Append(seen, t[i]), due, t, i + 1)
<1> DEFINE more == Append(seen, t[i])
<1>1. Len(seen) \in Nat /\ Len(due) \in Nat /\ Len(t) \in Nat /\ t[i] \in E
  OBVIOUS
<1>2. /\ Len(more) = Len(seen) + 1 /\ more[Len(seen) + 1] = t[i]
      /\ \A k \in 1 .. Len(seen) : more[k] = seen[k]
  BY <1>1, AppendProperties
<1> HIDE DEF more
<1>3. Len(due) = Len(more) + Len(t) + 1 - (i + 1)
  BY <1>1, <1>2 DEF Ahead
<1>4. \A k \in 1 .. Len(more) : due[k] = more[k]
  <2> TAKE k \in 1 .. Len(more)
  <2>1. CASE k \in 1 .. Len(seen)
    BY <1>2, <2>1 DEF Ahead
  <2>2. CASE k = Len(seen) + 1
    <3>1. Len(seen) + 1 + i - i = k /\ i \in i .. Len(t)
      BY <1>1, <2>2
    <3>2. due[Len(seen) + 1 + i - i] = t[i]
      BY <3>1 DEF Ahead
    <3> QED BY <1>2, <2>2, <3>1, <3>2
  <2> QED BY <1>1, <1>2, <2>1, <2>2
<1>5. \A k \in i + 1 .. Len(t) : due[Len(more) + 1 + k - (i + 1)] = t[k]
  <2> TAKE k \in i + 1 .. Len(t)
  <2>1. Len(more) + 1 + k - (i + 1) = Len(seen) + 1 + k - i /\ k \in i .. Len(t)
    BY <1>1, <1>2
  <2> QED BY <2>1 DEF Ahead
<1>6. Ahead(more, due, t, i + 1)
  BY <1>3, <1>4, <1>5 DEF Ahead
<1> QED BY <1>6 DEF more

(* What Removed leaves in place.                                           *)
LEMMA RemovedIs ==
  ASSUME NEW E, NEW s \in Seq(E), NEW i \in 1 .. Len(s)
  PROVE  /\ Removed(s, i) \in Seq(E) /\ Len(Removed(s, i)) = Len(s) - 1
         /\ \A k \in 1 .. Len(s) - 1 : Removed(s, i)[k] = IF k < i THEN s[k] ELSE s[k + 1]
<1>1. Len(s) \in Nat /\ \A k \in 1 .. Len(s) : s[k] \in E
  OBVIOUS
<1>2. \A k \in 1 .. Len(s) - 1 : k \in 1 .. Len(s) /\ k + 1 \in 1 .. Len(s)
  BY <1>1
<1>3. Len(s) - 1 \in Nat
  BY <1>1
<1> QED BY <1>1, <1>2, <1>3 DEF Removed

(* The list without its entry at i, which the body has seen.               *)
LEMMA AheadTaken ==
  ASSUME NEW E, NEW seen \in Seq(E), NEW due \in Seq(E), NEW t \in Seq(E),
         NEW i \in 1 .. Len(t), Ahead(seen, due, t, i + 1)
  PROVE  Ahead(seen, due, Removed(t, i), i)
<1> DEFINE u == Removed(t, i)
<1>1. Len(seen) \in Nat /\ Len(due) \in Nat /\ Len(t) \in Nat
  OBVIOUS
<1>2. /\ Len(u) = Len(t) - 1
      /\ \A k \in 1 .. Len(t) - 1 : u[k] = IF k < i THEN t[k] ELSE t[k + 1]
  BY RemovedIs
<1> HIDE DEF u
<1>3. Len(due) = Len(seen) + Len(u) + 1 - i
  BY <1>1, <1>2 DEF Ahead
<1>4. \A k \in i .. Len(u) : due[Len(seen) + 1 + k - i] = u[k]
  <2> TAKE k \in i .. Len(u)
  <2>1. /\ k \in 1 .. Len(t) - 1 /\ ~ (k < i) /\ k + 1 \in i + 1 .. Len(t)
        /\ Len(seen) + 1 + (k + 1) - (i + 1) = Len(seen) + 1 + k - i
    BY <1>1, <1>2
  <2>2. due[Len(seen) + 1 + (k + 1) - (i + 1)] = t[k + 1]
    BY <2>1 DEF Ahead
  <2> QED BY <1>2, <2>1, <2>2
<1>5. Ahead(seen, due, u, i)
  BY <1>3, <1>4 DEF Ahead
<1> QED BY <1>5 DEF u

(* The list without the entry after place i, which is no longer due.       *)
LEMMA AheadCut ==
  ASSUME NEW seen \in Seq(Entries), NEW due \in Seq(Entries), NEW t \in Seq(Entries),
         NEW i \in 1 .. Len(t), i + 1 \in 1 .. Len(t), Ahead(seen, due, t, i),
         \A j, k \in 1 .. Len(due) : due[j] = due[k] => j = k
  PROVE  LET rest == RemoveAt(due, PlaceOf(t[i + 1], due))
         IN /\ rest \in Seq(Entries)
            /\ \A j, k \in 1 .. Len(rest) : rest[j] = rest[k] => j = k
            /\ Ahead(seen, rest, Removed(t, i + 1), i)
<1> DEFINE p == Len(seen) + 2
           u == Removed(t, i + 1)
           rest == Removed(due, p)
<1>1. Len(seen) \in Nat /\ Len(due) \in Nat /\ Len(t) \in Nat
  OBVIOUS
<1>2. p \in 1 .. Len(due) /\ due[p] = t[i + 1]
  <2>1. Len(seen) + 1 + (i + 1) - i = p /\ i + 1 \in i .. Len(t)
    BY <1>1
  <2>2. due[Len(seen) + 1 + (i + 1) - i] = t[i + 1]
    BY <2>1 DEF Ahead
  <2>3. p \in 1 .. Len(due)
    BY <1>1 DEF Ahead
  <2> QED BY <2>1, <2>2, <2>3
<1> HIDE DEF p
<1>3. PlaceOf(t[i + 1], due) = p /\ RemoveAt(due, p) = rest
  BY <1>2, PlaceIs, RemoveAtIs
<1>4. /\ u \in Seq(Entries) /\ Len(u) = Len(t) - 1
      /\ \A k \in 1 .. Len(t) - 1 : u[k] = IF k < i + 1 THEN t[k] ELSE t[k + 1]
  BY RemovedIs
<1>5. /\ rest \in Seq(Entries) /\ Len(rest) = Len(due) - 1
      /\ \A k \in 1 .. Len(due) - 1 : rest[k] = IF k < p THEN due[k] ELSE due[k + 1]
  BY <1>2, RemovedIs
<1> HIDE DEF u, rest
<1>6. \A j, k \in 1 .. Len(rest) : rest[j] = rest[k] => j = k
  <2> SUFFICES ASSUME NEW j \in 1 .. Len(rest), NEW k \in 1 .. Len(rest), rest[j] = rest[k]
               PROVE  j = k
    OBVIOUS
  <2> DEFINE P(x) == IF x < p THEN x ELSE x + 1
  <2>1. P(j) \in 1 .. Len(due) /\ P(k) \in 1 .. Len(due) /\ due[P(j)] = due[P(k)]
    BY <1>1, <1>2, <1>5
  <2>2. P(j) = P(k)
    <3> HIDE DEF P
    <3> QED BY <2>1
  <2> QED BY <1>1, <1>2, <1>5, <2>2
<1>7. Len(rest) = Len(seen) + Len(u) + 1 - i
  BY <1>1, <1>4, <1>5 DEF Ahead
<1>8. \A k \in 1 .. Len(seen) : rest[k] = seen[k]
  <2> TAKE k \in 1 .. Len(seen)
  <2>1. k < p /\ k \in 1 .. Len(due) - 1
    BY <1>1, <1>2 DEF p
  <2> QED BY <1>5, <2>1 DEF Ahead
<1>9. \A k \in i .. Len(u) : rest[Len(seen) + 1 + k - i] = u[k]
  <2> TAKE k \in i .. Len(u)
  <2> DEFINE q == Len(seen) + 1 + k - i
  <2>1. q \in 1 .. Len(due) - 1 /\ k \in 1 .. Len(t) - 1
    BY <1>1, <1>4 DEF Ahead
  <2>2. CASE k = i
    <3>1. q < p /\ k < i + 1 /\ k \in i .. Len(t)
      BY <1>1, <2>2 DEF p
    <3> QED BY <1>4, <1>5, <2>1, <3>1 DEF Ahead
  <2>3. CASE k # i
    <3>1. /\ ~ (q < p) /\ ~ (k < i + 1) /\ k + 1 \in i .. Len(t)
          /\ q + 1 = Len(seen) + 1 + (k + 1) - i
      BY <1>1, <1>4, <2>1, <2>3 DEF p
    <3>2. due[q + 1] = t[k + 1]
      BY <3>1 DEF Ahead
    <3> QED BY <1>4, <1>5, <2>1, <3>1, <3>2
  <2> QED BY <2>2, <2>3
<1>10. Ahead(seen, rest, u, i)
  BY <1>7, <1>8, <1>9 DEF Ahead
<1> QED BY <1>3, <1>5, <1>6, <1>10 DEF u

(* Taking out an entry takes it out of the list, along either direction.   *)
LEMMA TakenOut ==
  ASSUME NEW m, NEW l, Ring(m, l), NEW dir \in Dirs, NEW h \in Heads \cap l,
         NEW t, Chained(View(m, dir), h, t), NEW i \in 1 .. Len(t)
  PROVE  /\ t[i] \in Entries \cap l
         /\ Chained(View(list_del_entry(m, t[i]), dir), h, Removed(t, i))
         /\ Chained(View(list_del(m, t[i]), dir), h, Removed(t, i))
         /\ Chained(View(list_del_init(m, t[i]), dir), h, Removed(t, i))
<1> DEFINE e == t[i]
           v == View(m, dir)
           d == list_del_entry(m, e)
<1>1. /\ Ring(v, l) /\ v.next = m[dir] /\ t \in Seq(Entries) /\ Len(t) \in Nat
  BY ViewIs DEF Chained
<1>2. /\ i \in 0 .. Len(t) /\ i - 1 \in 0 .. Len(t) /\ (i - 1) + 1 = i
      /\ i \in 0 .. Len(t) + 1 /\ NodeAt(h, t, i) = e /\ e \in Entries
  BY <1>1 DEF NodeAt
<1>3. v.next[e] = NodeAt(h, t, i + 1) /\ v.prev[e] = NodeAt(h, t, i - 1) /\ e \in l
  <2> HIDE DEF v, e
  <2> QED BY <1>1, <1>2, Along DEF v
<1>4. e \in Nodes /\ m.next \in Links /\ m.prev \in Links /\ m.prev[e] \in Nodes /\ m.next[e] \in Nodes
  BY <1>3 DEF Ring, Memory
<1>5. /\ Ring(d, l \ {e}) /\ Ring(list_del(m, e), l \ {e}) /\ Ring(list_del_init(m, e), l)
  BY <1>3, UnlinkKeepsRing, DelKeepsRing, DelInitKeepsRing
<1>6. /\ View(d, dir).next = d[dir]
      /\ View(list_del(m, e), dir).next = list_del(m, e)[dir]
      /\ View(list_del_init(m, e), dir).next = list_del_init(m, e)[dir]
  BY <1>5, ViewIs
<1>7. \A x \in Nodes : d[dir][x] = IF x = v.prev[e] THEN v.next[e] ELSE v.next[x]
  <2>1. CASE dir = "next"
    BY <1>4, <2>1 DEF list_del_entry, list_del_between, Links, View
  <2>2. CASE dir = "prev"
    BY <1>4, <2>2 DEF list_del_entry, list_del_between, Links, View
  <2> QED BY <2>1, <2>2 DEF Dirs
<1>8. \A x \in Nodes \ {e} : list_del(m, e)[dir][x] = d[dir][x]
                             /\ list_del_init(m, e)[dir][x] = d[dir][x]
  <2>1. d.next \in Links /\ d.prev \in Links
    BY <1>5 DEF Ring, Memory
  <2> HIDE DEF d
  <2>2. /\ list_del(m, e) = [next |-> [d.next EXCEPT ![e] = LIST_POISON1],
                             prev |-> [d.prev EXCEPT ![e] = LIST_POISON2]]
        /\ list_del_init(m, e) = [next |-> [d.next EXCEPT ![e] = e],
                                  prev |-> [d.prev EXCEPT ![e] = e]]
    BY DEF list_del, list_del_init, INIT_LIST_HEAD, d
  <2>3. CASE dir = "next"
    BY <1>4, <2>1, <2>2, <2>3 DEF Links
  <2>4. CASE dir = "prev"
    BY <1>4, <2>1, <2>2, <2>4 DEF Links
  <2> QED BY <2>3, <2>4 DEF Dirs
<1>9. Owned(h, t) \subseteq Nodes
  BY <1>1, OwnedNodes
<1>10. ASSUME NEW m2, \A x \in Nodes \ {e} : View(m2, dir).next[x] = d[dir][x]
       PROVE  Chained(View(m2, dir), h, Removed(t, i))
  <2> DEFINE w == View(m2, dir)
  <2>1. \A x \in Owned(h, t) \ {t[i]} :
          w.next[x] = IF x = NodeAt(h, t, i - 1) THEN NodeAt(h, t, i + 1) ELSE v.next[x]
    BY <1>3, <1>7, <1>9, <1>10
  <2> HIDE DEF v, w
  <2> QED BY <1>1, <2>1, UnlinkRemoves DEF v, w
<1> HIDE DEF d
<1>11. Chained(View(d, dir), h, Removed(t, i))
  BY <1>6, <1>10
<1>12. Chained(View(list_del(m, e), dir), h, Removed(t, i))
  BY <1>6, <1>8, <1>10
<1>13. Chained(View(list_del_init(m, e), dir), h, Removed(t, i))
  BY <1>6, <1>8, <1>10
<1> QED BY <1>2, <1>3, <1>11, <1>12, <1>13 DEF d

(* Linking a node into another list does not touch the list of h.          *)
LEMMA LinkedElsewhere ==
  ASSUME NEW m, NEW l, Ring(m, l), NEW dir \in Dirs, NEW h \in Heads \cap l,
         NEW t, Chained(View(m, dir), h, t), NEW g \in Heads \cap l, g # h,
         NEW e \in Entries, e \notin l
  PROVE  /\ Chained(View(list_add(m, e, g), dir), h, t)
         /\ Chained(View(list_add_tail(m, e, g), dir), h, t)
<1> DEFINE v == View(m, dir)
           N == {e, g, m.next[g], m.prev[g]}
<1>1. Ring(v, l) /\ v.next = m[dir]
  BY ViewIs
<1>2. Owned(h, t) \subseteq l /\ Owned(h, t) \subseteq Nodes
  BY <1>1, OwnedNodes
<1>3. g \notin Owned(h, t)
  <2> SUFFICES ASSUME NEW k \in 0 .. Len(t), g = NodeAt(h, t, k) PROVE FALSE
    BY DEF Owned
  <2>1. NodeAt(h, t, k) \in Entries \cup {h}
    BY <1>1, Along DEF NodeAt
  <2> QED BY <2>1, ListsAssumption
<1>4. v.prev[g] \notin Owned(h, t) /\ v.next[g] \notin Owned(h, t)
  <2> HIDE DEF v
  <2> QED BY <1>1, <1>3, Outside DEF v
<1>5. m.prev[g] \notin Owned(h, t) /\ m.next[g] \notin Owned(h, t)
  <2>1. CASE dir = "next"
    BY <1>4, <2>1 DEF View
  <2>2. CASE dir = "prev"
    BY <1>4, <2>2 DEF View
  <2> QED BY <2>1, <2>2 DEF Dirs
<1>6. \A x \in Owned(h, t) : x \notin N
  BY <1>2, <1>3, <1>5
<1>7. /\ e \in Nodes /\ g \in Nodes /\ m.next \in Links /\ m.prev \in Links
      /\ m.next[g] \in Nodes /\ m.prev[g] \in Nodes
  BY DEF Ring, Memory, Nodes
<1>8. \A x \in Nodes \ N : list_add(m, e, g)[dir][x] = m[dir][x]
                           /\ list_add_tail(m, e, g)[dir][x] = m[dir][x]
  <2>1. CASE dir = "next"
    BY <1>7, <2>1 DEF list_add, list_add_tail, list_add_between, Links
  <2>2. CASE dir = "prev"
    BY <1>7, <2>2 DEF list_add, list_add_tail, list_add_between, Links
  <2> QED BY <2>1, <2>2 DEF Dirs
<1>9. e # g /\ (e \notin l \/ m.next[e] = e)
  BY ListsAssumption
<1>10. Ring(list_add(m, e, g), l \cup {e}) /\ Ring(list_add_tail(m, e, g), l \cup {e})
  BY <1>7, <1>9, AddKeepsIInv
<1>11. /\ View(list_add(m, e, g), dir).next = list_add(m, e, g)[dir]
       /\ View(list_add_tail(m, e, g), dir).next = list_add_tail(m, e, g)[dir]
  BY <1>10, ViewIs
<1>12. \A x \in Owned(h, t) : /\ View(list_add(m, e, g), dir).next[x] = v.next[x]
                              /\ View(list_add_tail(m, e, g), dir).next[x] = v.next[x]
  <2> HIDE DEF N, v
  <2> QED BY <1>1, <1>2, <1>6, <1>8, <1>11
<1> HIDE DEF v
<1> QED BY <1>12, Untouched DEF v

(* An entry moved to another list is taken out of the one walked.          *)
LEMMA MovedOut ==
  ASSUME NEW m, NEW l, Ring(m, l), NEW dir \in Dirs, NEW h \in Heads \cap l,
         NEW t, Chained(View(m, dir), h, t), NEW i \in 1 .. Len(t),
         NEW g \in Heads \cap l, g # h
  PROVE  /\ Chained(View(list_move(m, t[i], g), dir), h, Removed(t, i))
         /\ Chained(View(list_move_tail(m, t[i], g), dir), h, Removed(t, i))
<1> DEFINE e == t[i]
           d == list_del_entry(m, e)
<1>1. e \in Entries \cap l /\ Chained(View(d, dir), h, Removed(t, i))
  BY TakenOut
<1>2. Ring(d, l \ {e})
  BY <1>1, UnlinkKeepsRing
<1>3. h \in Heads \cap (l \ {e}) /\ g \in Heads \cap (l \ {e}) /\ e \notin l \ {e}
  BY <1>1, ListsAssumption
<1> HIDE DEF d, e
<1>4. /\ Chained(View(list_add(d, e, g), dir), h, Removed(t, i))
      /\ Chained(View(list_add_tail(d, e, g), dir), h, Removed(t, i))
  BY <1>1, <1>2, <1>3, LinkedElsewhere
<1> QED BY <1>4 DEF list_move, list_move_tail, d, e

-----------------------------------------------------------------------------
(* A loop stands at place i of the list t of its head, the safe forms have *)
(* read the node after it, and what is due but not seen is from there on.  *)
Stands(m, w, t, i) ==
  /\ Chained(View(m, w.dir), w.head, t) /\ i \in 1 .. Len(t) + 1
  /\ w.pos = NodeAt(w.head, t, i)
  /\ w.n = IF w.safe THEN m[w.dir][w.pos] ELSE w.pos
  /\ Ahead(w.seen, w.due, t, i)

(* A walk at its place, of the type a walk has.                            *)
Walking(m, l, w) ==
  /\ w \in Walks /\ w.head \in l /\ w.pos \in l /\ w.n \in l
  /\ \A j, k \in 1 .. Len(w.due) : w.due[j] = w.due[k] => j = k
  /\ \E t : \E i : Stands(m, w, t, i)

(* To walk is to stand at a place of some list.                            *)
LEMMA StandsWalks ==
  ASSUME NEW m, NEW l, Ring(m, l), NEW w, NEW t, NEW i, Stands(m, w, t, i),
         w = [dir |-> w.dir, safe |-> w.safe, head |-> w.head, pos |-> w.pos,
              n |-> w.n, seen |-> w.seen, due |-> w.due],
         w.dir \in Dirs, w.safe \in BOOLEAN, w.head \in Heads \cap l,
         w.seen \in Seq(Entries), w.due \in Seq(Entries),
         \A j, k \in 1 .. Len(w.due) : w.due[j] = w.due[k] => j = k
  PROVE  Walking(m, l, w)
<1>1. Ring(View(m, w.dir), l) /\ View(m, w.dir).next = m[w.dir]
  BY ViewIs
<1>2. w.pos \in l
  <2>1. i \in 0 .. Len(t) + 1 /\ Chained(View(m, w.dir), w.head, t)
    BY DEF Stands
  <2>2. NodeAt(w.head, t, i) \in l
    BY <1>1, <2>1, Along
  <2> QED BY <2>2 DEF Stands
<1>3. w.n \in l
  <2>1. m[w.dir][w.pos] \in l
    BY <1>1, <1>2 DEF Ring
  <2> QED BY <1>2, <2>1 DEF Stands
<1>4. w \in Walks
  <2>1. w.pos \in Nodes /\ w.n \in Nodes
    BY <1>2, <1>3 DEF Ring
  <2> QED BY <2>1 DEF Walks, Dirs
<1> QED BY <1>2, <1>3, <1>4 DEF Walking

(* A loop starts before the first entry with all of them due.              *)
LEMMA StartWalks ==
  ASSUME NEW m, NEW l, Ring(m, l), NEW dir \in Dirs, NEW safe \in BOOLEAN,
         NEW h \in Heads \cap l, NEW t, Chained(View(m, dir), h, t),
         NEW i \in 1 .. Len(t) + 1, NEW first, first = NodeAt(h, t, i)
  PROVE  Walking(m, l, [dir |-> dir, safe |-> safe, head |-> h, pos |-> first,
                        n |-> IF safe THEN m[dir][first] ELSE first,
                        seen |-> <<>>, due |-> Chain(m, dir, first)])
<1> DEFINE due == Chain(m, dir, first)
           w == [dir |-> dir, safe |-> safe, head |-> h, pos |-> first,
                 n |-> IF safe THEN m[dir][first] ELSE first, seen |-> <<>>, due |-> due]
<1>1. /\ due \in Seq(Entries) /\ Len(due) = Len(t) + 1 - i
      /\ \A k \in 1 .. Len(due) : due[k] = t[i + k - 1]
  BY ChainFrom
<1>2. t \in Seq(Entries) /\ Len(t) \in Nat /\ \A j, k \in 1 .. Len(t) : t[j] = t[k] => j = k
  BY DEF Chained
<1> HIDE DEF due
<1>3. \A j, k \in 1 .. Len(due) : due[j] = due[k] => j = k
  <2> SUFFICES ASSUME NEW j \in 1 .. Len(due), NEW k \in 1 .. Len(due), due[j] = due[k]
               PROVE  j = k
    OBVIOUS
  <2>1. i + j - 1 \in 1 .. Len(t) /\ i + k - 1 \in 1 .. Len(t) /\ t[i + j - 1] = t[i + k - 1]
    BY <1>1, <1>2
  <2>2. i + j - 1 = i + k - 1
    BY <1>2, <2>1
  <2> QED BY <1>1, <1>2, <2>2
<1>4. Ahead(<<>>, due, t, i)
  <2>1. Len(due) = Len(<<>>) + Len(t) + 1 - i
    BY <1>1, <1>2
  <2>2. \A k \in i .. Len(t) : due[Len(<<>>) + 1 + k - i] = t[k]
    <3> TAKE k \in i .. Len(t)
    <3>1. Len(<<>>) + 1 + k - i \in 1 .. Len(due) /\ i + (Len(<<>>) + 1 + k - i) - 1 = k
      BY <1>1, <1>2
    <3> QED BY <1>1, <3>1
  <2> QED BY <2>1, <2>2 DEF Ahead
<1>5. Stands(m, w, t, i)
  BY <1>4 DEF Stands
<1>6. /\ w.dir = dir /\ w.safe = safe /\ w.head = h /\ w.seen = <<>> /\ w.due = due
      /\ w = [dir |-> w.dir, safe |-> w.safe, head |-> w.head, pos |-> w.pos,
              n |-> w.n, seen |-> w.seen, due |-> w.due]
  OBVIOUS
<1> HIDE DEF w
<1>7. /\ w.dir \in Dirs /\ w.safe \in BOOLEAN /\ w.head \in Heads \cap l
      /\ w.seen \in Seq(Entries) /\ w.due \in Seq(Entries)
      /\ \A j, k \in 1 .. Len(w.due) : w.due[j] = w.due[k] => j = k
  BY <1>1, <1>3, <1>6
<1>8. Walking(m, l, w)
  BY <1>5, <1>6, <1>7, StandsWalks
<1> QED BY <1>8 DEF w, due

(* A walk with its position and its entries seen replaced.                 *)
LEMMA ExceptIs ==
  ASSUME NEW dir, NEW safe, NEW head, NEW pos, NEW n, NEW seen, NEW due,
         NEW pos2, NEW n2, NEW seen2, NEW due2
  PROVE  [[dir |-> dir, safe |-> safe, head |-> head, pos |-> pos, n |-> n,
           seen |-> seen, due |-> due]
            EXCEPT !.seen = seen2, !.due = due2, !.pos = pos2, !.n = n2]
         = [dir |-> dir, safe |-> safe, head |-> head, pos |-> pos2, n |-> n2,
            seen |-> seen2, due |-> due2]
<1> DEFINE w == [dir |-> dir, safe |-> safe, head |-> head, pos |-> pos, n |-> n,
                 seen |-> seen, due |-> due]
           w1 == [w EXCEPT !.seen = seen2]
           w2 == [w1 EXCEPT !.due = due2]
           w3 == [w2 EXCEPT !.pos = pos2]
           w4 == [w3 EXCEPT !.n = n2]
<1>1. [w EXCEPT !.seen = seen2, !.due = due2, !.pos = pos2, !.n = n2] = w4
  <2> HIDE DEF w
  <2> QED OBVIOUS
<1>2. w1 = [dir |-> dir, safe |-> safe, head |-> head, pos |-> pos, n |-> n,
            seen |-> seen2, due |-> due]
  OBVIOUS
<1> HIDE DEF w1
<1>3. w2 = [dir |-> dir, safe |-> safe, head |-> head, pos |-> pos, n |-> n,
            seen |-> seen2, due |-> due2]
  BY <1>2
<1> HIDE DEF w2
<1>4. w3 = [dir |-> dir, safe |-> safe, head |-> head, pos |-> pos2, n |-> n,
            seen |-> seen2, due |-> due2]
  BY <1>3
<1> HIDE DEF w3
<1>5. w4 = [dir |-> dir, safe |-> safe, head |-> head, pos |-> pos2, n |-> n2,
            seen |-> seen2, due |-> due2]
  BY <1>4
<1> QED BY <1>1, <1>5 DEF w

(* The rest of the loop, after a body that left m2, t2 and due2.           *)
LEMMA AdvanceWalks ==
  ASSUME NEW m, NEW l, NEW w, Walking(m, l, w),
         NEW m2, NEW l2, Ring(m2, l2), w.head \in l2,
         NEW t2, NEW i2 \in 1 .. Len(t2) + 1, Chained(View(m2, w.dir), w.head, t2),
         NEW due2 \in Seq(Entries),
         \A j, k \in 1 .. Len(due2) : due2[j] = due2[k] => j = k,
         w.pos \in Entries, Ahead(Append(w.seen, w.pos), due2, t2, i2),
         NEW pos2, pos2 = NodeAt(w.head, t2, i2),
         NEW n2, n2 = IF w.safe THEN m2[w.dir][pos2] ELSE pos2
  PROVE  Walking(m2, l2, [w EXCEPT !.seen = Append(@, w.pos), !.due = due2,
                                   !.pos = pos2, !.n = n2])
<1> DEFINE u == [w EXCEPT !.seen = Append(@, w.pos), !.due = due2, !.pos = pos2, !.n = n2]
<1>1. w \in Walks
  BY DEF Walking
<1>2. /\ w.dir \in Dirs /\ w.safe \in BOOLEAN /\ w.head \in Heads /\ w.seen \in Seq(Entries)
      /\ w = [dir |-> w.dir, safe |-> w.safe, head |-> w.head, pos |-> w.pos,
              n |-> w.n, seen |-> w.seen, due |-> w.due]
  BY <1>1 DEF Walks, Dirs
<1>3. u = [dir |-> w.dir, safe |-> w.safe, head |-> w.head, pos |-> pos2,
           n |-> n2, seen |-> Append(w.seen, w.pos), due |-> due2]
  <2> DEFINE dir == w.dir  safe == w.safe  head == w.head  pos == w.pos  n == w.n
             seen == w.seen  due == w.due  more == Append(seen, pos)
  <2>1. w = [dir |-> dir, safe |-> safe, head |-> head, pos |-> pos, n |-> n,
             seen |-> seen, due |-> due]
    BY <1>2
  <2>2. u = [w EXCEPT !.seen = more, !.due = due2, !.pos = pos2, !.n = n2]
    OBVIOUS
  <2> HIDE DEF u, dir, safe, head, pos, n, seen, due, more
  <2>3. u = [dir |-> dir, safe |-> safe, head |-> head, pos |-> pos2, n |-> n2,
             seen |-> more, due |-> due2]
    BY <2>1, <2>2, ExceptIs
  <2> QED BY <2>3 DEF dir, safe, head, seen, pos, more
<1> HIDE DEF u
<1>4. /\ u.dir = w.dir /\ u.safe = w.safe /\ u.head = w.head /\ u.pos = pos2
      /\ u.n = n2 /\ u.seen = Append(w.seen, w.pos) /\ u.due = due2
      /\ u = [dir |-> u.dir, safe |-> u.safe, head |-> u.head, pos |-> u.pos,
              n |-> u.n, seen |-> u.seen, due |-> u.due]
  BY <1>3
<1>5. Stands(m2, u, t2, i2)
  BY <1>4 DEF Stands
<1>6. u.seen \in Seq(Entries)
  BY <1>2, <1>4, AppendProperties
<1>7. Walking(m2, l2, u)
  BY <1>2, <1>4, <1>5, <1>6, StandsWalks
<1> QED BY <1>7 DEF u

-----------------------------------------------------------------------------
(* The inductive invariant of the loops: a walk that has begun stands      *)
(* somewhere.                                                              *)
WalkInv == walk # NoWalk => Walking(mem, live, walk)

(* The loops of list.h start standing at the first entry,                  *)
LEMMA Starts ==
  ASSUME ListInv, NEW dir \in Dirs, NEW safe \in BOOLEAN, NEW h \in Heads \cap live,
         NEW t, Chained(View(mem, dir), h, t), NEW i \in 1 .. Len(t) + 1,
         Start(dir, safe, NodeAt(h, t, i), h)
  PROVE  WalkInv'
<1>1. Ring(mem, live)
  BY DEF ListInv, Holds
<1>2. /\ mem' = mem /\ live' = live
      /\ walk' = [dir |-> dir, safe |-> safe, head |-> h, pos |-> NodeAt(h, t, i),
                  n |-> IF safe THEN mem[dir][NodeAt(h, t, i)] ELSE NodeAt(h, t, i),
                  seen |-> <<>>, due |-> Chain(mem, dir, NodeAt(h, t, i))]
  BY DEF Start
<1>3. Walking(mem, live, walk')
  BY <1>1, <1>2, StartWalks
<1> QED BY <1>2, <1>3 DEF WalkInv

(* whichever loop it is.                                                   *)
LEMMA LoopsStart ==
  ASSUME ListInv, NEW h \in Heads, NEW safe \in BOOLEAN
  PROVE  /\ \A dir \in Dirs : ForEach(dir, safe, h) => WalkInv'
         /\ \A dir \in Dirs, pos \in Entries : ForEachContinue(dir, safe, pos, h) => WalkInv'
         /\ \A pos \in Entries : ForEachFrom(safe, pos, h) => WalkInv'
<1> SUFFICES ASSUME h \in live
             PROVE  /\ \A dir \in Dirs : ForEach(dir, safe, h) => WalkInv'
                    /\ \A dir \in Dirs, pos \in Entries :
                         ForEachContinue(dir, safe, pos, h) => WalkInv'
                    /\ \A pos \in Entries : ForEachFrom(safe, pos, h) => WalkInv'
  BY DEF ForEach, ForEachContinue, ForEachFrom
<1>1. ASSUME NEW dir \in Dirs
      PROVE  \E t : /\ Chained(View(mem, dir), h, t) /\ Len(t) \in Nat
                    /\ \A e \in Members(h) : \E i \in 1 .. Len(t) : t[i] = e
                    /\ \A k \in 0 .. Len(t) : mem[dir][NodeAt(h, t, k)] = NodeAt(h, t, k + 1)
  <2>1. PICK t : /\ Chained(View(mem, dir), h, t)
                 /\ \A e : Has(EntriesOf[h], e) => \E i \in 1 .. Len(t) : t[i] = e
    BY EitherWay DEF ListInv
  <2>2. View(mem, dir).next = mem[dir]
    BY ViewIs DEF ListInv, Holds
  <2>3. /\ Len(t) \in Nat
        /\ \A k \in 0 .. Len(t) : mem[dir][NodeAt(h, t, k)] = NodeAt(h, t, k + 1)
    BY <2>1, <2>2 DEF Chained
  <2> QED BY <2>1, <2>3, MembersAre
<1>2. ASSUME NEW dir \in Dirs, ForEach(dir, safe, h) PROVE WalkInv'
  <2>1. PICK t : /\ Chained(View(mem, dir), h, t) /\ Len(t) \in Nat
                 /\ \A k \in 0 .. Len(t) : mem[dir][NodeAt(h, t, k)] = NodeAt(h, t, k + 1)
    BY <1>1
  <2>2. 0 \in 0 .. Len(t) /\ 0 + 1 = 1 /\ 1 \in 1 .. Len(t) + 1 /\ NodeAt(h, t, 0) = h
    BY <2>1 DEF NodeAt
  <2>3. Start(dir, safe, NodeAt(h, t, 1), h)
    BY <1>2, <2>1, <2>2 DEF ForEach
  <2> QED BY <2>1, <2>2, <2>3, Starts
<1>3. ASSUME NEW dir \in Dirs, NEW pos \in Entries, ForEachContinue(dir, safe, pos, h)
      PROVE  WalkInv'
  <2>1. PICK t : /\ Chained(View(mem, dir), h, t) /\ Len(t) \in Nat
                 /\ \A e \in Members(h) : \E i \in 1 .. Len(t) : t[i] = e
                 /\ \A k \in 0 .. Len(t) : mem[dir][NodeAt(h, t, k)] = NodeAt(h, t, k + 1)
    BY <1>1
  <2>2. PICK i \in 1 .. Len(t) : t[i] = pos
    BY <1>3, <2>1 DEF ForEachContinue
  <2>3. i \in 0 .. Len(t) /\ i + 1 \in 1 .. Len(t) + 1 /\ NodeAt(h, t, i) = pos
    BY <2>1, <2>2 DEF NodeAt
  <2>4. Start(dir, safe, NodeAt(h, t, i + 1), h)
    BY <1>3, <2>1, <2>3 DEF ForEachContinue
  <2> QED BY <2>1, <2>3, <2>4, Starts
<1>4. ASSUME NEW pos \in Entries, ForEachFrom(safe, pos, h) PROVE WalkInv'
  <2>1. "next" \in Dirs
    BY DEF Dirs
  <2>2. PICK t : /\ Chained(View(mem, "next"), h, t) /\ Len(t) \in Nat
                 /\ \A e \in Members(h) : \E i \in 1 .. Len(t) : t[i] = e
    BY <1>1, <2>1
  <2>3. PICK i \in 1 .. Len(t) : t[i] = pos
    BY <1>4, <2>2 DEF ForEachFrom
  <2>4. i \in 1 .. Len(t) + 1 /\ NodeAt(h, t, i) = pos
    BY <2>2, <2>3 DEF NodeAt
  <2>5. Start("next", safe, NodeAt(h, t, i), h)
    BY <1>4, <2>4 DEF ForEachFrom
  <2> QED BY <2>1, <2>2, <2>4, <2>5, Starts
<1> QED BY <1>2, <1>3, <1>4

(* Where the body is: at an entry of the list, which Append adds to seen.  *)
BodyStands(t, i) ==
  /\ Chained(View(mem, walk.dir), walk.head, t) /\ t \in Seq(Entries) /\ Len(t) \in Nat
  /\ i \in 1 .. Len(t) /\ t[i] = walk.pos
  /\ Ahead(walk.seen, walk.due, t, i)
  /\ Ahead(Append(walk.seen, walk.pos), walk.due, t, i + 1)
  /\ mem[walk.dir][walk.pos] = NodeAt(walk.head, t, i + 1)
  /\ walk.safe => walk.n = NodeAt(walk.head, t, i + 1)

(* The types of a walk.                                                    *)
LEMMA WalkTypes ==
  ASSUME WalkInv, InBody
  PROVE  /\ walk.dir \in Dirs /\ walk.safe \in BOOLEAN /\ walk.head \in Heads \cap live
         /\ walk.pos \in Entries \cap live /\ walk.n \in live
         /\ walk.seen \in Seq(Entries) /\ walk.due \in Seq(Entries)
         /\ Append(walk.seen, walk.pos) \in Seq(Entries)
         /\ \A j, k \in 1 .. Len(walk.due) : walk.due[j] = walk.due[k] => j = k
<1>1. Walking(mem, live, walk) /\ walk.pos \in Entries \cap live
  BY DEF WalkInv, InBody
<1>2. /\ walk.dir \in Dirs /\ walk.safe \in BOOLEAN /\ walk.head \in Heads
      /\ walk.seen \in Seq(Entries) /\ walk.due \in Seq(Entries)
  BY <1>1 DEF Walking, Walks, Dirs
<1> QED BY <1>1, <1>2, AppendProperties DEF Walking

(* A body runs at an entry of the list it walks.                           *)
LEMMA BodyIsAtEntry ==
  ASSUME ListInv, WalkInv, InBody
  PROVE  \E t : \E i : BodyStands(t, i)
<1> DEFINE h == walk.head
           v == View(mem, walk.dir)
<1>1. /\ walk.dir \in Dirs /\ h \in Heads \cap live /\ walk.pos \in Entries
      /\ walk.seen \in Seq(Entries) /\ walk.due \in Seq(Entries)
  BY WalkTypes
<1>2. PICK t : \E i : Stands(mem, walk, t, i)
  BY DEF WalkInv, InBody, Walking
<1>3. PICK i : Stands(mem, walk, t, i)
  BY <1>2
<1>4. /\ t \in Seq(Entries) /\ Len(t) \in Nat
      /\ \A k \in 0 .. Len(t) : v.next[NodeAt(h, t, k)] = NodeAt(h, t, k + 1)
  BY <1>3 DEF Stands, Chained
<1>5. v.next = mem[walk.dir]
  BY <1>1, ViewIs DEF ListInv, Holds
<1>6. i \in 1 .. Len(t) /\ t[i] = walk.pos
  BY <1>1, <1>3, <1>4, ListsAssumption DEF Stands, NodeAt
<1>7. mem[walk.dir][walk.pos] = NodeAt(h, t, i + 1)
  <2>1. i \in 0 .. Len(t) /\ NodeAt(h, t, i) = walk.pos
    BY <1>4, <1>6 DEF NodeAt
  <2> QED BY <1>4, <1>5, <2>1
<1>8. Ahead(Append(walk.seen, t[i]), walk.due, t, i + 1)
  BY <1>1, <1>3, <1>4, <1>6, AheadOn DEF Stands
<1>9. BodyStands(t, i)
  BY <1>3, <1>4, <1>6, <1>7, <1>8 DEF BodyStands, Stands
<1> QED BY <1>9

(* One step of a loop, whatever the body did.                              *)
LEMMA Advances ==
  ASSUME WalkInv, InBody, ListInv', walk.head \in live',
         NEW n, NEW due2 \in Seq(Entries), Advance(mem', n, due2),
         \A j, k \in 1 .. Len(due2) : due2[j] = due2[k] => j = k,
         NEW t2, NEW i2 \in 1 .. Len(t2) + 1, Chained(View(mem', walk.dir), walk.head, t2),
         Ahead(Append(walk.seen, walk.pos), due2, t2, i2),
         NodeAt(walk.head, t2, i2) = IF walk.safe THEN n ELSE mem'[walk.dir][walk.pos]
  PROVE  WalkInv'
<1> DEFINE pos2 == IF walk.safe THEN n ELSE mem'[walk.dir][walk.pos]
           n2 == IF walk.safe THEN mem'[walk.dir][n] ELSE mem'[walk.dir][walk.pos]
<1>1. walk' = [walk EXCEPT !.seen = Append(@, walk.pos), !.due = due2,
                           !.pos = pos2, !.n = n2]
  BY DEF Advance
<1>2. n2 = IF walk.safe THEN mem'[walk.dir][pos2] ELSE pos2
  OBVIOUS
<1>3. Ring(mem', live') /\ Walking(mem, live, walk) /\ walk.pos \in Entries
  BY DEF ListInv, Holds, WalkInv, InBody
<1> HIDE DEF n2
<1>4. pos2 = NodeAt(walk.head, t2, i2)
  OBVIOUS
<1> HIDE DEF pos2
<1>5. Walking(mem', live', [walk EXCEPT !.seen = Append(@, walk.pos), !.due = due2,
                                        !.pos = pos2, !.n = n2])
  BY <1>2, <1>3, <1>4, AdvanceWalks
<1> QED BY <1>1, <1>5 DEF WalkInv

(* Reading the next entry keeps the walk at its place.                     *)
LEMMA LookWalks == ASSUME ListInv, WalkInv, Look PROVE WalkInv'
<1>1. InBody /\ mem' = mem /\ live' = live /\ Advance(mem', walk.n, walk.due)
  BY DEF Look
<1>2. ListInv'
  BY <1>1, NowHolds DEF ListInv
<1>3. PICK t : \E i : BodyStands(t, i)
  BY <1>1, BodyIsAtEntry
<1>4. PICK i : BodyStands(t, i)
  BY <1>3
<1>5. i + 1 \in 1 .. Len(t) + 1
  BY <1>4 DEF BodyStands
<1>6. NodeAt(walk.head, t, i + 1) = IF walk.safe THEN walk.n ELSE mem'[walk.dir][walk.pos]
  BY <1>1, <1>4 DEF BodyStands
<1>7. Chained(View(mem', walk.dir), walk.head, t)
  BY <1>1, <1>4 DEF BodyStands
<1>8. Ahead(Append(walk.seen, walk.pos), walk.due, t, i + 1)
  BY <1>4 DEF BodyStands
<1>9. walk.head \in live'
  BY <1>1, WalkTypes
<1> QED BY <1>1, <1>2, <1>5, <1>6, <1>7, <1>8, <1>9, WalkTypes, Advances

(* A body that takes pos out.                                              *)
LEMMA TakingOutWalks ==
  ASSUME ListInv, WalkInv, ListInv', InBody, walk.safe, walk.head \in live',
         NEW t, NEW i, BodyStands(t, i), Chained(View(mem', walk.dir), walk.head, Removed(t, i)),
         Advance(mem', walk.n, walk.due)
  PROVE  WalkInv'
<1> DEFINE u == Removed(t, i)
           seen == Append(walk.seen, walk.pos)
<1>1. /\ t \in Seq(Entries) /\ Len(t) \in Nat /\ i \in 1 .. Len(t)
      /\ walk.n = NodeAt(walk.head, t, i + 1) /\ Ahead(seen, walk.due, t, i + 1)
  BY DEF BodyStands
<1>2. seen \in Seq(Entries) /\ walk.due \in Seq(Entries)
  BY WalkTypes
<1>3. /\ Len(u) = Len(t) - 1
      /\ \A k \in 1 .. Len(t) - 1 : u[k] = IF k < i THEN t[k] ELSE t[k + 1]
  BY <1>1, RemovedIs
<1>4. Ahead(seen, walk.due, u, i)
  <2> HIDE DEF seen
  <2> QED BY <1>1, <1>2, AheadTaken
<1> HIDE DEF u
<1>5. i \in 1 .. Len(u) + 1
  BY <1>1, <1>3
<1>6. NodeAt(walk.head, u, i) = walk.n
  <2>1. CASE i = Len(t)
    <3>1. ~ (i \in 1 .. Len(u)) /\ ~ (i + 1 \in 1 .. Len(t))
      BY <1>1, <1>3, <2>1
    <3> QED BY <1>1, <3>1 DEF NodeAt
  <2>2. CASE i # Len(t)
    <3>1. i \in 1 .. Len(u) /\ i + 1 \in 1 .. Len(t) /\ ~ (i < i) /\ i \in 1 .. Len(t) - 1
      BY <1>1, <1>3, <2>2
    <3> QED BY <1>1, <1>3, <3>1 DEF NodeAt
  <2> QED BY <2>1, <2>2
<1>7. Chained(View(mem', walk.dir), walk.head, u)
  BY DEF u
<1>8. NodeAt(walk.head, u, i) = IF walk.safe THEN walk.n ELSE mem'[walk.dir][walk.pos]
  BY <1>6
<1> QED BY <1>2, <1>4, <1>5, <1>7, <1>8, WalkTypes, Advances

(* Bodies that take out their entry leave the walk standing,               *)
LEMMA BodiesWalk ==
  ASSUME ListInv, WalkInv, ListInv',
         DelPos \/ DelInitPos \/ \E g \in Heads : MovePos(g) \/ MoveTailPos(g)
  PROVE  WalkInv'
<1>1. InBody /\ walk.safe /\ Advance(mem', walk.n, walk.due)
  BY DEF DelPos, DelInitPos, MovePos, MoveTailPos, TakeOut
<1>2. PICK t : \E i : BodyStands(t, i)
  BY <1>1, BodyIsAtEntry
<1>3. PICK i : BodyStands(t, i)
  BY <1>2
<1>4. /\ Ring(mem, live) /\ walk.dir \in Dirs /\ walk.head \in Heads \cap live
      /\ walk.pos \in Entries \cap live
      /\ Chained(View(mem, walk.dir), walk.head, t) /\ i \in 1 .. Len(t) /\ t[i] = walk.pos
  BY <1>1, <1>3, WalkTypes DEF BodyStands, ListInv, Holds
<1>5. walk.head # walk.pos
  BY <1>4, ListsAssumption
<1>6. Chained(View(mem', walk.dir), walk.head, Removed(t, i)) /\ walk.head \in live'
  <2>1. CASE DelPos
    <3>1. mem' = list_del(mem, t[i]) /\ live' = live \ {walk.pos}
      BY <1>4, <2>1 DEF DelPos, TakeOut
    <3> QED BY <1>4, <1>5, <3>1, TakenOut
  <2>2. CASE DelInitPos
    <3>1. mem' = list_del_init(mem, t[i]) /\ live' = live
      BY <1>4, <2>2 DEF DelInitPos, TakeOut
    <3> QED BY <1>4, <3>1, TakenOut
  <2>3. ASSUME NEW g \in Heads, MovePos(g) \/ MoveTailPos(g)
        PROVE  Chained(View(mem', walk.dir), walk.head, Removed(t, i)) /\ walk.head \in live'
    <3>1. /\ g \in Heads \cap live /\ g # walk.head /\ live' = live
          /\ mem' = list_move(mem, t[i], g) \/ mem' = list_move_tail(mem, t[i], g)
      BY <1>4, <2>3 DEF MovePos, MoveTailPos, TakeOut
    <3> QED BY <1>4, <3>1, MovedOut
  <2> QED BY <2>1, <2>2, <2>3
<1> QED BY <1>1, <1>3, <1>6, TakingOutWalks

(* and so does the body that takes it out and resets it.                   *)
LEMMA ResettingWalks ==
  ASSUME ListInv, WalkInv, ListInv', DelNextAndReset
  PROVE  WalkInv'
<1> DEFINE due2 == RemoveAt(walk.due, PlaceOf(walk.n, walk.due))
           m == list_del(mem, walk.n)
           seen == Append(walk.seen, walk.pos)
<1>1. /\ InBody /\ walk.safe /\ walk.dir = "next" /\ walk.n \in Entries \cap live
      /\ mem' = m /\ live' = live \ {walk.n} /\ Advance(mem', mem'.next[walk.pos], due2)
  BY DEF DelNextAndReset, PlaceOf
<1>2. PICK t : \E i : BodyStands(t, i)
  BY <1>1, BodyIsAtEntry
<1>3. PICK i : BodyStands(t, i)
  BY <1>2
<1>4. /\ Ring(mem, live) /\ walk.dir \in Dirs /\ walk.head \in Heads \cap live
      /\ walk.seen \in Seq(Entries) /\ walk.due \in Seq(Entries)
      /\ \A j, k \in 1 .. Len(walk.due) : walk.due[j] = walk.due[k] => j = k
  BY <1>1, WalkTypes DEF ListInv, Holds
<1>5. /\ Chained(View(mem, walk.dir), walk.head, t) /\ t \in Seq(Entries) /\ Len(t) \in Nat
      /\ i \in 1 .. Len(t) /\ t[i] = walk.pos /\ Ahead(walk.seen, walk.due, t, i)
      /\ walk.n = NodeAt(walk.head, t, i + 1)
  BY <1>1, <1>3 DEF BodyStands
<1>6. i + 1 \in 1 .. Len(t) /\ t[i + 1] = walk.n
  BY <1>1, <1>4, <1>5, ListsAssumption DEF NodeAt
<1> DEFINE u == Removed(t, i + 1)
<1>7. Chained(View(mem', walk.dir), walk.head, u)
  <2>1. Chained(View(list_del(mem, t[i + 1]), walk.dir), walk.head, Removed(t, i + 1))
    BY <1>4, <1>5, <1>6, TakenOut
  <2> QED BY <1>1, <1>6, <2>1
<1>8. /\ due2 \in Seq(Entries) /\ \A j, k \in 1 .. Len(due2) : due2[j] = due2[k] => j = k
      /\ Ahead(walk.seen, due2, u, i)
  <2>1. i + 1 \in 1 .. Len(t) /\ Ahead(walk.seen, walk.due, t, i)
    BY <1>5, <1>6
  <2>2. LET rest == RemoveAt(walk.due, PlaceOf(t[i + 1], walk.due))
        IN /\ rest \in Seq(Entries)
           /\ \A j, k \in 1 .. Len(rest) : rest[j] = rest[k] => j = k
           /\ Ahead(walk.seen, rest, Removed(t, i + 1), i)
    <3> HIDE DEF due2, u, seen, m
    <3> QED BY <1>4, <1>5, <2>1, AheadCut
  <2> QED BY <1>6, <2>2
<1>9. u \in Seq(Entries) /\ Len(u) = Len(t) - 1 /\ u[i] = t[i] /\ i \in 1 .. Len(u)
  <2>1. /\ u \in Seq(Entries) /\ Len(u) = Len(t) - 1
        /\ \A k \in 1 .. Len(t) - 1 : u[k] = IF k < i + 1 THEN t[k] ELSE t[k + 1]
    BY <1>5, <1>6, RemovedIs
  <2>2. i \in 1 .. Len(t) - 1 /\ i < i + 1
    BY <1>5, <1>6
  <2> QED BY <2>1, <2>2
<1> HIDE DEF u, due2, m
<1>10. Ahead(seen, due2, u, i + 1) /\ i + 1 \in 1 .. Len(u) + 1
  <2>1. Ahead(Append(walk.seen, u[i]), due2, u, i + 1)
    BY <1>4, <1>8, <1>9, AheadOn
  <2> QED BY <1>5, <1>9, <2>1
<1>11. mem'[walk.dir][walk.pos] = NodeAt(walk.head, u, i + 1)
  <2>1. Ring(mem', live') /\ \A k \in 0 .. Len(u) :
          View(mem', walk.dir).next[NodeAt(walk.head, u, k)] = NodeAt(walk.head, u, k + 1)
    BY <1>7 DEF ListInv, Holds, Chained
  <2>2. View(mem', walk.dir).next = mem'[walk.dir]
    BY <1>4, <2>1, ViewIs
  <2>3. i \in 0 .. Len(u) /\ NodeAt(walk.head, u, i) = walk.pos
    BY <1>5, <1>9 DEF NodeAt
  <2> QED BY <2>1, <2>2, <2>3
<1>12. NodeAt(walk.head, u, i + 1)
         = IF walk.safe THEN mem'.next[walk.pos] ELSE mem'[walk.dir][walk.pos]
  BY <1>1, <1>11
<1>13. walk.head \in live'
  BY <1>1, <1>4, ListsAssumption
<1> QED BY <1>1, <1>7, <1>8, <1>10, <1>12, <1>13, Advances

(* Every step keeps a walk standing.                                       *)
LEMMA StepWalkInv == ListInv /\ WalkInv /\ [Next]_vars => WalkInv'
<1> SUFFICES ASSUME ListInv, WalkInv, [Next]_vars PROVE WalkInv'
  OBVIOUS
<1>1. ListInv'
  BY StepListInv
<1>2. ASSUME walk = NoWalk, UNCHANGED walk PROVE WalkInv'
  BY <1>2 DEF WalkInv
<1>3. CASE \E h \in Heads : InitListHead(h) \/ ListRotateLeft(h)
  <2>1. walk = NoWalk /\ UNCHANGED walk
    BY <1>3 DEF Call, InitListHead, ListRotateLeft
  <2> QED BY <1>2, <2>1
<1>4. CASE \E e \in Entries : ListDel(e) \/ ListDelInit(e)
  <2>1. walk = NoWalk /\ UNCHANGED walk
    BY <1>4 DEF Call, ListDel, ListDelInit
  <2> QED BY <1>2, <2>1
<1>5. CASE \E e \in Entries, h \in Heads :
             ListAdd(e, h) \/ ListAddTail(e, h) \/ ListMove(e, h) \/ ListMoveTail(e, h)
  <2>1. walk = NoWalk /\ UNCHANGED walk
    BY <1>5 DEF Call, ListAdd, ListAddTail, ListMove, ListMoveTail
  <2> QED BY <1>2, <2>1
<1>6. CASE \E old, new \in Nodes : ListReplace(old, new) \/ ListReplaceInit(old, new)
  <2>1. walk = NoWalk /\ UNCHANGED walk
    BY <1>6 DEF Call, ListReplace, ListReplaceInit
  <2> QED BY <1>2, <2>1
<1>7. CASE \E list, head \in Heads :
             \/ \E entry \in Nodes : ListCutPosition(list, head, entry)
             \/ ListSplice(list, head) \/ ListSpliceTail(list, head)
             \/ ListSpliceInit(list, head) \/ ListSpliceTailInit(list, head)
  <2>1. walk = NoWalk /\ UNCHANGED walk
    BY <1>7 DEF Call, ListCutPosition, ListSplice, ListSpliceTail, ListSpliceInit,
                        ListSpliceTailInit
  <2> QED BY <1>2, <2>1
<1>8. CASE \E head \in Heads, safe \in BOOLEAN :
             \/ \E dir \in {"next", "prev"} :
                  \/ ForEach(dir, safe, head)
                  \/ \E pos \in Entries : ForEachContinue(dir, safe, pos, head)
             \/ \E pos \in Entries : ForEachFrom(safe, pos, head)
  BY <1>8, LoopsStart DEF Dirs
<1>9. CASE Look
  BY <1>9, LookWalks
<1>10. CASE DelPos \/ DelInitPos \/ \E head \in Heads : MovePos(head) \/ MoveTailPos(head)
  BY <1>1, <1>10, BodiesWalk
<1>11. CASE DelNextAndReset
  BY <1>1, <1>11, ResettingWalks
<1>12. CASE Leave
  BY <1>12 DEF Leave, WalkInv
<1>13. CASE UNCHANGED vars
  BY <1>13 DEF vars, WalkInv
<1> QED BY <1>3, <1>4, <1>5, <1>6, <1>7, <1>8, <1>9, <1>10, <1>11, <1>12, <1>13 DEF Next

(* A walk that stands past the last entry has seen each entry that was     *)
(* due.                                                                    *)
LEMMA WalkSeesAll == ListInv /\ WalkInv => LoopsSeeEveryEntry
<1> SUFFICES ASSUME ListInv, Walking(mem, live, walk)
             PROVE  /\ walk.pos \in live
                    /\ walk.pos = walk.head => walk.seen = walk.due
  BY DEF WalkInv, LoopsSeeEveryEntry
<1>1. /\ walk.head \in Heads /\ walk.seen \in Seq(Entries) /\ walk.due \in Seq(Entries)
      /\ walk.pos \in live
  BY DEF Walking, Walks
<1>2. ASSUME walk.pos = walk.head PROVE walk.seen = walk.due
  <2>1. PICK t : \E i : Stands(mem, walk, t, i)
    BY DEF Walking
  <2>2. PICK i : Stands(mem, walk, t, i)
    BY <2>1
  <2>3. /\ t \in Seq(Entries) /\ Len(t) \in Nat /\ i \in 1 .. Len(t) + 1
        /\ NodeAt(walk.head, t, i) = walk.head
    BY <1>2, <2>2 DEF Stands, Chained
  <2>4. i = Len(t) + 1
    <3> SUFFICES ASSUME i \in 1 .. Len(t) PROVE FALSE
      BY <2>3
    <3>1. t[i] = walk.head /\ t[i] \in Entries
      BY <2>3 DEF NodeAt
    <3> QED BY <1>1, <3>1, ListsAssumption
  <2>5. /\ Len(walk.due) = Len(walk.seen) + Len(t) + 1 - i
        /\ \A k \in 1 .. Len(walk.seen) : walk.due[k] = walk.seen[k]
    BY <2>2 DEF Stands, Ahead
  <2>6. Len(walk.due) = Len(walk.seen)
    <3>1. Len(walk.seen) \in Nat /\ Len(walk.due) = Len(walk.seen) + Len(t) + 1 - i
      BY <1>1, <2>5
    <3>2. ASSUME NEW a \in Nat, NEW b \in Nat PROVE a + b + 1 - (b + 1) = a
      OBVIOUS
    <3> QED BY <2>3, <2>4, <3>1, <3>2
  <2> QED BY <1>1, <2>5, <2>6
<1> QED BY <1>1, <1>2

(* A loop of list.h has met, when it comes to the head, every entry it was *)
(* to meet and its body did not take out ahead of it, once each and in     *)
(* order, the safe loops although their bodies took out the entries they   *)
(* were given.                                                             *)
THEOREM LoopsMeetEveryEntry == Spec => []LoopsSeeEveryEntry
<1>1. Init => WalkInv
  BY DEF Init, WalkInv
<1> QED BY <1>1, InitListInv, StepListInv, StepWalkInv, WalkSeesAll, PTL DEF Spec

(* And every variable keeps its type.                                      *)
THEOREM ListTypes == Spec => []TypeOK
<1>1. ListInv /\ WalkInv => TypeOK
  BY DEF ListInv, WalkInv, Holds, Ring, Walking, TypeOK, Memory, Links
<1>2. Init => WalkInv
  BY DEF Init, WalkInv
<1> QED BY <1>1, <1>2, InitListInv, StepListInv, StepWalkInv, PTL DEF Spec

-----------------------------------------------------------------------------
(* m.first and m.next make the nodes of head h the sequence t.             *)
HRuns(m, h, t) ==
  /\ t \in Seq(HNodes)
  /\ m.first[h] = NodeAt(NULL, t, 1)
  /\ \A i \in 1 .. Len(t) : m.next[t[i]] = NodeAt(NULL, t, i + 1)

(* Memory m holds the sequences S: the hashed nodes are each in one place. *)
HHolds(m, s, S) ==
  /\ Linked(m, s)
  /\ S = [h \in HHeads |-> S[h]]
  /\ \A h \in HHeads : HRuns(m, h, S[h])
  /\ \A h \in HHeads : \A i \in 1 .. Len(S[h]) : S[h][i] \in s
  /\ \A h, g \in HHeads : \A i \in 1 .. Len(S[h]) : \A j \in 1 .. Len(S[g]) :
       S[h][i] = S[g][j] => h = g /\ i = j
  /\ \A n \in s : \E h \in HHeads : \E i \in 1 .. Len(S[h]) : S[h][i] = n

(* The types of the lists of hashed nodes.                                 *)
LEMMA HTypes ==
  ASSUME NEW m, NEW s, NEW S, HHolds(m, s, S), NEW h \in HHeads
  PROVE  /\ S[h] \in Seq(HNodes) /\ Len(S[h]) \in Nat
         /\ \A i \in 1 .. Len(S[h]) : S[h][i] \in HNodes /\ S[h][i] \in s /\ S[h][i] # NULL
         /\ \A i, j \in 1 .. Len(S[h]) : S[h][i] = S[h][j] => i = j
         /\ m.first[h] = NodeAt(NULL, S[h], 1)
         /\ \A i \in 1 .. Len(S[h]) : m.next[S[h][i]] = NodeAt(NULL, S[h], i + 1)
         /\ s \subseteq HNodes
<1>1. S[h] \in Seq(HNodes) /\ s \subseteq HNodes
  BY DEF HHolds, HRuns, Linked
<1> QED BY <1>1, HlistsAssumption DEF HHolds, HRuns

(* A memory holds no hashed lists but the ones it gives.                   *)
LEMMA HHoldsIs ==
  ASSUME NEW m, NEW s, NEW S, HHolds(m, s, S)
  PROVE  [h \in HHeads |-> Nodes_from(m, m.first[h])] = S
<1>1. \A h \in HHeads : Nodes_from(m, m.first[h]) = S[h]
  <2> TAKE h \in HHeads
  <2> DEFINE t == S[h]
             nx == m.next
  <2>1. /\ t \in Seq(HNodes) /\ \A i, j \in 1 .. Len(t) : t[i] = t[j] => i = j
        /\ \A i \in 1 .. Len(t) : nx[t[i]] = NodeAt(NULL, t, i + 1)
        /\ m.first[h] = NodeAt(NULL, t, 1)
    BY HTypes
  <2>2. IsFiniteSet(HNodes) /\ NULL \notin HNodes
    BY HlistsAssumption
  <2> HIDE DEF t, nx
  <2>3. Follow(HNodes, nx, NodeAt(NULL, t, 1)) = t
    BY <2>1, <2>2, FollowFinds
  <2> QED BY <2>1, <2>3, FollowIs DEF t, nx
<1> QED BY <1>1 DEF HHolds

(* A node's pprev names the place before it.                               *)
LEMMA HPrev ==
  ASSUME NEW m, NEW s, NEW S, HHolds(m, s, S), NEW h \in HHeads, NEW i \in 1 .. Len(S[h])
  PROVE  m.pprev[S[h][i]] = IF i = 1 THEN <<"first", h>> ELSE <<"next", S[h][i - 1]>>
<1> DEFINE t == S[h]
<1>1. /\ Len(t) \in Nat /\ \A k \in 1 .. Len(t) : t[k] \in s /\ t[k] # NULL
      /\ m.first[h] = NodeAt(NULL, t, 1)
      /\ \A k \in 1 .. Len(t) : m.next[t[k]] = NodeAt(NULL, t, k + 1)
  BY HTypes
<1> HIDE DEF t
<1>2. CASE i = 1
  <2>1. m.first[h] = t[1] /\ t[1] # NULL
    BY <1>1, <1>2 DEF NodeAt, t
  <2> QED BY <1>2, <2>1 DEF HHolds, Linked, t
<1>3. CASE i # 1
  <2>1. i - 1 \in 1 .. Len(t) /\ i \in 1 .. Len(t) /\ (i - 1) + 1 = i
    BY <1>1, <1>3 DEF t
  <2>2. m.next[t[i - 1]] = t[i] /\ t[i] # NULL /\ t[i - 1] \in s
    BY <1>1, <2>1 DEF NodeAt
  <2> QED BY <1>3, <2>2 DEF HHolds, Linked, t
<1> QED BY <1>2, <1>3

(* What stands where after an insertion.                                   *)
LEMMA InsertedIs ==
  ASSUME NEW E, NEW s \in Seq(E), NEW i \in 0 .. Len(s), NEW e \in E
  PROVE  /\ Inserted(s, i, e) \in Seq(E) /\ Len(Inserted(s, i, e)) = Len(s) + 1
         /\ \A k \in 1 .. Len(s) + 1 :
              Inserted(s, i, e)[k] = IF k <= i THEN s[k] ELSE IF k = i + 1 THEN e ELSE s[k - 1]
<1>1. Len(s) \in Nat /\ \A k \in 1 .. Len(s) : s[k] \in E
  OBVIOUS
<1>2. \A k \in 1 .. Len(s) + 1 : /\ k <= i => k \in 1 .. Len(s)
                                 /\ ~ (k <= i) /\ k # i + 1 => k - 1 \in 1 .. Len(s)
  BY <1>1
<1>3. Len(s) + 1 \in Nat
  BY <1>1
<1> QED BY <1>1, <1>2, <1>3 DEF Inserted

(* Putting node n in behind place i of h's nodes.                          *)
(* The pointers of m2 are those of m, which holds the lists S of the hashed  *)
(* nodes s, but for n standing after the i-th node of the list h.            *)
Inserts(m, s, S, h, i, n, m2) ==
  /\ \A g \in HHeads : m2.first[g] = IF g = h /\ i = 0 THEN n ELSE m.first[g]
  /\ m2.next[n] = NodeAt(NULL, S[h], i + 1)
  /\ \A x \in s : m2.next[x] = IF i # 0 /\ x = S[h][i] THEN n ELSE m.next[x]

(* A node linked after the i-th of a list is inserted into it.             *)
LEMMA HInsertHolds ==
  ASSUME NEW m, NEW s, NEW S, HHolds(m, s, S), NEW h \in HHeads, NEW i \in 0 .. Len(S[h]),
         NEW n \in HNodes, n \notin s, NEW m2, Linked(m2, s \cup {n}),
         Inserts(m, s, S, h, i, n, m2)
  PROVE  HHolds(m2, s \cup {n}, [S EXCEPT ![h] = Inserted(@, i, n)])
<1>0. /\ \A g \in HHeads : m2.first[g] = IF g = h /\ i = 0 THEN n ELSE m.first[g]
      /\ m2.next[n] = NodeAt(NULL, S[h], i + 1)
      /\ \A x \in s : m2.next[x] = IF i # 0 /\ x = S[h][i] THEN n ELSE m.next[x]
  BY DEF Inserts
<1> DEFINE t == S[h]
           u == Inserted(t, i, n)
           T == [S EXCEPT ![h] = u]
<1>1. /\ t \in Seq(HNodes) /\ Len(t) \in Nat
      /\ \A k \in 1 .. Len(t) : t[k] \in s /\ t[k] # n
      /\ \A j, k \in 1 .. Len(t) : t[j] = t[k] => j = k
      /\ m.first[h] = NodeAt(NULL, t, 1)
      /\ \A k \in 1 .. Len(t) : m.next[t[k]] = NodeAt(NULL, t, k + 1)
  BY HTypes
<1>2. /\ u \in Seq(HNodes) /\ Len(u) = Len(t) + 1
      /\ \A k \in 1 .. Len(t) + 1 :
           u[k] = IF k <= i THEN t[k] ELSE IF k = i + 1 THEN n ELSE t[k - 1]
  <2> HIDE DEF t
  <2>1. t \in Seq(HNodes) /\ i \in 0 .. Len(t)
    BY <1>1 DEF t
  <2>2. /\ Inserted(t, i, n) \in Seq(HNodes) /\ Len(Inserted(t, i, n)) = Len(t) + 1
        /\ \A k \in 1 .. Len(t) + 1 :
             Inserted(t, i, n)[k] = IF k <= i THEN t[k] ELSE IF k = i + 1 THEN n ELSE t[k - 1]
    <3> HIDE DEF u
    <3> QED BY <2>1, InsertedIs
  <2> QED BY <2>2
<1> USE <1>0
<1>3. /\ T = [g \in HHeads |-> T[g]] /\ T[h] = u
      /\ \A g \in HHeads : g # h => T[g] = S[g]
  BY DEF HHolds
<1> HIDE DEF t, u, T
<1>4. i \in 0 .. Len(t)
  BY DEF t
<1>5. \A k \in 1 .. Len(u) + 1 :
        NodeAt(NULL, u, k) = IF k <= i THEN t[k] ELSE IF k = i + 1 THEN n
                             ELSE NodeAt(NULL, t, k - 1)
  <2> TAKE k \in 1 .. Len(u) + 1
  <2>1. k \in 1 .. Len(u) /\ ~ (k <= i) /\ k # i + 1 => k - 1 \in 1 .. Len(t)
    BY <1>1, <1>2, <1>4
  <2>2. k \notin 1 .. Len(u) => /\ ~ (k - 1 \in 1 .. Len(t)) /\ ~ (k <= i) /\ k # i + 1
    BY <1>1, <1>2, <1>4
  <2> QED BY <1>2, <2>1, <2>2 DEF NodeAt
<1>6. HRuns(m2, h, u)
  <2>1. m2.first[h] = NodeAt(NULL, u, 1)
    <3>1. 1 \in 1 .. Len(u) + 1 /\ (i # 0 => 1 <= i /\ 1 \in 1 .. Len(t))
          /\ (i = 0 => ~ (1 <= i) /\ 1 = i + 1)
      BY <1>1, <1>2, <1>4
    <3>2. CASE i = 0
      BY <1>5, <3>1, <3>2
    <3>3. CASE i # 0
      <4>1. NodeAt(NULL, t, 1) = t[1]
        BY <3>1, <3>3 DEF NodeAt
      <4> QED BY <1>1, <1>5, <3>1, <3>3, <4>1
    <3> QED BY <3>2, <3>3
  <2>2. ASSUME NEW k \in 1 .. Len(u) PROVE m2.next[u[k]] = NodeAt(NULL, u, k + 1)
    <3>1. CASE k < i
      <4>1. k \in 1 .. Len(t) /\ k <= i /\ k + 1 <= i /\ k + 1 \in 1 .. Len(t)
            /\ k + 1 \in 1 .. Len(u) + 1 /\ k # i /\ i \in 1 .. Len(t) /\ k \in 1 .. Len(t) + 1
        BY <1>1, <1>2, <1>4, <3>1
      <4>2. u[k] = t[k] /\ t[k] # t[i] /\ t[k] \in s
        BY <1>1, <1>2, <4>1
      <4>3. m2.next[t[k]] = NodeAt(NULL, t, k + 1)
        BY <1>1, <4>1, <4>2 DEF t
      <4> QED BY <1>5, <4>1, <4>2, <4>3 DEF NodeAt
    <3>2. CASE k = i
      <4>1. k \in 1 .. Len(t) /\ k <= i /\ ~ (k + 1 <= i) /\ k \in 1 .. Len(t) + 1
            /\ k + 1 \in 1 .. Len(u) + 1 /\ i # 0
        BY <1>1, <1>2, <1>4, <3>2
      <4>2. u[k] = t[i] /\ t[i] \in s
        BY <1>1, <1>2, <3>2, <4>1
      <4> QED BY <1>5, <3>2, <4>1, <4>2 DEF t
    <3>3. CASE k = i + 1
      <4>1. ~ (k <= i) /\ ~ (k + 1 <= i) /\ k + 1 # i + 1 /\ k \in 1 .. Len(t) + 1
            /\ k + 1 \in 1 .. Len(u) + 1 /\ (k + 1) - 1 = i + 1
        BY <1>1, <1>2, <1>4, <3>3
      <4>2. u[k] = n
        BY <1>2, <3>3, <4>1
      <4> QED BY <1>5, <4>1, <4>2 DEF t
    <3>4. CASE k > i + 1
      <4>1. /\ ~ (k <= i) /\ k # i + 1 /\ ~ (k + 1 <= i) /\ k + 1 # i + 1
            /\ k \in 1 .. Len(t) + 1 /\ k + 1 \in 1 .. Len(u) + 1
            /\ (k + 1) - 1 = (k - 1) + 1 /\ k - 1 \in 1 .. Len(t) /\ k - 1 # i
            /\ i # 0 => i \in 1 .. Len(t)
        BY <1>1, <1>2, <1>4, <3>4
      <4>2. u[k] = t[k - 1] /\ t[k - 1] \in s /\ (i # 0 => t[k - 1] # t[i])
        BY <1>1, <1>2, <4>1
      <4>3. m2.next[t[k - 1]] = NodeAt(NULL, t, (k - 1) + 1)
        BY <1>1, <4>1, <4>2 DEF t
      <4>4. NodeAt(NULL, u, k + 1) = NodeAt(NULL, t, (k + 1) - 1)
        BY <1>5, <4>1
      <4> QED BY <4>1, <4>2, <4>3, <4>4
    <3> QED BY <1>1, <1>2, <1>4, <3>1, <3>2, <3>3, <3>4
  <2> QED BY <1>2, <2>1, <2>2 DEF HRuns
<1>7. ASSUME NEW g \in HHeads, g # h PROVE HRuns(m2, g, S[g])
  <2>1. /\ S[g] \in Seq(HNodes) /\ m.first[g] = NodeAt(NULL, S[g], 1)
        /\ \A k \in 1 .. Len(S[g]) : S[g][k] \in s
        /\ \A k \in 1 .. Len(S[g]) : m.next[S[g][k]] = NodeAt(NULL, S[g], k + 1)
    BY HTypes
  <2>2. ASSUME NEW k \in 1 .. Len(S[g]), i # 0 PROVE S[g][k] # t[i]
    <3>1. i \in 1 .. Len(t)
      BY <1>1, <1>4, <2>2
    <3> QED BY <1>7, <3>1 DEF HHolds, t
  <2>3. \A k \in 1 .. Len(S[g]) : m2.next[S[g][k]] = NodeAt(NULL, S[g], k + 1)
    BY <2>1, <2>2 DEF t
  <2> QED BY <1>7, <2>1, <2>3 DEF HRuns
<1> DEFINE P(g, k) == IF g = h /\ k > i THEN k - 1 ELSE k
<1>8. \A g \in HHeads : \A k \in 1 .. Len(T[g]) :
        IF g = h /\ k = i + 1 THEN T[g][k] = n
        ELSE P(g, k) \in 1 .. Len(S[g]) /\ T[g][k] = S[g][P(g, k)]
  <2> TAKE g \in HHeads
  <2> TAKE k \in 1 .. Len(T[g])
  <2>1. CASE g # h
    BY <1>3, <2>1
  <2>2. CASE g = h
    <3>1. /\ k \in 1 .. Len(t) + 1 /\ (k > i <=> ~ (k <= i))
          /\ (k <= i => k \in 1 .. Len(t))
          /\ (k # i + 1 /\ ~ (k <= i) => k - 1 \in 1 .. Len(t))
      BY <1>1, <1>2, <1>3, <1>4, <2>2
    <3> QED BY <1>2, <1>3, <2>2, <3>1 DEF t
  <2> QED BY <2>1, <2>2
<1>9. \A g \in HHeads : \A k \in 1 .. Len(S[g]) : S[g][k] \in s /\ S[g][k] # n
  BY HTypes
<1>10. \A g \in HHeads : \A k \in 1 .. Len(T[g]) : T[g][k] \in s \cup {n}
  <2> HIDE DEF P
  <2> TAKE g \in HHeads
  <2> TAKE k \in 1 .. Len(T[g])
  <2>1. IF g = h /\ k = i + 1 THEN T[g][k] = n
        ELSE P(g, k) \in 1 .. Len(S[g]) /\ T[g][k] = S[g][P(g, k)]
    BY <1>8
  <2>2. P(g, k) \in 1 .. Len(S[g]) => S[g][P(g, k)] \in s
    BY <1>9
  <2> QED BY <2>1, <2>2
<1>11. ASSUME NEW f \in HHeads, NEW g \in HHeads, NEW j \in 1 .. Len(T[f]),
              NEW k \in 1 .. Len(T[g]), T[f][j] = T[g][k]
       PROVE  f = g /\ j = k
  <2>1. (f = h /\ j = i + 1) <=> (g = h /\ k = i + 1)
    <3> HIDE DEF P
    <3>1. IF f = h /\ j = i + 1 THEN T[f][j] = n
          ELSE P(f, j) \in 1 .. Len(S[f]) /\ T[f][j] = S[f][P(f, j)]
      BY <1>8
    <3>2. IF g = h /\ k = i + 1 THEN T[g][k] = n
          ELSE P(g, k) \in 1 .. Len(S[g]) /\ T[g][k] = S[g][P(g, k)]
      BY <1>8
    <3>3. ~ (f = h /\ j = i + 1) => T[f][j] # n
      BY <1>9, <3>1
    <3>4. ~ (g = h /\ k = i + 1) => T[g][k] # n
      BY <1>9, <3>2
    <3> QED BY <1>11, <3>1, <3>2, <3>3, <3>4
  <2>2. CASE f = h /\ j = i + 1
    BY <2>1, <2>2
  <2>3. CASE ~ (f = h /\ j = i + 1)
    <3>1. f = g /\ P(f, j) = P(g, k)
      <4>1. /\ P(f, j) \in 1 .. Len(S[f]) /\ P(g, k) \in 1 .. Len(S[g])
            /\ S[f][P(f, j)] = S[g][P(g, k)]
        <5> HIDE DEF P
        <5> QED BY <1>8, <1>11, <2>1, <2>3
      <4> HIDE DEF P
      <4> QED BY <4>1 DEF HHolds
    <3>2. j \in Int /\ k \in Int /\ i \in Int
      OBVIOUS
    <3> QED BY <2>1, <2>3, <3>1, <3>2
  <2> QED BY <2>2, <2>3
<1>12. ASSUME NEW x \in s \cup {n}
       PROVE  \E g \in HHeads : \E k \in 1 .. Len(T[g]) : T[g][k] = x
  <2>1. CASE x = n
    <3>1. i + 1 \in 1 .. Len(T[h]) /\ T[h][i + 1] = n
      <4>1. i + 1 \in 1 .. Len(t) + 1 /\ ~ (i + 1 <= i)
        BY <1>1, <1>4
      <4> QED BY <1>2, <1>3, <4>1
    <3> QED BY <2>1, <3>1
  <2>2. CASE x # n
    <3>1. PICK g \in HHeads : \E k \in 1 .. Len(S[g]) : S[g][k] = x
      BY <2>2 DEF HHolds
    <3>2. PICK k \in 1 .. Len(S[g]) : S[g][k] = x
      BY <3>1
    <3>3. CASE g # h
      BY <1>3, <3>2, <3>3
    <3>4. CASE g = h /\ k <= i
      <4>1. k \in 1 .. Len(t) + 1
        BY <1>1, <3>4 DEF t
      <4>2. k \in 1 .. Len(T[h]) /\ T[h][k] = x
        BY <1>2, <1>3, <3>2, <3>4, <4>1 DEF t
      <4> QED BY <4>2
    <3>5. CASE g = h /\ ~ (k <= i)
      <4>1. k + 1 \in 1 .. Len(t) + 1 /\ ~ (k + 1 <= i) /\ k + 1 # i + 1 /\ (k + 1) - 1 = k
        BY <1>1, <1>4, <3>5 DEF t
      <4>2. k + 1 \in 1 .. Len(T[h]) /\ T[h][k + 1] = x
        BY <1>2, <1>3, <3>2, <3>5, <4>1 DEF t
      <4> QED BY <4>2
    <3> QED BY <3>3, <3>4, <3>5
  <2> QED BY <2>1, <2>2
<1>13. \A g \in HHeads : HRuns(m2, g, T[g])
  BY <1>3, <1>6, <1>7
<1>14. HHolds(m2, s \cup {n}, T)
  BY <1>3, <1>10, <1>11, <1>12, <1>13 DEF HHolds
<1> QED BY <1>14 DEF T, u, t

-----------------------------------------------------------------------------
(* Taking out the node at place i of h's nodes.                            *)
LEMMA HRemoveHolds ==
  ASSUME NEW m, NEW s, NEW S, HHolds(m, s, S), NEW h \in HHeads, NEW i \in 1 .. Len(S[h]),
         NEW n, n = S[h][i], NEW m2, Linked(m2, s \ {n}),
         \A g \in HHeads : m2.first[g] = IF g = h /\ i = 1 THEN NodeAt(NULL, S[h], 2)
                                         ELSE m.first[g],
         \A x \in s \ {n} : m2.next[x] = IF i # 1 /\ x = S[h][i - 1]
                                         THEN NodeAt(NULL, S[h], i + 1) ELSE m.next[x]
  PROVE  HHolds(m2, s \ {n}, [S EXCEPT ![h] = Removed(@, i)])
<1> DEFINE t == S[h]
           u == Removed(t, i)
           T == [S EXCEPT ![h] = u]
<1>1. /\ t \in Seq(HNodes) /\ Len(t) \in Nat /\ i \in 1 .. Len(t) /\ n = t[i]
      /\ \A k \in 1 .. Len(t) : t[k] \in s
      /\ \A j, k \in 1 .. Len(t) : t[j] = t[k] => j = k
      /\ m.first[h] = NodeAt(NULL, t, 1)
      /\ \A k \in 1 .. Len(t) : m.next[t[k]] = NodeAt(NULL, t, k + 1)
  BY HTypes
<1>2. /\ u \in Seq(HNodes) /\ Len(u) = Len(t) - 1
      /\ \A k \in 1 .. Len(t) - 1 : u[k] = IF k < i THEN t[k] ELSE t[k + 1]
  <2> HIDE DEF t
  <2> QED BY <1>1, RemovedIs
<1>3. /\ T = [g \in HHeads |-> T[g]] /\ T[h] = u
      /\ \A g \in HHeads : g # h => T[g] = S[g]
  BY DEF HHolds
<1> HIDE DEF t, u, T
<1>5. \A k \in 1 .. Len(u) + 1 :
        NodeAt(NULL, u, k) = IF k < i THEN t[k] ELSE NodeAt(NULL, t, k + 1)
  <2> TAKE k \in 1 .. Len(u) + 1
  <2>1. k \in 1 .. Len(u) /\ ~ (k < i) => k + 1 \in 1 .. Len(t)
    BY <1>1, <1>2
  <2>2. k \notin 1 .. Len(u) => ~ (k + 1 \in 1 .. Len(t)) /\ ~ (k < i)
    BY <1>1, <1>2
  <2> QED BY <1>2, <2>1, <2>2 DEF NodeAt
<1>6. HRuns(m2, h, u)
  <2>1. m2.first[h] = NodeAt(NULL, u, 1)
    <3>1. 1 \in 1 .. Len(u) + 1 /\ 1 \in 1 .. Len(t) /\ (i # 1 => 1 < i)
          /\ (i = 1 => ~ (1 < i) /\ 1 + 1 = 2)
      BY <1>1, <1>2
    <3>2. CASE i = 1
      BY <1>5, <3>1, <3>2 DEF t
    <3>3. CASE i # 1
      <4>1. NodeAt(NULL, t, 1) = t[1]
        BY <3>1 DEF NodeAt
      <4> QED BY <1>1, <1>5, <3>1, <3>3, <4>1
    <3> QED BY <3>2, <3>3
  <2>2. ASSUME NEW k \in 1 .. Len(u) PROVE m2.next[u[k]] = NodeAt(NULL, u, k + 1)
    <3>1. CASE k + 1 < i
      <4>1. k \in 1 .. Len(t) /\ k < i /\ k + 1 \in 1 .. Len(t) /\ k \in 1 .. Len(t) - 1
            /\ k + 1 \in 1 .. Len(u) + 1 /\ k # i - 1 /\ k # i /\ i - 1 \in 1 .. Len(t)
        BY <1>1, <1>2, <3>1
      <4>2. u[k] = t[k] /\ t[k] # t[i - 1] /\ t[k] \in s \ {n}
        BY <1>1, <1>2, <4>1
      <4>3. m2.next[t[k]] = NodeAt(NULL, t, k + 1)
        BY <1>1, <4>1, <4>2 DEF t
      <4> QED BY <1>5, <3>1, <4>1, <4>2, <4>3 DEF NodeAt
    <3>2. CASE k + 1 = i
      <4>1. k \in 1 .. Len(t) /\ k < i /\ ~ (k + 1 < i) /\ k \in 1 .. Len(t) - 1
            /\ k + 1 \in 1 .. Len(u) + 1 /\ i # 1 /\ k = i - 1 /\ (k + 1) + 1 = i + 1 /\ k # i
        BY <1>1, <1>2, <3>2
      <4>2. u[k] = t[i - 1] /\ t[i - 1] \in s \ {n}
        BY <1>1, <1>2, <4>1
      <4>3. NodeAt(NULL, u, k + 1) = NodeAt(NULL, t, (k + 1) + 1)
        BY <1>5, <4>1
      <4> QED BY <4>1, <4>2, <4>3 DEF t
    <3>3. CASE k + 1 > i
      <4>1. ~ (k < i) /\ ~ (k + 1 < i) /\ k \in 1 .. Len(t) - 1 /\ k + 1 \in 1 .. Len(t)
            /\ k + 1 \in 1 .. Len(u) + 1 /\ k + 1 # i - 1 /\ k + 1 # i
            /\ (i # 1 => i - 1 \in 1 .. Len(t))
        BY <1>1, <1>2, <3>3
      <4>2. u[k] = t[k + 1] /\ t[k + 1] \in s \ {n} /\ (i # 1 => t[k + 1] # t[i - 1])
        BY <1>1, <1>2, <4>1
      <4>3. m2.next[t[k + 1]] = NodeAt(NULL, t, (k + 1) + 1)
        BY <1>1, <4>1, <4>2 DEF t
      <4>4. NodeAt(NULL, u, k + 1) = NodeAt(NULL, t, (k + 1) + 1)
        BY <1>5, <4>1
      <4> QED BY <4>2, <4>3, <4>4
    <3> QED BY <1>1, <1>2, <3>1, <3>2, <3>3
  <2> QED BY <1>2, <2>1, <2>2 DEF HRuns
<1>7. ASSUME NEW g \in HHeads, g # h PROVE HRuns(m2, g, S[g])
  <2>1. /\ S[g] \in Seq(HNodes) /\ m.first[g] = NodeAt(NULL, S[g], 1)
        /\ \A k \in 1 .. Len(S[g]) : S[g][k] \in s
        /\ \A k \in 1 .. Len(S[g]) : m.next[S[g][k]] = NodeAt(NULL, S[g], k + 1)
    BY HTypes
  <2>2. ASSUME NEW k \in 1 .. Len(S[g])
        PROVE  S[g][k] # n /\ (i # 1 => S[g][k] # t[i - 1])
    <3>1. i # 1 => i - 1 \in 1 .. Len(t)
      BY <1>1
    <3> QED BY <1>1, <1>7, <3>1 DEF HHolds, t
  <2>3. \A k \in 1 .. Len(S[g]) : m2.next[S[g][k]] = NodeAt(NULL, S[g], k + 1)
    BY <2>1, <2>2 DEF t
  <2> QED BY <1>7, <2>1, <2>3 DEF HRuns
<1> DEFINE P(g, k) == IF g = h /\ k >= i THEN k + 1 ELSE k
<1>8. \A g \in HHeads : \A k \in 1 .. Len(T[g]) :
        P(g, k) \in 1 .. Len(S[g]) /\ T[g][k] = S[g][P(g, k)] /\ ~ (g = h /\ P(g, k) = i)
  <2> TAKE g \in HHeads
  <2> TAKE k \in 1 .. Len(T[g])
  <2>1. CASE g # h
    BY <1>3, <2>1
  <2>2. CASE g = h
    <3>1. /\ k \in 1 .. Len(t) - 1 /\ (k >= i <=> ~ (k < i)) /\ k \in 1 .. Len(t)
          /\ k + 1 \in 1 .. Len(t) /\ (k >= i => k + 1 # i)
      BY <1>1, <1>2, <1>3, <2>2
    <3> QED BY <1>1, <1>2, <1>3, <2>2, <3>1 DEF t
  <2> QED BY <2>1, <2>2
<1>9. \A g \in HHeads : \A k \in 1 .. Len(S[g]) :
        S[g][k] \in s /\ (S[g][k] = n <=> g = h /\ k = i)
  BY <1>1 DEF HHolds, t
<1>10. \A g \in HHeads : \A k \in 1 .. Len(T[g]) : T[g][k] \in s \ {n}
  <2> HIDE DEF P
  <2> TAKE g \in HHeads
  <2> TAKE k \in 1 .. Len(T[g])
  <2>1. P(g, k) \in 1 .. Len(S[g]) /\ T[g][k] = S[g][P(g, k)] /\ ~ (g = h /\ P(g, k) = i)
    BY <1>8
  <2>2. S[g][P(g, k)] \in s /\ S[g][P(g, k)] # n
    BY <1>9, <2>1
  <2> QED BY <2>1, <2>2
<1>11. ASSUME NEW f \in HHeads, NEW g \in HHeads, NEW j \in 1 .. Len(T[f]),
              NEW k \in 1 .. Len(T[g]), T[f][j] = T[g][k]
       PROVE  f = g /\ j = k
  <2>1. f = g /\ P(f, j) = P(g, k)
    <3>1. /\ P(f, j) \in 1 .. Len(S[f]) /\ P(g, k) \in 1 .. Len(S[g])
          /\ S[f][P(f, j)] = S[g][P(g, k)]
      <4> HIDE DEF P
      <4> QED BY <1>8, <1>11
    <3> HIDE DEF P
    <3> QED BY <3>1 DEF HHolds
  <2>2. j \in Int /\ k \in Int /\ i \in Int
    OBVIOUS
  <2> QED BY <2>1, <2>2
<1>12. ASSUME NEW x \in s \ {n}
       PROVE  \E g \in HHeads : \E k \in 1 .. Len(T[g]) : T[g][k] = x
  <2>1. PICK g \in HHeads : \E k \in 1 .. Len(S[g]) : S[g][k] = x
    BY DEF HHolds
  <2>2. PICK k \in 1 .. Len(S[g]) : S[g][k] = x
    BY <2>1
  <2>3. CASE g # h
    BY <1>3, <2>2, <2>3
  <2>4. CASE g = h /\ k < i
    <3>1. k \in 1 .. Len(t) - 1
      BY <1>1, <2>4 DEF t
    <3>2. k \in 1 .. Len(T[h]) /\ T[h][k] = x
      BY <1>2, <1>3, <2>2, <2>4, <3>1 DEF t
    <3> QED BY <3>2
  <2>5. CASE g = h /\ ~ (k < i)
    <3>0. k # i
      BY <1>1, <2>2, <2>5 DEF t
    <3>1. k - 1 \in 1 .. Len(t) - 1 /\ ~ (k - 1 < i) /\ (k - 1) + 1 = k
      BY <1>1, <2>5, <3>0 DEF t
    <3>2. k - 1 \in 1 .. Len(T[h]) /\ T[h][k - 1] = x
      BY <1>2, <1>3, <2>2, <2>5, <3>1 DEF t
    <3> QED BY <3>2
  <2> QED BY <2>3, <2>4, <2>5
<1>13. \A g \in HHeads : HRuns(m2, g, T[g])
  BY <1>3, <1>6, <1>7
<1>14. HHolds(m2, s \ {n}, T)
  BY <1>3, <1>10, <1>11, <1>12, <1>13 DEF HHolds
<1> QED BY <1>14 DEF T, u, t

(* What the fields of the nodes that are not hashed are does not matter.   *)
LEMMA HOutsideHolds ==
  ASSUME NEW m, NEW s, NEW S, HHolds(m, s, S), NEW m2, Linked(m2, s), m2.first = m.first,
         \A x \in s : m2.next[x] = m.next[x]
  PROVE  HHolds(m2, s, S)
<1>1. ASSUME NEW h \in HHeads PROVE HRuns(m2, h, S[h])
  BY HTypes DEF HRuns
<1> QED BY <1>1 DEF HHolds

(* A list handed over to a head that has none.                             *)
LEMMA HMoveListHolds ==
  ASSUME NEW m, NEW s, NEW S, HHolds(m, s, S), NEW old \in HHeads, NEW new \in HHeads,
         old # new, hlist_empty(m, new)
  PROVE  /\ S[new] = <<>>
         /\ HHolds(hlist_move_list(m, old, new), s, [S EXCEPT ![new] = S[old], ![old] = <<>>])
<1> DEFINE u == hlist_move_list(m, old, new)
           j == m.first[old]
           T == [S EXCEPT ![new] = S[old], ![old] = <<>>]
<1>1. Linked(m, s) /\ m \in HMemory
  BY DEF HHolds, Linked
<1>2. Linked(u, s)
  BY <1>1, MoveListKeepsLinked DEF hlist_empty
<1>3. u.first = [m.first EXCEPT ![new] = j, ![old] = NULL] /\ u.next = m.next
  BY <1>1, AddressesAre DEF HMemory, Targets, hlist_move_list, PointBack
<1>4. S[new] = <<>>
  <2>1. S[new] \in Seq(HNodes) /\ NodeAt(NULL, S[new], 1) = NULL
        /\ \A i \in 1 .. Len(S[new]) : S[new][i] # NULL
    BY HTypes DEF hlist_empty
  <2>2. ~ (1 \in 1 .. Len(S[new]))
    BY <2>1 DEF NodeAt
  <2> QED BY <2>1, <2>2
<1>5. /\ T = [g \in HHeads |-> T[g]] /\ T[new] = S[old] /\ T[old] = <<>>
      /\ \A g \in HHeads \ {new, old} : T[g] = S[g]
  BY DEF HHolds
<1> HIDE DEF T, u
<1>6. ASSUME NEW g \in HHeads PROVE HRuns(u, g, T[g])
  <2>1. u.first[g] = IF g = old THEN NULL ELSE IF g = new THEN m.first[old] ELSE m.first[g]
    BY <1>1, <1>3 DEF HMemory
  <2>2. CASE g = old
    BY <1>5, <2>1, <2>2 DEF HRuns, NodeAt
  <2>3. CASE g # old
    BY <1>3, <1>5, <2>1, <2>3 DEF HRuns, HHolds
  <2> QED BY <2>2, <2>3
<1> DEFINE F(g) == IF g = new THEN old ELSE g
<1>7. \A g \in HHeads : /\ F(g) \in HHeads
                        /\ \A i \in 1 .. Len(T[g]) : i \in 1 .. Len(S[F(g)]) /\ T[g][i] = S[F(g)][i] /\ g # old
  BY <1>5
<1>8. \A g \in HHeads : \A i \in 1 .. Len(T[g]) : T[g][i] \in s
  <2> HIDE DEF F
  <2> QED BY <1>7 DEF HHolds
<1>9. ASSUME NEW f \in HHeads, NEW g \in HHeads, NEW i \in 1 .. Len(T[f]),
             NEW k \in 1 .. Len(T[g]), T[f][i] = T[g][k]
      PROVE  f = g /\ i = k
  <2>1. F(f) = F(g) /\ i = k
    <3> HIDE DEF F
    <3> QED BY <1>7, <1>9 DEF HHolds
  <2> QED BY <1>7, <2>1
<1>10. ASSUME NEW x \in s PROVE \E g \in HHeads : \E i \in 1 .. Len(T[g]) : T[g][i] = x
  <2>1. PICK g \in HHeads : \E i \in 1 .. Len(S[g]) : S[g][i] = x
    BY DEF HHolds
  <2>2. g # new
    BY <1>4, <2>1
  <2>3. CASE g = old
    BY <1>5, <2>1, <2>3
  <2>4. CASE g # old
    BY <1>5, <2>1, <2>2, <2>4
  <2> QED BY <2>3, <2>4
<1> QED BY <1>2, <1>4, <1>5, <1>6, <1>8, <1>9, <1>10 DEF HHolds, T, u

-----------------------------------------------------------------------------
(* InsertAt of the community modules is Inserted,                          *)
LEMMA InsertAtIs ==
  ASSUME NEW E, NEW s \in Seq(E), NEW i \in 1 .. Len(s) + 1, NEW e \in E
  PROVE  InsertAt(s, i, e) = Inserted(s, i - 1, e)
<1> DEFINE a == SubSeq(s, 1, i - 1)
           b == SubSeq(s, i, Len(s))
           c == a \o <<e>>
           u == Inserted(s, i - 1, e)
<1>1. Len(s) \in Nat /\ \A k \in 1 .. Len(s) : s[k] \in E
  OBVIOUS
<1>2. /\ a \in Seq(E) /\ Len(a) = i - 1 /\ \A k \in 1 .. i - 1 : a[k] = s[k]
      /\ b \in Seq(E) /\ Len(b) = Len(s) + 1 - i
      /\ \A k \in 1 .. Len(s) + 1 - i : b[k] = s[k + i - 1]
  BY <1>1
<1>3. <<e>> \in Seq(E) /\ Len(<<e>>) = 1 /\ <<e>>[1] = e
  OBVIOUS
<1>4. u \in Seq(E) /\ Len(u) = Len(s) + 1
      /\ \A k \in 1 .. Len(s) + 1 : u[k] = IF k <= i - 1 THEN s[k] ELSE IF k = (i - 1) + 1 THEN e
                                           ELSE s[k - 1]
  <2>1. i - 1 \in 0 .. Len(s)
    BY <1>1
  <2> HIDE DEF a, b
  <2> DEFINE j == i - 1
  <2> HIDE DEF j
  <2>2. /\ Inserted(s, j, e) \in Seq(E) /\ Len(Inserted(s, j, e)) = Len(s) + 1
        /\ \A k \in 1 .. Len(s) + 1 :
             Inserted(s, j, e)[k] = IF k <= j THEN s[k] ELSE IF k = j + 1 THEN e ELSE s[k - 1]
    <3>1. j \in 0 .. Len(s)
      BY <2>1 DEF j
    <3> QED BY <3>1, InsertedIs
  <2> QED BY <2>2 DEF j
<1> HIDE DEF a, b, u
<1>5. /\ c \in Seq(E) /\ Len(c) = i
      /\ \A k \in 1 .. i : c[k] = IF k <= i - 1 THEN s[k] ELSE e
  <2>1. /\ c \in Seq(E) /\ Len(c) = Len(a) + Len(<<e>>)
        /\ \A k \in 1 .. Len(a) + Len(<<e>>) :
             c[k] = IF k <= Len(a) THEN a[k] ELSE <<e>>[k - Len(a)]
    <3> DEFINE one == <<e>>
    <3>1. a \in Seq(E) /\ one \in Seq(E)
      BY <1>2, <1>3
    <3> HIDE DEF one
    <3>2. /\ a \o one \in Seq(E) /\ Len(a \o one) = Len(a) + Len(one)
          /\ \A k \in 1 .. Len(a) + Len(one) :
               (a \o one)[k] = IF k <= Len(a) THEN a[k] ELSE one[k - Len(a)]
      BY <3>1, ConcatProperties
    <3> QED BY <3>2 DEF one
  <2>2. Len(a) + Len(<<e>>) = i /\ \A k \in 1 .. i : ~ (k <= i - 1) => k - (i - 1) = 1
    BY <1>1, <1>2, <1>3
  <2>3. \A k \in 1 .. i : k <= i - 1 => k \in 1 .. i - 1
    BY <1>1
  <2> QED BY <1>2, <1>3, <2>1, <2>2, <2>3
<1> HIDE DEF c
<1>6. /\ c \o b \in Seq(E) /\ Len(c \o b) = Len(s) + 1
      /\ \A k \in 1 .. Len(s) + 1 : (c \o b)[k] = IF k <= i THEN c[k] ELSE b[k - i]
  <2>1. Len(c) + Len(b) = Len(s) + 1
    BY <1>1, <1>2, <1>5
  <2>2. /\ c \o b \in Seq(E) /\ Len(c \o b) = Len(c) + Len(b)
        /\ \A k \in 1 .. Len(c) + Len(b) : (c \o b)[k] = IF k <= Len(c) THEN c[k] ELSE b[k - Len(c)]
    <3>1. c \in Seq(E) /\ b \in Seq(E)
      BY <1>2, <1>5
    <3> QED BY <3>1, ConcatProperties
  <2> QED BY <1>5, <2>1, <2>2
<1>7. \A k \in 1 .. Len(s) + 1 : (c \o b)[k] = u[k]
  <2> TAKE k \in 1 .. Len(s) + 1
  <2>1. CASE k <= i
    <3>1. k \in 1 .. i /\ (~ (k <= i - 1) => k = (i - 1) + 1)
      BY <1>1, <2>1
    <3> QED BY <1>4, <1>5, <1>6, <2>1, <3>1
  <2>2. CASE ~ (k <= i)
    <3>1. /\ ~ (k <= i - 1) /\ k # (i - 1) + 1 /\ k - i \in 1 .. Len(s) + 1 - i
          /\ (k - i) + i - 1 = k - 1
      BY <1>1, <2>2
    <3> QED BY <1>2, <1>4, <1>6, <2>2, <3>1
  <2> QED BY <2>1, <2>2
<1>8. c \o b = [k \in 1 .. Len(s) + 1 |-> (c \o b)[k]] /\ u = [k \in 1 .. Len(s) + 1 |-> u[k]]
  BY <1>4, <1>6, LenProperties
<1>9. c \o b = u
  BY <1>7, <1>8
<1>10. InsertAt(s, i, e) = c \o b
  BY DEF InsertAt, a, b, c
<1> QED BY <1>9, <1>10 DEF u

(* and so is putting a node before the first.                              *)
LEMMA PushIs ==
  ASSUME NEW E, NEW s \in Seq(E), NEW e \in E
  PROVE  <<e>> \o s = Inserted(s, 0, e)
<1> DEFINE c == <<e>> \o s
           u == Inserted(s, 0, e)
<1>1. <<e>> \in Seq(E) /\ Len(<<e>>) = 1 /\ <<e>>[1] = e /\ Len(s) \in Nat
  OBVIOUS
<1>2. /\ c \in Seq(E) /\ Len(c) = Len(<<e>>) + Len(s)
      /\ \A k \in 1 .. Len(<<e>>) + Len(s) :
           c[k] = IF k <= Len(<<e>>) THEN <<e>>[k] ELSE s[k - Len(<<e>>)]
  BY <1>1, ConcatProperties
<1>3. /\ u \in Seq(E) /\ Len(u) = Len(s) + 1
      /\ \A k \in 1 .. Len(s) + 1 : u[k] = IF k <= 0 THEN s[k] ELSE IF k = 0 + 1 THEN e ELSE s[k - 1]
  <2>1. 0 \in 0 .. Len(s)
    BY <1>1
  <2> QED BY <2>1, InsertedIs
<1> HIDE DEF c, u
<1>4. Len(c) = Len(s) + 1
  BY <1>1, <1>2
<1>5. \A k \in 1 .. Len(s) + 1 : c[k] = u[k]
  <2> TAKE k \in 1 .. Len(s) + 1
  <2>1. k \in 1 .. Len(<<e>>) + Len(s) /\ ~ (k <= 0) /\ (k <= 1 <=> k = 1)
    BY <1>1
  <2> QED BY <1>1, <1>2, <1>3, <2>1
<1>6. c = [k \in 1 .. Len(s) + 1 |-> c[k]] /\ u = [k \in 1 .. Len(s) + 1 |-> u[k]]
  BY <1>2, <1>3, <1>4, LenProperties
<1> QED BY <1>5, <1>6 DEF c, u

(* A hashed node has one place in one list.                                *)
LEMMA HPlace ==
  ASSUME NEW m, NEW s, NEW S, HHolds(m, s, S), NEW h \in HHeads, NEW i \in 1 .. Len(S[h])
  PROVE  /\ \A g \in HHeads : Has(S[g], S[h][i]) <=> g = h
         /\ PlaceOf(S[h][i], S[h]) = i
<1>1. \A g \in HHeads : S[g] \in Seq(HNodes) /\ DOMAIN S[g] = 1 .. Len(S[g])
  BY HTypes
<1>2. \A j, k \in 1 .. Len(S[h]) : S[h][j] = S[h][k] => j = k
  BY HTypes
<1>3. Has(S[h], S[h][i]) /\ PlaceOf(S[h][i], S[h]) = i
  BY <1>1, <1>2, PlaceIs
<1>4. ASSUME NEW g \in HHeads, Has(S[g], S[h][i]) PROVE g = h
  <2>1. PICK k \in 1 .. Len(S[g]) : S[g][k] = S[h][i]
    BY <1>1, <1>4 DEF Has
  <2> QED BY <2>1 DEF HHolds
<1> QED BY <1>3, <1>4

(* A node in no list has no place.                                         *)
LEMMA HNoPlace ==
  ASSUME NEW m, NEW s, NEW S, HHolds(m, s, S), NEW n, n \notin s, NEW g \in HHeads
  PROVE  ~ Has(S[g], n)
<1>1. DOMAIN S[g] = 1 .. Len(S[g]) /\ \A k \in 1 .. Len(S[g]) : S[g][k] \in s
  BY HTypes
<1> QED BY <1>1 DEF Has

(* The hashed lists without n, and with n put beside x.                    *)
HGone(S, n) ==
  [h \in HHeads |-> IF Has(S[h], n) THEN RemoveAt(S[h], PlaceOf(n, S[h])) ELSE S[h]]
HPut(S, x, after, n) ==
  [h \in HHeads |-> IF Has(S[h], x) THEN InsertAt(S[h], PlaceOf(x, S[h]) + after, n) ELSE S[h]]

(* Taking out a node of a list changes that list only,                     *)
LEMMA HGoneIs ==
  ASSUME NEW m, NEW s, NEW S, HHolds(m, s, S)
  PROVE  /\ \A h \in HHeads : \A i \in 1 .. Len(S[h]) :
              HGone(S, S[h][i]) = [S EXCEPT ![h] = Removed(@, i)]
         /\ \A n : n \notin s => HGone(S, n) = S
<1>1. S = [h \in HHeads |-> S[h]] /\ \A h \in HHeads : S[h] \in Seq(HNodes)
  BY HTypes DEF HHolds
<1>2. ASSUME NEW h \in HHeads, NEW i \in 1 .. Len(S[h])
      PROVE  HGone(S, S[h][i]) = [S EXCEPT ![h] = Removed(@, i)]
  <2>1. RemoveAt(S[h], i) = Removed(S[h], i)
    BY <1>1, RemoveAtIs
  <2>2. /\ \A g \in HHeads : Has(S[g], S[h][i]) <=> g = h
        /\ PlaceOf(S[h][i], S[h]) = i
    BY HPlace
  <2>3. \A g \in HHeads : HGone(S, S[h][i])[g] = IF g = h THEN Removed(S[h], i) ELSE S[g]
    BY <2>1, <2>2 DEF HGone
  <2>4. HGone(S, S[h][i]) = [g \in HHeads |-> HGone(S, S[h][i])[g]]
    BY DEF HGone
  <2>5. [S EXCEPT ![h] = Removed(@, i)] = [g \in HHeads |-> IF g = h THEN Removed(S[h], i) ELSE S[g]]
    BY <1>1
  <2> QED BY <2>3, <2>4, <2>5
<1>3. ASSUME NEW n, n \notin s PROVE HGone(S, n) = S
  BY <1>1, <1>3, HNoPlace DEF HGone
<1> QED BY <1>2, <1>3

(* and so does putting one beside another.                                 *)
LEMMA HPutIs ==
  ASSUME NEW m, NEW s, NEW S, HHolds(m, s, S), NEW h \in HHeads, NEW i \in 1 .. Len(S[h]),
         NEW after \in {0, 1}, NEW n \in HNodes
  PROVE  HPut(S, S[h][i], after, n) = [S EXCEPT ![h] = Inserted(@, (i + after) - 1, n)]
<1> DEFINE T == HPut(S, S[h][i], after, n)
           u == Inserted(S[h], (i + after) - 1, n)
<1>1. S = [g \in HHeads |-> S[g]] /\ S[h] \in Seq(HNodes) /\ Len(S[h]) \in Nat
  BY HTypes DEF HHolds
<1>2. InsertAt(S[h], i + after, n) = u
  <2>1. i + after \in 1 .. Len(S[h]) + 1
    BY <1>1
  <2> QED BY <1>1, <2>1, InsertAtIs
<1>3. /\ \A g \in HHeads : Has(S[g], S[h][i]) <=> g = h
      /\ PlaceOf(S[h][i], S[h]) = i
  BY HPlace
<1>4. T = [g \in HHeads |-> T[g]] /\ \A g \in HHeads : T[g] = IF g = h THEN u ELSE S[g]
  BY <1>2, <1>3 DEF HPut
<1> HIDE DEF T, u
<1>5. [S EXCEPT ![h] = u] = [g \in HHeads |-> IF g = h THEN u ELSE S[g]]
  BY <1>1
<1> QED BY <1>4, <1>5 DEF T, u

-----------------------------------------------------------------------------
(* hlist_add_head, hlist_add_after and hlist_add_before, in terms of the   *)
(* lists.                                                                  *)
LEMMA HAddHeadHolds ==
  ASSUME NEW m, NEW s, NEW S, HHolds(m, s, S), NEW n \in HNodes, n \notin s, NEW h \in HHeads
  PROVE  HHolds(hlist_add_head(m, n, h), s \cup {n}, [S EXCEPT ![h] = <<n>> \o @])
<1> DEFINE u == hlist_add_head(m, n, h)
<1>1. Linked(m, s) /\ m \in HMemory /\ s \subseteq HNodes
  BY DEF HHolds, Linked
<1>2. Linked(u, s \cup {n})
  BY <1>1, AddHeadKeepsLinked
<1>3. /\ u.first = [m.first EXCEPT ![h] = n]
      /\ u.next = [m.next EXCEPT ![n] = m.first[h]]
  BY <1>1, AddressesAre DEF HMemory, Targets, hlist_add_head, PointBack
<1> HIDE DEF u
<1>4. /\ S[h] \in Seq(HNodes) /\ Len(S[h]) \in Nat /\ m.first[h] = NodeAt(NULL, S[h], 1)
  BY HTypes
<1>5. 0 \in 0 .. Len(S[h]) /\ 0 + 1 = 1
  BY <1>4
<1>6. \A g \in HHeads : u.first[g] = IF g = h /\ 0 = 0 THEN n ELSE m.first[g]
  BY <1>1, <1>3 DEF HMemory
<1>7. u.next[n] = NodeAt(NULL, S[h], 0 + 1)
  BY <1>1, <1>3, <1>4, <1>5 DEF HMemory
<1>8. \A x \in s : u.next[x] = IF 0 # 0 /\ x = S[h][0] THEN n ELSE m.next[x]
  BY <1>1, <1>3 DEF HMemory
<1>9. HHolds(u, s \cup {n}, [S EXCEPT ![h] = Inserted(@, 0, n)])
  <2>1. Inserts(m, s, S, h, 0, n, u)
    BY <1>6, <1>7, <1>8 DEF Inserts
  <2> QED BY <1>2, <1>5, <2>1, HInsertHolds
<1>10. <<n>> \o S[h] = Inserted(S[h], 0, n)
  BY <1>4, PushIs
<1> QED BY <1>9, <1>10 DEF u

LEMMA HAddAfterHolds ==
  ASSUME NEW m, NEW s, NEW S, HHolds(m, s, S), NEW n \in s, NEW next \in HNodes, next \notin s
  PROVE  HHolds(hlist_add_after(m, n, next), s \cup {next}, HPut(S, n, 1, next))
<1> DEFINE u == hlist_add_after(m, n, next)
<1>1. Linked(m, s) /\ m \in HMemory /\ s \subseteq HNodes
  BY DEF HHolds, Linked
<1>2. Linked(u, s \cup {next})
  BY <1>1, AddAfterKeepsLinked
<1>3. /\ u.first = m.first
      /\ u.next = [m.next EXCEPT ![next] = m.next[n], ![n] = next]
  BY <1>1, AddressesAre DEF HMemory, Targets, hlist_add_after, PointBack
<1> HIDE DEF u
<1>4. PICK h \in HHeads : \E i \in 1 .. Len(S[h]) : S[h][i] = n
  BY DEF HHolds
<1>5. PICK i \in 1 .. Len(S[h]) : S[h][i] = n
  BY <1>4
<1>6. /\ Len(S[h]) \in Nat /\ m.next[S[h][i]] = NodeAt(NULL, S[h], i + 1)
  BY HTypes
<1>7. i \in 0 .. Len(S[h]) /\ i # 0 /\ (i + 1) - 1 = i
  BY <1>6
<1>8. \A g \in HHeads : u.first[g] = IF g = h /\ i = 0 THEN next ELSE m.first[g]
  BY <1>3, <1>7
<1>9. u.next[next] = NodeAt(NULL, S[h], i + 1)
  BY <1>1, <1>3, <1>5, <1>6 DEF HMemory
<1>10. \A x \in s : u.next[x] = IF i # 0 /\ x = S[h][i] THEN next ELSE m.next[x]
  BY <1>1, <1>3, <1>5, <1>7 DEF HMemory
<1>11. HHolds(u, s \cup {next}, [S EXCEPT ![h] = Inserted(@, i, next)])
  <2>1. Inserts(m, s, S, h, i, next, u)
    BY <1>8, <1>9, <1>10 DEF Inserts
  <2> QED BY <1>2, <1>7, <2>1, HInsertHolds
<1>12. HPut(S, S[h][i], 1, next) = [S EXCEPT ![h] = Inserted(@, (i + 1) - 1, next)]
  <2>1. 1 \in {0, 1}
    OBVIOUS
  <2> QED BY <2>1, HPutIs
<1> QED BY <1>5, <1>7, <1>11, <1>12 DEF u

LEMMA HAddBeforeHolds ==
  ASSUME NEW m, NEW s, NEW S, HHolds(m, s, S), NEW n \in HNodes, n \notin s, NEW next \in s
  PROVE  HHolds(hlist_add_before(m, n, next), s \cup {n}, HPut(S, next, 0, n))
<1> DEFINE a == m.pprev[next]
           link == [m EXCEPT !.pprev[n] = a, !.next[n] = next,
                             !.pprev[next] = <<"next", n>>]
           u == [link EXCEPT ![link.pprev[n][1]][link.pprev[n][2]] = n]
<1>1. Linked(m, s) /\ m \in HMemory /\ s \subseteq HNodes /\ n # next
  BY DEF HHolds, Linked
<1>2. Linked(u, s \cup {n})
  BY <1>1, AddBeforeKeepsLinked DEF hlist_add_before
<1>3. /\ link.first = m.first /\ link.next = [m.next EXCEPT ![n] = next]
      /\ link.pprev[n] = a /\ link \in HMemory
  BY <1>1, AddressesAre DEF Linked, HMemory, Targets
<1>4. PICK h \in HHeads : \E i \in 1 .. Len(S[h]) : S[h][i] = next
  BY DEF HHolds
<1>5. PICK i \in 1 .. Len(S[h]) : S[h][i] = next
  BY <1>4
<1>6. /\ S[h] \in Seq(HNodes) /\ Len(S[h]) \in Nat
      /\ \A k \in 1 .. Len(S[h]) : S[h][k] \in HNodes /\ S[h][k] \in s
  BY HTypes
<1>7. a = IF i = 1 THEN <<"first", h>> ELSE <<"next", S[h][i - 1]>>
  BY <1>5, HPrev
<1>8. /\ i - 1 \in 0 .. Len(S[h]) /\ (i - 1) + 1 = i /\ (i - 1 = 0 <=> i = 1)
      /\ (i + 0) - 1 = i - 1 /\ (i # 1 => i - 1 \in 1 .. Len(S[h]))
  BY <1>6
<1> HIDE DEF link
<1>9. /\ \A g \in HHeads : u.first[g] = IF g = h /\ i - 1 = 0 THEN n ELSE m.first[g]
      /\ \A x \in HNodes : u.next[x] = IF i - 1 # 0 /\ x = S[h][i - 1] THEN n
                                       ELSE IF x = n THEN next ELSE m.next[x]
  <2>1. CASE i = 1
    <3>1. u = [link EXCEPT !.first[h] = n]
      BY <1>3, <1>7, <2>1
    <3>2. u.first = [link.first EXCEPT ![h] = n] /\ u.next = link.next
      BY <1>3, <3>1 DEF HMemory
    <3> QED BY <1>1, <1>3, <1>8, <2>1, <3>2 DEF HMemory
  <2>2. CASE i # 1
    <3>1. u = [link EXCEPT !.next[S[h][i - 1]] = n]
      BY <1>3, <1>7, <2>2
    <3>2. u.next = [link.next EXCEPT ![S[h][i - 1]] = n] /\ u.first = link.first
      BY <1>3, <3>1 DEF HMemory
    <3>3. S[h][i - 1] \in HNodes /\ i - 1 # 0
      BY <1>6, <1>8, <2>2
    <3>4. \A g \in HHeads : u.first[g] = m.first[g]
      BY <1>3, <3>2
    <3>5. \A x \in HNodes : u.next[x] = IF x = S[h][i - 1] THEN n
                                        ELSE IF x = n THEN next ELSE m.next[x]
      BY <1>1, <1>3, <3>2, <3>3 DEF HMemory
    <3> QED BY <3>3, <3>4, <3>5
  <2> QED BY <2>1, <2>2
<1> HIDE DEF u
<1>10. u.next[n] = NodeAt(NULL, S[h], (i - 1) + 1)
  <2>1. NodeAt(NULL, S[h], (i - 1) + 1) = next
    BY <1>5, <1>8 DEF NodeAt
  <2>2. i - 1 # 0 => S[h][i - 1] # n
    BY <1>6, <1>8
  <2> QED BY <1>9, <2>1, <2>2
<1>11. \A x \in s : u.next[x] = IF i - 1 # 0 /\ x = S[h][i - 1] THEN n ELSE m.next[x]
  BY <1>1, <1>9
<1>12. HHolds(u, s \cup {n}, [S EXCEPT ![h] = Inserted(@, i - 1, n)])
  <2> DEFINE j == i - 1
  <2>1. j \in 0 .. Len(S[h]) /\ Inserts(m, s, S, h, j, n, u)
    BY <1>8, <1>9, <1>10, <1>11 DEF Inserts
  <2> HIDE DEF j
  <2>2. HHolds(u, s \cup {n}, [S EXCEPT ![h] = Inserted(@, j, n)])
    BY <1>2, <2>1, HInsertHolds
  <2> QED BY <2>2 DEF j
<1>13. HPut(S, S[h][i], 0, n) = [S EXCEPT ![h] = Inserted(@, (i + 0) - 1, n)]
  <2>1. 0 \in {0, 1}
    OBVIOUS
  <2> QED BY <2>1, HPutIs
<1>14. HHolds(u, s \cup {n}, HPut(S, next, 0, n))
  BY <1>5, <1>8, <1>12, <1>13
<1> QED BY <1>14 DEF u, link, hlist_add_before

(* The pointers that unlinking a hashed node leaves.                       *)
LEMMA HUnlinkIs ==
  ASSUME NEW m, NEW s, NEW S, HHolds(m, s, S), NEW h \in HHeads, NEW i \in 1 .. Len(S[h])
  PROVE  LET u == hlist_unlink(m, S[h][i])
         IN /\ \A g \in HHeads : u.first[g] = IF g = h /\ i = 1 THEN NodeAt(NULL, S[h], 2)
                                              ELSE m.first[g]
            /\ \A x \in HNodes : u.next[x] = IF i # 1 /\ x = S[h][i - 1]
                                             THEN NodeAt(NULL, S[h], i + 1) ELSE m.next[x]
<1> DEFINE n == S[h][i]
           a == m.pprev[n]
           j == m.next[n]
           w == [m EXCEPT ![a[1]][a[2]] = j]
           u == hlist_unlink(m, n)
<1>1. m \in HMemory /\ Linked(m, s)
  BY DEF HHolds, Linked
<1>2. /\ Len(S[h]) \in Nat /\ j = NodeAt(NULL, S[h], i + 1)
      /\ \A k \in 1 .. Len(S[h]) : S[h][k] \in HNodes
  BY HTypes
<1>3. a = IF i = 1 THEN <<"first", h>> ELSE <<"next", S[h][i - 1]>>
  BY HPrev
<1> HIDE DEF a, n, j
<1>4. CASE i = 1
  <2>1. w = [m EXCEPT !.first[h] = j]
    BY <1>3, <1>4
  <2>2. w.first = [m.first EXCEPT ![h] = j] /\ w.next = m.next /\ w \in [first : {w.first}, next : {w.next}, pprev : {w.pprev}]
    BY <1>1, <2>1 DEF HMemory
  <2>3. u = PointBack(w, j, a)
    BY DEF hlist_unlink, a, j
  <2> HIDE DEF w, u
  <2>4. u.first = w.first /\ u.next = w.next
    BY <2>2, <2>3 DEF PointBack
  <2>5. i + 1 = 2
    BY <1>4
  <2>6. \A g \in HHeads : u.first[g] = IF g = h THEN j ELSE m.first[g]
    BY <1>1, <2>2, <2>4 DEF HMemory
  <2> QED BY <1>2, <1>4, <2>2, <2>4, <2>5, <2>6 DEF u, n
<1>5. CASE i # 1
  <2>1. w = [m EXCEPT !.next[S[h][i - 1]] = j]
    BY <1>3, <1>5
  <2>2. w.next = [m.next EXCEPT ![S[h][i - 1]] = j] /\ w.first = m.first /\ w \in [first : {w.first}, next : {w.next}, pprev : {w.pprev}]
    BY <1>1, <2>1 DEF HMemory
  <2>3. u = PointBack(w, j, a)
    BY DEF hlist_unlink, a, j
  <2> HIDE DEF w, u
  <2>4. u.first = w.first /\ u.next = w.next
    BY <2>2, <2>3 DEF PointBack
  <2>5. S[h][i - 1] \in HNodes
    BY <1>2, <1>5
  <2>6. \A x \in HNodes : u.next[x] = IF x = S[h][i - 1] THEN j ELSE m.next[x]
    BY <1>1, <2>2, <2>4, <2>5 DEF HMemory
  <2> QED BY <1>2, <1>5, <2>2, <2>4, <2>6 DEF u, n
<1> QED BY <1>4, <1>5

-----------------------------------------------------------------------------
(* __hlist_del takes the node out of its list.                             *)
LEMMA HTakenOutHolds ==
  ASSUME NEW m, NEW s, NEW S, HHolds(m, s, S), NEW n \in s, NEW m2, Linked(m2, s \ {n}),
         \A g \in HHeads : m2.first[g] = hlist_unlink(m, n).first[g],
         \A x \in HNodes \ {n} : m2.next[x] = hlist_unlink(m, n).next[x]
  PROVE  HHolds(m2, s \ {n}, HGone(S, n))
<1>1. PICK h \in HHeads : \E i \in 1 .. Len(S[h]) : S[h][i] = n
  BY DEF HHolds
<1>2. PICK i \in 1 .. Len(S[h]) : S[h][i] = n
  BY <1>1
<1>3. /\ \A g \in HHeads : hlist_unlink(m, n).first[g] = IF g = h /\ i = 1 THEN NodeAt(NULL, S[h], 2)
                                                         ELSE m.first[g]
      /\ \A x \in HNodes : hlist_unlink(m, n).next[x] = IF i # 1 /\ x = S[h][i - 1]
                                        THEN NodeAt(NULL, S[h], i + 1) ELSE m.next[x]
  BY <1>2, HUnlinkIs
<1>4. s \subseteq HNodes
  BY DEF HHolds, Linked
<1>5. \A g \in HHeads : m2.first[g] = IF g = h /\ i = 1 THEN NodeAt(NULL, S[h], 2) ELSE m.first[g]
  BY <1>3
<1>6. \A x \in s \ {n} : m2.next[x] = IF i # 1 /\ x = S[h][i - 1]
                                      THEN NodeAt(NULL, S[h], i + 1) ELSE m.next[x]
  BY <1>3, <1>4
<1>7. HHolds(m2, s \ {n}, [S EXCEPT ![h] = Removed(@, i)])
  BY <1>2, <1>5, <1>6, HRemoveHolds
<1>8. HGone(S, S[h][i]) = [S EXCEPT ![h] = Removed(@, i)]
  BY HGoneIs
<1> QED BY <1>2, <1>7, <1>8

(* A node whose pointers are reset is not hashed.                          *)
LEMMA ResetIs ==
  ASSUME NEW m \in HMemory, NEW n \in HNodes, NEW v
  PROVE  LET u == [m EXCEPT !.next[n] = v, !.pprev[n] = v]
         IN u.first = m.first /\ \A x \in HNodes \ {n} : u.next[x] = m.next[x]
BY DEF HMemory

(* hlist_del_init, on a node that is hashed or not,                        *)
LEMMA HResetHolds ==
  ASSUME NEW m, NEW s, NEW S, HHolds(m, s, S), NEW n \in HNodes, LooksHashed(m, s, n),
         NEW v \in {NULL, POISON}
  PROVE  HHolds([hlist_unlink(m, n) EXCEPT !.next[n] = v, !.pprev[n] = v], s \ {n}, HGone(S, n))
<1> DEFINE d == hlist_unlink(m, n)
           u == [d EXCEPT !.next[n] = v, !.pprev[n] = v]
<1>1. Linked(m, s) /\ m \in HMemory /\ s \subseteq HNodes
  BY DEF HHolds, Linked
<1>2. Linked(d, s \ {n}) /\ d \in HMemory
  <2>1. Linked(d, s \ {n})
    BY <1>1, TakingOutKeepsLinked
  <2> HIDE DEF d
  <2> QED BY <2>1 DEF Linked
<1> HIDE DEF d
<1>3. Linked(u, s \ {n}) /\ u.first = d.first /\ \A x \in HNodes \ {n} : u.next[x] = d.next[x]
  <2>1. Linked(u, s \ {n})
    <3>1. n \notin s \ {n}
      OBVIOUS
    <3> QED BY <1>2, <3>1, ResetKeepsLinked
  <2> QED BY <1>2, <2>1, ResetIs
<1> HIDE DEF u
<1>4. CASE n \in s
  <2>1. HHolds(u, s \ {n}, HGone(S, n))
    BY <1>3, <1>4, HTakenOutHolds DEF d
  <2> QED BY <2>1 DEF u, d
<1>5. CASE n \notin s
  <2>1. m.pprev[n] = <<"next", n>> /\ m.next[n] = NULL
    BY <1>5 DEF LooksHashed
  <2>2. d = [m EXCEPT !.next[n] = NULL]
    BY <2>1 DEF d, hlist_unlink, PointBack
  <2>3. d.first = m.first /\ d.next = m.next
    BY <1>1, <2>1, <2>2 DEF HMemory
  <2>4. s \ {n} = s /\ HGone(S, n) = S
    BY <1>5, HGoneIs
  <2>5. u.first = m.first /\ \A x \in s : u.next[x] = m.next[x]
    BY <1>1, <1>3, <1>5, <2>3
  <2>6. HHolds(u, s, S)
    BY <1>3, <2>4, <2>5, HOutsideHolds
  <2> QED BY <2>4, <2>6 DEF u, d
<1> QED BY <1>4, <1>5

(* and hlist_del.                                                          *)
LEMMA HDelHolds ==
  ASSUME NEW m, NEW s, NEW S, HHolds(m, s, S), NEW n \in HNodes
  PROVE  /\ LooksHashed(m, s, n) => HHolds(hlist_del(m, n), s \ {n}, HGone(S, n))
         /\ LooksHashed(m, s, n) \/ hlist_unhashed(m, n) =>
              HHolds(hlist_del_init(m, n), s \ {n}, HGone(S, n))
<1>1. ASSUME hlist_unhashed(m, n) PROVE HHolds(hlist_del_init(m, n), s \ {n}, HGone(S, n))
  <2>1. n \notin s
    BY <1>1, HlistsAssumption DEF hlist_unhashed, HHolds, Linked
  <2>2. s \ {n} = s /\ HGone(S, n) = S
    BY <2>1, HGoneIs
  <2> QED BY <1>1, <2>2 DEF hlist_del_init
<1>2. ASSUME LooksHashed(m, s, n) PROVE HHolds(hlist_del(m, n), s \ {n}, HGone(S, n))
  BY <1>2, HResetHolds DEF hlist_del
<1>3. ASSUME LooksHashed(m, s, n), ~ hlist_unhashed(m, n)
      PROVE  HHolds(hlist_del_init(m, n), s \ {n}, HGone(S, n))
  BY <1>3, HResetHolds DEF hlist_del_init, INIT_HLIST_NODE
<1> QED BY <1>1, <1>2, <1>3

-----------------------------------------------------------------------------
(* The inductive invariant of the promise of hlist.h.                      *)
HListInv == HHolds(hmem, hashed, HEntriesOf)

(* If the next memory holds some hashed lists, they are the ones it gives. *)
LEMMA HNowHolds ==
  ASSUME NEW S, HHolds(hmem', hashed', S)
  PROVE  HListInv' /\ HEntriesOf' = S
<1>1. HEntriesOf' = S
  BY HHoldsIs DEF HEntriesOf
<1> QED BY <1>1 DEF HListInv

(* The abstract operators, in the words of these proofs.                   *)
LEMMA HAbstractWords ==
  ASSUME NEW e
  PROVE  /\ H!Without(e) = HGone(HEntriesOf, e)
         /\ \A h \in HHeads : H!In(e, h) <=> Has(HEntriesOf[h], e)
         /\ \A s : H!Position(e, s) = PlaceOf(e, s)
<1>1. \A h \in HHeads : H!In(e, h) <=> Has(HEntriesOf[h], e)
  BY DEF H!In, H!ToSet, Has
<1>2. \A s : H!Position(e, s) = PlaceOf(e, s)
  BY DEF H!Position, PlaceOf
<1>3. \A s, i : H!RemoveAt(s, i) = RemoveAt(s, i)
  BY DEF H!RemoveAt, RemoveAt
<1>4. H!Without(e) = HGone(HEntriesOf, e)
  BY <1>1, <1>2, <1>3 DEF H!Without, HGone
<1> QED BY <1>1, <1>2, <1>4

(* The nodes the abstract lists leave free are those not hashed.           *)
LEMMA HFreeIs ==
  ASSUME HListInv, NEW n \in HNodes
  PROVE  H!Free(n) <=> n \notin hashed
<1>1. ASSUME n \notin hashed PROVE H!Free(n)
  BY <1>1, HNoPlace, HAbstractWords DEF H!Free, HListInv
<1>2. ASSUME n \in hashed PROVE ~ H!Free(n)
  <2>1. PICK h \in HHeads : \E i \in 1 .. Len(HEntriesOf[h]) : HEntriesOf[h][i] = n
    BY <1>2 DEF HListInv, HHolds
  <2>2. PICK i \in 1 .. Len(HEntriesOf[h]) : HEntriesOf[h][i] = n
    BY <2>1
  <2>3. Has(HEntriesOf[h], n)
    BY <2>2, HPlace DEF HListInv
  <2> QED BY <2>3, HAbstractWords DEF H!Free
<1> QED BY <1>1, <1>2

(* Each call of hlist.h does what HlistsAbstract says it does: adding,     *)
LEMMA HAddPromise ==
  ASSUME HListInv, NEW n \in HNodes, NEW h \in HHeads, HlistAddHead(n, h)
  PROVE  HListInv' /\ H!Add(n, h)
<1>1. /\ n \notin hashed /\ hmem' = hlist_add_head(hmem, n, h)
      /\ hashed' = hashed \cup {n}
  BY DEF HlistAddHead, HCall
<1>2. HHolds(hmem', hashed', [HEntriesOf EXCEPT ![h] = <<n>> \o @])
  BY <1>1, HAddHeadHolds DEF HListInv
<1>3. H!Free(n)
  BY <1>1, HFreeIs
<1> QED BY <1>2, <1>3, HNowHolds DEF H!Add

(* adding beside a node,                                                   *)
LEMMA HAddBesidePromise ==
  ASSUME HListInv, NEW n \in HNodes, NEW next \in HNodes
  PROVE  /\ HlistAddBefore(n, next) => HListInv' /\ H!AddBefore(n, next)
         /\ HlistAddAfter(n, next) => HListInv' /\ H!AddAfter(next, n)
<1>0. \A s, i, e : H!InsertAt(s, i, e) = InsertAt(s, i, e)
  BY DEF H!InsertAt, InsertAt
<1>1. ASSUME HlistAddBefore(n, next) PROVE HListInv' /\ H!AddBefore(n, next)
  <2>1. /\ n \notin hashed /\ next \in hashed /\ hmem' = hlist_add_before(hmem, n, next)
        /\ hashed' = hashed \cup {n}
    BY <1>1 DEF HlistAddBefore, HCall
  <2>2. HHolds(hmem', hashed', HPut(HEntriesOf, next, 0, n))
    BY <2>1, HAddBeforeHolds DEF HListInv
  <2>3. H!Free(n) /\ ~ H!Free(next)
    BY <2>1, HFreeIs
  <2>4. HListInv' /\ HEntriesOf' = HPut(HEntriesOf, next, 0, n)
    BY <2>2, HNowHolds
  <2>5. ASSUME NEW g \in HHeads, Has(HEntriesOf[g], next)
        PROVE  PlaceOf(next, HEntriesOf[g]) + 0 = PlaceOf(next, HEntriesOf[g])
    <3>1. DOMAIN HEntriesOf[g] = 1 .. Len(HEntriesOf[g]) /\ Len(HEntriesOf[g]) \in Nat
      BY HTypes DEF HListInv
    <3>2. PlaceOf(next, HEntriesOf[g]) \in DOMAIN HEntriesOf[g]
      BY <2>5 DEF Has, PlaceOf
    <3> QED BY <3>1, <3>2
  <2>6. HPut(HEntriesOf, next, 0, n) =
          [h \in HHeads |-> IF H!In(next, h)
             THEN H!InsertAt(HEntriesOf[h], H!Position(next, HEntriesOf[h]), n) ELSE HEntriesOf[h]]
    BY <1>0, <2>5, HAbstractWords DEF HPut
  <2> QED BY <2>3, <2>4, <2>6 DEF H!AddBefore
<1>2. ASSUME HlistAddAfter(n, next) PROVE HListInv' /\ H!AddAfter(next, n)
  <2>1. /\ next \notin hashed /\ n \in hashed /\ hmem' = hlist_add_after(hmem, n, next)
        /\ hashed' = hashed \cup {next}
    BY <1>2 DEF HlistAddAfter, HCall
  <2>2. HHolds(hmem', hashed', HPut(HEntriesOf, n, 1, next))
    BY <2>1, HAddAfterHolds DEF HListInv
  <2>3. H!Free(next) /\ ~ H!Free(n)
    BY <2>1, HFreeIs
  <2>4. HListInv' /\ HEntriesOf' = HPut(HEntriesOf, n, 1, next)
    BY <2>2, HNowHolds
  <2>6. HPut(HEntriesOf, n, 1, next) =
          [h \in HHeads |-> IF H!In(n, h)
             THEN H!InsertAt(HEntriesOf[h], H!Position(n, HEntriesOf[h]) + 1, next)
             ELSE HEntriesOf[h]]
    BY <1>0, HAbstractWords DEF HPut
  <2> QED BY <2>3, <2>4, <2>6 DEF H!AddAfter
<1> QED BY <1>1, <1>2

(* deleting,                                                               *)
LEMMA HDelPromise ==
  ASSUME HListInv, NEW n \in HNodes, HlistDel(n) \/ HlistDelInit(n)
  PROVE  HListInv' /\ H!Del(n)
<1>1. hashed' = hashed \ {n}
  BY DEF HlistDel, HlistDelInit, HCall
<1>2. CASE HlistDel(n)
  <2>1. LooksHashed(hmem, hashed, n) /\ hmem' = hlist_del(hmem, n)
    BY <1>2 DEF HlistDel, HCall, LooksHashed, Faked
  <2>2. HHolds(hmem', hashed', HGone(HEntriesOf, n))
    BY <1>1, <2>1, HDelHolds DEF HListInv
  <2> QED BY <2>2, HNowHolds, HAbstractWords DEF H!Del
<1>3. CASE HlistDelInit(n)
  <2>1. /\ LooksHashed(hmem, hashed, n) \/ hlist_unhashed(hmem, n)
        /\ hmem' = hlist_del_init(hmem, n)
    BY <1>3 DEF HlistDelInit, HCall, LooksHashed, Faked
  <2>2. HHolds(hmem', hashed', HGone(HEntriesOf, n))
    BY <1>1, <2>1, HDelHolds DEF HListInv
  <2> QED BY <2>2, HNowHolds, HAbstractWords DEF H!Del
<1> QED BY <1>2, <1>3

(* initialising a node or a head,                                          *)
LEMMA HLoosePromise ==
  ASSUME HListInv, NEW n \in HNodes, HlistAddFake(n) \/ InitHlistNode(n)
  PROVE  HListInv' /\ UNCHANGED HEntriesOf
<1>1. n \notin hashed /\ hashed' = hashed /\ HIInv
  BY DEF HlistAddFake, InitHlistNode, HCall, HListInv, HHolds, HIInv
<1>2. Linked(hmem', hashed')
  BY <1>1, HCallsKeepHIInv DEF HIInv
<1>3. hmem \in HMemory /\ hashed \subseteq HNodes
  BY <1>1 DEF HIInv, Linked
<1>4. hmem'.first = hmem.first /\ \A x \in hashed : hmem'.next[x] = hmem.next[x]
  <2>1. CASE HlistAddFake(n)
    BY <1>3, <2>1 DEF HlistAddFake, HCall, hlist_add_fake, HMemory
  <2>2. CASE InitHlistNode(n)
    <3>1. hmem' = [hmem EXCEPT !.next[n] = NULL, !.pprev[n] = NULL]
      BY <2>2 DEF InitHlistNode, HCall, INIT_HLIST_NODE
    <3> QED BY <1>1, <1>3, <3>1, ResetIs
  <2> QED BY <2>1, <2>2
<1>5. HHolds(hmem', hashed', HEntriesOf)
  BY <1>1, <1>2, <1>4, HOutsideHolds DEF HListInv
<1> QED BY <1>5, HNowHolds

(* and moving a whole list.                                                *)
LEMMA HMovePromise ==
  ASSUME HListInv, NEW old \in HHeads, NEW new \in HHeads, HlistMoveList(old, new)
  PROVE  HListInv' /\ H!Replace(old, new)
<1>1. /\ old # new /\ hlist_empty(hmem, new) /\ hmem' = hlist_move_list(hmem, old, new)
      /\ hashed' = hashed
  BY DEF HlistMoveList, HCall
<1>2. /\ HEntriesOf[new] = <<>>
      /\ HHolds(hmem', hashed', [HEntriesOf EXCEPT ![new] = HEntriesOf[old], ![old] = <<>>])
  BY <1>1, HMoveListHolds DEF HListInv
<1> QED BY <1>2, HNowHolds DEF H!Replace

-----------------------------------------------------------------------------
(* A loop stands at place i of h's nodes, and has the ones from there left.*)
HStands(S, w, h, i) ==
  /\ i \in 1 .. Len(S[h]) + 1
  /\ w.pos = NodeAt(NULL, S[h], i)
  /\ Ahead(w.seen, w.due, S[h], i)

(* The loops over a hashed list: their types, and that one stands          *)
(* somewhere.                                                              *)
HWalks == [safe : BOOLEAN, pos : HNodes \cup {NULL}, seen : Seq(HNodes), due : Seq(HNodes)]

HWalking(S, w) == w \in HWalks /\ \E h \in HHeads : \E i : HStands(S, w, h, i)

(* The inductive invariant of the loops of hlist.h.                        *)
HWalkInv == hwalk # NoHwalk => HWalking(HEntriesOf, hwalk)

(* From any place of a list Nodes_from gives the nodes that are left.      *)
LEMMA HFromHere ==
  ASSUME NEW m, NEW s, NEW S, HHolds(m, s, S), NEW h \in HHeads, NEW i \in 1 .. Len(S[h]) + 1
  PROVE  LET due == Nodes_from(m, NodeAt(NULL, S[h], i))
         IN due \in Seq(HNodes) /\ Ahead(<<>>, due, S[h], i)
<1> DEFINE t == S[h]
           nx == m.next
           u == [k \in 1 .. Len(t) + 1 - i |-> t[i + k - 1]]
<1>1. /\ t \in Seq(HNodes) /\ Len(t) \in Nat /\ \A k \in 1 .. Len(t) : t[k] \in HNodes
      /\ \A j, k \in 1 .. Len(t) : t[j] = t[k] => j = k
      /\ \A k \in 1 .. Len(t) : nx[t[k]] = NodeAt(NULL, t, k + 1)
      /\ i \in 1 .. Len(t) + 1
  BY HTypes
<1> HIDE DEF t, nx
<1>3. /\ u \in Seq(HNodes) /\ Len(u) = Len(t) + 1 - i
      /\ \A k \in 1 .. Len(u) : u[k] = t[i + k - 1] /\ i + k - 1 \in 1 .. Len(t)
  <2>1. Len(t) + 1 - i \in Nat /\ \A k \in 1 .. Len(t) + 1 - i : i + k - 1 \in 1 .. Len(t)
    BY <1>1
  <2>2. \A k \in 1 .. Len(t) + 1 - i : t[i + k - 1] \in HNodes
    BY <1>1, <2>1
  <2> QED BY <2>1, <2>2
<1> HIDE DEF u
<1>4. \A j, k \in 1 .. Len(u) : u[j] = u[k] => j = k
  <2> SUFFICES ASSUME NEW j \in 1 .. Len(u), NEW k \in 1 .. Len(u), u[j] = u[k] PROVE j = k
    OBVIOUS
  <2>1. /\ u[j] = t[i + j - 1] /\ i + j - 1 \in 1 .. Len(t)
        /\ u[k] = t[i + k - 1] /\ i + k - 1 \in 1 .. Len(t)
    BY <1>3
  <2>2. i + j - 1 = i + k - 1
    BY <1>1, <2>1
  <2> QED BY <1>1, <1>3, <2>2
<1>5. \A k \in 1 .. Len(u) + 1 : NodeAt(NULL, u, k) = NodeAt(NULL, t, i + k - 1)
  <2> TAKE k \in 1 .. Len(u) + 1
  <2>1. k \in 1 .. Len(u) <=> i + k - 1 \in 1 .. Len(t)
    BY <1>1, <1>3
  <2> QED BY <1>3, <2>1 DEF NodeAt
<1>6. \A k \in 1 .. Len(u) : nx[u[k]] = NodeAt(NULL, u, k + 1)
  <2> TAKE k \in 1 .. Len(u)
  <2>1. /\ k + 1 \in 1 .. Len(u) + 1 /\ i + (k + 1) - 1 = (i + k - 1) + 1
        /\ i + k - 1 \in 1 .. Len(t) /\ t[i + k - 1] = u[k]
    BY <1>1, <1>3
  <2> QED BY <1>1, <1>5, <2>1
<1>7. Follow(HNodes, nx, NodeAt(NULL, u, 1)) = u
  <2>1. NULL \notin HNodes /\ IsFiniteSet(HNodes) /\ u \in Seq(HNodes)
    BY <1>3, HlistsAssumption
  <2>2. /\ \A j, k \in 1 .. Len(u) : u[j] = u[k] => j = k
        /\ \A k \in 1 .. Len(u) : nx[u[k]] = NodeAt(NULL, u, k + 1)
    BY <1>4, <1>6
  <2> QED BY <2>1, <2>2, FollowFinds
<1>8. NodeAt(NULL, u, 1) = NodeAt(NULL, t, i)
  <2>1. 1 \in 1 .. Len(u) + 1 /\ i + 1 - 1 = i
    BY <1>1, <1>3
  <2> QED BY <1>5, <2>1
<1>9. Nodes_from(m, NodeAt(NULL, t, i)) = u
  BY <1>7, <1>8, FollowIs DEF nx
<1>10. Ahead(<<>>, u, t, i)
  <2>1. Len(<<>>) = 0 /\ Len(u) = 0 + Len(t) + 1 - i
    BY <1>1, <1>3
  <2>2. \A k \in i .. Len(t) : u[0 + 1 + k - i] = t[k]
    <3> TAKE k \in i .. Len(t)
    <3>1. 0 + 1 + k - i \in 1 .. Len(u) /\ i + (0 + 1 + k - i) - 1 = k
      BY <1>1, <1>3
    <3> QED BY <1>3, <3>1
  <2> QED BY <2>1, <2>2 DEF Ahead
<1> QED BY <1>3, <1>9, <1>10 DEF t

(* A loop starts at the first node with all of them due,                   *)
LEMMA HLoopStarts ==
  ASSUME HListInv, NEW safe \in BOOLEAN, NEW h \in HHeads, NEW i \in 1 .. Len(HEntriesOf[h]) + 1,
         HForEach(safe, NodeAt(NULL, HEntriesOf[h], i))
  PROVE  HWalkInv'
<1> DEFINE first == NodeAt(NULL, HEntriesOf[h], i)
           due == Nodes_from(hmem, first)
<1>1. due \in Seq(HNodes) /\ Ahead(<<>>, due, HEntriesOf[h], i)
  BY HFromHere DEF HListInv
<1>2. hwalk' = [safe |-> safe, pos |-> first, seen |-> <<>>, due |-> due]
      /\ hmem' = hmem /\ hashed' = hashed
  BY DEF HForEach
<1>3. HEntriesOf' = HEntriesOf
  BY <1>2 DEF HEntriesOf
<1>4. first \in HNodes \cup {NULL}
  BY HTypes DEF HListInv, NodeAt
<1> HIDE DEF first, due
<1>5. hwalk' \in HWalks
  BY <1>1, <1>2, <1>4 DEF HWalks
<1>6. HStands(HEntriesOf, hwalk', h, i)
  BY <1>1, <1>2 DEF HStands, first
<1> QED BY <1>3, <1>5, <1>6 DEF HWalkInv, HWalking

(* whichever loop it is.                                                   *)
LEMMA HLoopsStart ==
  ASSUME HListInv, NEW safe \in BOOLEAN, HForEachFrom(safe)
  PROVE  HWalkInv'
<1>1. ASSUME NEW h \in HHeads, HForEach(safe, hmem.first[h]) PROVE HWalkInv'
  <2>1. /\ hmem.first[h] = NodeAt(NULL, HEntriesOf[h], 1) /\ Len(HEntriesOf[h]) \in Nat
    BY HTypes DEF HListInv
  <2>2. 1 \in 1 .. Len(HEntriesOf[h]) + 1
    BY <2>1
  <2> QED BY <1>1, <2>1, <2>2, HLoopStarts
<1>2. ASSUME NEW n \in hashed, HForEach(safe, n) \/ HForEach(safe, hmem.next[n])
      PROVE  HWalkInv'
  <2>1. PICK h \in HHeads : \E i \in 1 .. Len(HEntriesOf[h]) : HEntriesOf[h][i] = n
    BY DEF HListInv, HHolds
  <2>2. PICK i \in 1 .. Len(HEntriesOf[h]) : HEntriesOf[h][i] = n
    BY <2>1
  <2>3. Len(HEntriesOf[h]) \in Nat /\ hmem.next[n] = NodeAt(NULL, HEntriesOf[h], i + 1)
    BY <2>2, HTypes DEF HListInv
  <2>4. /\ n = NodeAt(NULL, HEntriesOf[h], i) /\ i \in 1 .. Len(HEntriesOf[h]) + 1
        /\ i + 1 \in 1 .. Len(HEntriesOf[h]) + 1
    BY <2>2, <2>3 DEF NodeAt
  <2>5. CASE HForEach(safe, n)
    BY <2>4, <2>5, HLoopStarts
  <2>6. CASE HForEach(safe, hmem.next[n])
    <3>1. HForEach(safe, NodeAt(NULL, HEntriesOf[h], i + 1))
      BY <2>3, <2>6
    <3> QED BY <2>4, <3>1, HLoopStarts
  <2> QED BY <1>2, <2>5, <2>6
<1> QED BY <1>1, <1>2 DEF HForEachFrom

(* One field at a time: what an iteration makes of the loop's record.      *)
LEMMA HBodyIs ==
  ASSUME NEW w \in HWalks, NEW seen, NEW pos
  PROVE  LET u == [w EXCEPT !.seen = seen, !.pos = pos]
         IN u = [safe |-> w.safe, pos |-> pos, seen |-> seen, due |-> w.due]
<1> DEFINE v == [w EXCEPT !.seen = seen]
           u == [v EXCEPT !.pos = pos]
<1>1. v = [safe |-> w.safe, pos |-> w.pos, seen |-> seen, due |-> w.due]
  BY DEF HWalks
<1> HIDE DEF v
<1>2. u = [safe |-> w.safe, pos |-> pos, seen |-> seen, due |-> w.due]
  BY <1>1
<1> QED BY <1>2 DEF v

(* Where a body that is being run stands.                                  *)
HBodyStands(h, i) ==
  LET t == HEntriesOf[h] IN
  /\ t \in Seq(HNodes) /\ Len(t) \in Nat /\ i \in 1 .. Len(t)
  /\ t[i] = hwalk.pos /\ hmem.next[hwalk.pos] = NodeAt(NULL, t, i + 1)
  /\ Ahead(Append(hwalk.seen, hwalk.pos), hwalk.due, t, i + 1)

(* A body runs at a node of the list it walks.                             *)
LEMMA HBodyIsAtNode ==
  ASSUME HListInv, HWalkInv, hwalk # NoHwalk, hwalk.pos \in hashed
  PROVE  /\ hwalk \in HWalks /\ hwalk.pos \in HNodes
         /\ Append(hwalk.seen, hwalk.pos) \in Seq(HNodes)
         /\ \E h \in HHeads : \E i : HBodyStands(h, i)
<1>1. hwalk \in HWalks /\ hashed \subseteq HNodes /\ hwalk.pos \in HNodes
  BY DEF HWalkInv, HWalking, HListInv, HHolds, Linked
<1>2. hwalk.seen \in Seq(HNodes) /\ hwalk.due \in Seq(HNodes)
  BY <1>1 DEF HWalks
<1>3. PICK h \in HHeads : \E i : HStands(HEntriesOf, hwalk, h, i)
  BY DEF HWalkInv, HWalking
<1>4. PICK i : HStands(HEntriesOf, hwalk, h, i)
  BY <1>3
<1> DEFINE t == HEntriesOf[h]
<1>5. /\ t \in Seq(HNodes) /\ Len(t) \in Nat
      /\ \A k \in 1 .. Len(t) : hmem.next[t[k]] = NodeAt(NULL, t, k + 1)
  BY HTypes DEF HListInv
<1>6. /\ i \in 1 .. Len(t) + 1 /\ hwalk.pos = NodeAt(NULL, t, i)
      /\ Ahead(hwalk.seen, hwalk.due, t, i)
  BY <1>4 DEF HStands
<1> HIDE DEF t
<1>7. i \in 1 .. Len(t) /\ t[i] = hwalk.pos
  BY <1>1, <1>5, <1>6, HlistsAssumption DEF NodeAt
<1>8. Ahead(Append(hwalk.seen, t[i]), hwalk.due, t, i + 1)
  BY <1>2, <1>5, <1>6, <1>7, AheadOn
<1>9. HBodyStands(h, i)
  BY <1>5, <1>7, <1>8 DEF HBodyStands, t
<1>10. Append(hwalk.seen, hwalk.pos) \in Seq(HNodes)
  BY <1>1, <1>2
<1> QED BY <1>1, <1>9, <1>10

(* Moving on keeps the walk at its place,                                  *)
LEMMA HLookWalks ==
  ASSUME HListInv, HWalkInv, HLook
  PROVE  HListInv' /\ HWalkInv'
<1>1. /\ hwalk # NoHwalk /\ hwalk.pos \in hashed /\ hmem' = hmem /\ hashed' = hashed
      /\ hwalk' = [hwalk EXCEPT !.seen = Append(hwalk.seen, hwalk.pos),
                                !.pos = hmem.next[hwalk.pos]]
  BY HBodyIsAtNode DEF HLook, HBody, HWalks
<1>2. HEntriesOf' = HEntriesOf /\ HListInv'
  BY <1>1 DEF HEntriesOf, HListInv
<1>3. PICK h \in HHeads : \E i : HBodyStands(h, i)
  BY <1>1, HBodyIsAtNode
<1>4. PICK i : HBodyStands(h, i)
  BY <1>3
<1> DEFINE t == HEntriesOf[h]
           seen == Append(hwalk.seen, hwalk.pos)
<1>5. /\ t \in Seq(HNodes) /\ Len(t) \in Nat /\ i \in 1 .. Len(t)
      /\ hmem.next[hwalk.pos] = NodeAt(NULL, t, i + 1)
      /\ Ahead(seen, hwalk.due, t, i + 1)
  BY <1>4 DEF HBodyStands
<1>6. /\ hwalk' = [safe |-> hwalk.safe, pos |-> NodeAt(NULL, t, i + 1), seen |-> seen,
                   due |-> hwalk.due]
      /\ hwalk.safe \in BOOLEAN /\ hwalk.due \in Seq(HNodes) /\ seen \in Seq(HNodes)
  <2>1. hwalk \in HWalks /\ seen \in Seq(HNodes)
    BY <1>1, HBodyIsAtNode
  <2> HIDE DEF t, seen
  <2> QED BY <1>1, <1>5, <2>1, HBodyIs DEF HWalks, seen
<1> HIDE DEF t, seen
<1>7. NodeAt(NULL, t, i + 1) \in HNodes \cup {NULL}
  BY <1>5 DEF NodeAt
<1>8. hwalk' \in HWalks
  BY <1>6, <1>7 DEF HWalks
<1>9. HStands(HEntriesOf, hwalk', h, i + 1)
  BY <1>5, <1>6 DEF HStands, t
<1> QED BY <1>2, <1>8, <1>9 DEF HWalkInv, HWalking

(* also when the body has deleted the node it stood at.                    *)
LEMMA HDelPosWalks ==
  ASSUME HListInv, HWalkInv, HDelPos
  PROVE  HListInv' /\ HWalkInv'
<1>1. /\ hwalk # NoHwalk /\ hwalk.safe /\ hwalk.pos \in hashed
      /\ hashed' = hashed \ {hwalk.pos}
      /\ hmem' = hlist_del(hmem, hwalk.pos) \/ hmem' = hlist_del_init(hmem, hwalk.pos)
      /\ hwalk' = [hwalk EXCEPT !.seen = Append(hwalk.seen, hwalk.pos),
                                !.pos = hmem.next[hwalk.pos]]
  BY HBodyIsAtNode DEF HDelPos, HBody, HWalks
<1>2. hwalk.pos \in HNodes /\ LooksHashed(hmem, hashed, hwalk.pos)
  BY <1>1, HBodyIsAtNode DEF LooksHashed
<1>3. HHolds(hmem', hashed', HGone(HEntriesOf, hwalk.pos))
  BY <1>1, <1>2, HDelHolds DEF HListInv
<1>4. HListInv' /\ HEntriesOf' = HGone(HEntriesOf, hwalk.pos)
  BY <1>3, HNowHolds
<1>5. PICK h \in HHeads : \E i : HBodyStands(h, i)
  BY <1>1, HBodyIsAtNode
<1>6. PICK i : HBodyStands(h, i)
  BY <1>5
<1> DEFINE t == HEntriesOf[h]
           u == Removed(t, i)
           seen == Append(hwalk.seen, hwalk.pos)
<1>7. /\ t \in Seq(HNodes) /\ Len(t) \in Nat /\ i \in 1 .. Len(t) /\ t[i] = hwalk.pos
      /\ hmem.next[hwalk.pos] = NodeAt(NULL, t, i + 1)
      /\ Ahead(seen, hwalk.due, t, i + 1)
  BY <1>6 DEF HBodyStands
<1>8. /\ hwalk' = [safe |-> hwalk.safe, pos |-> NodeAt(NULL, t, i + 1), seen |-> seen,
                   due |-> hwalk.due]
      /\ hwalk.safe \in BOOLEAN /\ hwalk.due \in Seq(HNodes) /\ seen \in Seq(HNodes)
  <2>1. hwalk \in HWalks /\ seen \in Seq(HNodes)
    BY <1>1, HBodyIsAtNode
  <2> HIDE DEF t, seen
  <2> QED BY <1>1, <1>7, <2>1, HBodyIs DEF HWalks, seen
<1>9. HEntriesOf'[h] = u
  <2>1. HGone(HEntriesOf, t[i]) = [HEntriesOf EXCEPT ![h] = Removed(@, i)]
    BY <1>7, HGoneIs DEF HListInv
  <2>2. HEntriesOf = [g \in HHeads |-> HEntriesOf[g]]
    BY DEF HEntriesOf
  <2> QED BY <1>4, <1>7, <2>1, <2>2
<1> HIDE DEF t, seen
<1>10. /\ u \in Seq(HNodes) /\ Len(u) = Len(t) - 1
       /\ \A k \in 1 .. Len(t) - 1 : u[k] = IF k < i THEN t[k] ELSE t[k + 1]
  BY <1>7, RemovedIs
<1>11. Ahead(seen, hwalk.due, u, i)
  BY <1>7, <1>8, AheadTaken
<1> HIDE DEF u
<1>12. i \in 1 .. Len(u) + 1
  BY <1>7, <1>10
<1>13. NodeAt(NULL, u, i) = NodeAt(NULL, t, i + 1)
  <2>1. i \in 1 .. Len(u) <=> i + 1 \in 1 .. Len(t)
    BY <1>7, <1>10
  <2>2. ~ (i < i)
    BY <1>7
  <2> QED BY <1>10, <2>1, <2>2 DEF NodeAt
<1>14. NodeAt(NULL, t, i + 1) \in HNodes \cup {NULL}
  BY <1>7 DEF NodeAt
<1>15. hwalk' \in HWalks
  BY <1>8, <1>14 DEF HWalks
<1>16. HStands(HEntriesOf', hwalk', h, i)
  BY <1>8, <1>9, <1>11, <1>12, <1>13 DEF HStands
<1> QED BY <1>4, <1>15, <1>16 DEF HWalkInv, HWalking

(* A loop that ends behind the last node has seen all that were due.       *)
LEMMA HLoopSeesAll ==
  ASSUME HWalkInv, HListInv, hwalk # NoHwalk, hwalk.pos = NULL
  PROVE  hwalk.seen = hwalk.due
<1>1. PICK h \in HHeads : \E i : HStands(HEntriesOf, hwalk, h, i)
  BY DEF HWalkInv, HWalking
<1>2. PICK i : HStands(HEntriesOf, hwalk, h, i)
  BY <1>1
<1> DEFINE t == HEntriesOf[h]
<1>3. /\ t \in Seq(HNodes) /\ Len(t) \in Nat /\ \A k \in 1 .. Len(t) : t[k] # NULL
      /\ i \in 1 .. Len(t) + 1 /\ NodeAt(NULL, t, i) = NULL
      /\ Ahead(hwalk.seen, hwalk.due, t, i)
  BY <1>2, HTypes DEF HStands, HListInv
<1>4. hwalk.seen \in Seq(HNodes) /\ hwalk.due \in Seq(HNodes)
  BY DEF HWalkInv, HWalking, HWalks
<1> HIDE DEF t
<1>5. i = Len(t) + 1
  BY <1>3 DEF NodeAt
<1>6. Len(hwalk.due) = Len(hwalk.seen)
  <2>1. Len(hwalk.seen) \in Nat /\ Len(hwalk.due) = Len(hwalk.seen) + Len(t) + 1 - i
    BY <1>3, <1>4 DEF Ahead
  <2>2. ASSUME NEW a \in Nat, NEW b \in Nat PROVE a + b + 1 - (b + 1) = a
    OBVIOUS
  <2> QED BY <1>3, <1>5, <2>1, <2>2
<1>7. \A k \in 1 .. Len(hwalk.seen) : hwalk.due[k] = hwalk.seen[k]
  BY <1>3 DEF Ahead
<1> QED BY <1>4, <1>6, <1>7

(* At the start nothing is hashed and nothing walks.                       *)
LEMMA HInitInv == HInit => HListInv /\ HWalkInv /\ HEntriesOf = H!Empty
<1> SUFFICES ASSUME HInit PROVE HListInv /\ HWalkInv /\ HEntriesOf = H!Empty
  OBVIOUS
<1> DEFINE S == [h \in HHeads |-> <<>>]
<1>1. Linked(hmem, hashed) /\ hashed = {}
  BY InitHIInv DEF HIInv, HInit
<1>2. \A h \in HHeads : HRuns(hmem, h, S[h])
  BY DEF HInit, HRuns, NodeAt
<1>3. HHolds(hmem, hashed, S)
  BY <1>1, <1>2 DEF HHolds
<1>4. HEntriesOf = S
  BY <1>3, HHoldsIs DEF HEntriesOf
<1> QED BY <1>3, <1>4 DEF HListInv, HWalkInv, HInit, H!Empty

(* Every step keeps the lists held and the walk standing.                  *)
LEMMA HStepInv == HListInv /\ HWalkInv /\ [HNext]_hvars => HListInv' /\ HWalkInv'
<1> SUFFICES ASSUME HListInv, HWalkInv, [HNext]_hvars PROVE HListInv' /\ HWalkInv'
  OBVIOUS
<1>1. ASSUME hwalk = NoHwalk, UNCHANGED hwalk PROVE HWalkInv'
  BY <1>1 DEF HWalkInv
<1>2. ASSUME NEW n \in HNodes,
             InitHlistNode(n) \/ HlistAddFake(n) \/ HlistDel(n) \/ HlistDelInit(n)
      PROVE  HListInv' /\ HWalkInv'
  <2>1. hwalk = NoHwalk /\ UNCHANGED hwalk
    BY <1>2 DEF InitHlistNode, HlistAddFake, HlistDel, HlistDelInit, HCall
  <2> QED BY <1>1, <1>2, <2>1, HLoosePromise, HDelPromise
<1>3. ASSUME NEW n \in HNodes, NEW h \in HHeads, HlistAddHead(n, h)
      PROVE  HListInv' /\ HWalkInv'
  <2>1. hwalk = NoHwalk /\ UNCHANGED hwalk
    BY <1>3 DEF HlistAddHead, HCall
  <2> QED BY <1>1, <1>3, <2>1, HAddPromise
<1>4. ASSUME NEW n \in HNodes, NEW next \in HNodes,
             HlistAddBefore(n, next) \/ HlistAddAfter(n, next)
      PROVE  HListInv' /\ HWalkInv'
  <2>1. hwalk = NoHwalk /\ UNCHANGED hwalk
    BY <1>4 DEF HlistAddBefore, HlistAddAfter, HCall
  <2> QED BY <1>1, <1>4, <2>1, HAddBesidePromise
<1>5. ASSUME NEW old \in HHeads, NEW new \in HHeads, HlistMoveList(old, new)
      PROVE  HListInv' /\ HWalkInv'
  <2>1. hwalk = NoHwalk /\ UNCHANGED hwalk
    BY <1>5 DEF HlistMoveList, HCall
  <2> QED BY <1>1, <1>5, <2>1, HMovePromise
<1>6. ASSUME NEW safe \in BOOLEAN, HForEachFrom(safe) PROVE HListInv' /\ HWalkInv'
  <2>1. hmem' = hmem /\ hashed' = hashed
    BY <1>6 DEF HForEachFrom, HForEach
  <2>2. HListInv'
    BY <2>1, HNowHolds DEF HListInv
  <2> QED BY <1>6, <2>2, HLoopsStart
<1>7. CASE HLook
  BY <1>7, HLookWalks
<1>8. CASE HDelPos
  BY <1>8, HDelPosWalks
<1>9. CASE HLeave
  <2>1. hmem' = hmem /\ hashed' = hashed /\ hwalk' = NoHwalk
    BY <1>9 DEF HLeave
  <2> QED BY <2>1, HNowHolds DEF HListInv, HWalkInv
<1>10. CASE UNCHANGED hvars
  <2>1. hmem' = hmem /\ hashed' = hashed /\ hwalk' = hwalk
    BY <1>10 DEF hvars
  <2>2. HListInv' /\ HEntriesOf' = HEntriesOf
    BY <2>1, HNowHolds DEF HListInv
  <2> QED BY <2>1, <2>2 DEF HWalkInv
<1> QED BY <1>2, <1>3, <1>4, <1>5, <1>6, <1>7, <1>8, <1>9, <1>10 DEF HNext

(* Every call of hlist.h does to the lists of hashed nodes what its name   *)
(* says and nothing else, and a loop over them ends having met every node  *)
(* it was due to meet.                                                     *)
THEOREM HlistCallsKeepTheirPromise == HSpec => EveryHlistCallKeepsItsPromise
<1>1. HListInv /\ HWalkInv => HCallsDoAsNamed
  <2> SUFFICES ASSUME HListInv, HWalkInv PROVE HCallsDoAsNamed
    OBVIOUS
  <2>1. HLeave /\ hwalk.pos = NULL => hwalk.seen = hwalk.due
    BY HLoopSeesAll DEF HLeave
  <2> QED BY <2>1, HAddPromise, HAddBesidePromise, HDelPromise, HLoosePromise, HMovePromise
          DEF HCallsDoAsNamed
<1>2. HListInv /\ HWalkInv /\ [HNext]_hvars => [HCallsDoAsNamed]_hvars
  BY <1>1
<1> QED BY <1>2, HInitInv, HStepInv, PTL DEF HSpec, EveryHlistCallKeepsItsPromise

-----------------------------------------------------------------------------
(* The memory m after the first k bytes of a copy that respects the source.*)
Moved(m, dest, src, from, to) ==
  [a \in DOMAIN m |-> IF a \in dest + from .. dest + to - 1
                      THEN m[a - dest + src] ELSE m[a]]

(* memcpy and memcpyrev move what the call asks for, byte by byte: every   *)
(* intermediate memory is known.                                           *)
LEMMA CopiedUpwards ==
  ASSUME NEW m, NEW dest, NEW src, NEW n, Copyable(m, dest, src, n), dest <= src
  PROVE  memcpy(m, dest, src, n) = Moved(m, dest, src, 0, n)
<1> DEFINE Byte(f, i) == IF i = 0 THEN m
                         ELSE [f[i - 1] EXCEPT ![dest + i - 1] = f[i - 1][src + i - 1]]
           Step(f) == [i \in 0 .. n |-> Byte(f, i)]
           g == [i \in 0 .. n |-> Moved(m, dest, src, 0, i)]
           copied == CHOOSE f : f = Step(f)
<1>1. ASSUME NEW i \in 1 .. n
      PROVE  Moved(m, dest, src, 0, i)
               = [Moved(m, dest, src, 0, i - 1) EXCEPT ![dest + i - 1]
                    = Moved(m, dest, src, 0, i - 1)[src + i - 1]]
  BY DEF Moved, Copyable
<1>2. Moved(m, dest, src, 0, 0) = m
  BY DEF Moved, Copyable
<1>3. \A i \in 0 .. n : g[i] = Byte(g, i)
  <2> SUFFICES ASSUME NEW i \in 0 .. n PROVE g[i] = Byte(g, i)
    OBVIOUS
  <2>1. CASE i = 0
    BY <1>2, <2>1
  <2>2. CASE i # 0
    <3>1. i \in 1 .. n /\ i - 1 \in 0 .. n /\ n \in Nat
      BY <2>2 DEF Copyable
    <3> QED BY <1>1, <2>2, <3>1
  <2> QED BY <2>1, <2>2
<1>4. g = Step(g)
  BY <1>3
<1>5. copied = Step(copied)
  <2> HIDE DEF g, Step
  <2> QED BY <1>4
<1>6. \A i \in 0 .. n : copied[i] = Byte(copied, i)
  <2> HIDE DEF copied
  <2> QED BY <1>5
<1> DEFINE S == {i \in 0 .. n : copied[i] = g[i]}
<1>7. 0 \in S /\ n \in Nat
  <2>1. n \in Nat /\ 0 \in 0 .. n
    BY DEF Copyable
  <2> HIDE DEF copied, g
  <2>2. copied[0] = m /\ g[0] = m
    BY <1>3, <1>6, <2>1
  <2> QED BY <2>1, <2>2
<1>8. ASSUME NEW i \in 1 .. n, i - 1 \in S PROVE i \in S
  <2>1. i \in 0 .. n /\ i # 0 /\ copied[i - 1] = g[i - 1]
    BY <1>8
  <2> HIDE DEF copied, g
  <2>2. copied[i] = Byte(copied, i) /\ g[i] = Byte(g, i)
    BY <1>3, <1>6, <2>1
  <2> QED BY <2>1, <2>2
<1>9. n \in S
  <2> HIDE DEF S
  <2> QED BY <1>7, <1>8, Ascending
<1>10. memcpy(m, dest, src, n) = copied[n]
  BY DEF memcpy
<1> QED BY <1>7, <1>9, <1>10

(* The copy from the last byte to the first.                               *)
LEMMA CopiedDownwards ==
  ASSUME NEW m, NEW dest, NEW src, NEW n, Copyable(m, dest, src, n), dest >= src
  PROVE  memcpyrev(m, dest, src, n) = Moved(m, dest, src, 0, n)
<1> DEFINE Byte(f, i) == IF i = n THEN m
                         ELSE [f[i + 1] EXCEPT ![dest + i] = f[i + 1][src + i]]
           Step(f) == [i \in 0 .. n |-> Byte(f, i)]
           g == [i \in 0 .. n |-> Moved(m, dest, src, i, n)]
           copied == CHOOSE f : f = Step(f)
<1>1. ASSUME NEW i \in 0 .. n - 1
      PROVE  Moved(m, dest, src, i, n)
               = [Moved(m, dest, src, i + 1, n) EXCEPT ![dest + i]
                    = Moved(m, dest, src, i + 1, n)[src + i]]
  BY DEF Moved, Copyable
<1>2. Moved(m, dest, src, n, n) = m
  BY DEF Moved, Copyable
<1>3. \A i \in 0 .. n : g[i] = Byte(g, i)
  <2> SUFFICES ASSUME NEW i \in 0 .. n PROVE g[i] = Byte(g, i)
    OBVIOUS
  <2>1. CASE i = n
    BY <1>2, <2>1
  <2>2. CASE i # n
    <3>1. i \in 0 .. n - 1 /\ i + 1 \in 0 .. n /\ n \in Nat
      BY <2>2 DEF Copyable
    <3> QED BY <1>1, <2>2, <3>1
  <2> QED BY <2>1, <2>2
<1>4. g = Step(g)
  BY <1>3
<1>5. copied = Step(copied)
  <2> HIDE DEF g, Step
  <2> QED BY <1>4
<1>6. \A i \in 0 .. n : copied[i] = Byte(copied, i)
  <2> HIDE DEF copied
  <2> QED BY <1>5
<1> DEFINE S == {i \in 0 .. n : copied[i] = g[i]}
<1>7. n \in S /\ n \in Nat
  <2>1. n \in Nat /\ n \in 0 .. n
    BY DEF Copyable
  <2> HIDE DEF copied, g
  <2>2. copied[n] = m /\ g[n] = m
    BY <1>3, <1>6, <2>1
  <2> QED BY <2>1, <2>2
<1>8. ASSUME NEW i \in 0 .. n - 1, i + 1 \in S PROVE i \in S
  <2>1. i \in 0 .. n /\ i # n /\ copied[i + 1] = g[i + 1]
    BY <1>7, <1>8
  <2> HIDE DEF copied, g
  <2>2. copied[i] = Byte(copied, i) /\ g[i] = Byte(g, i)
    BY <1>3, <1>6, <2>1
  <2> QED BY <2>1, <2>2
<1>9. 0 \in S
  <2> HIDE DEF S
  <2> QED BY <1>7, <1>8, Descending
<1>10. memcpyrev(m, dest, src, n) = copied[0]
  BY DEF memcpyrev
<1> QED BY <1>7, <1>9, <1>10

-----------------------------------------------------------------------------
(* A call that is over has given what its function computes.               *)
LibcInv ==
  /\ call \in Calls
  /\ pc = "call" => call.fn # "printf"
  /\ pc \in {"format", "panic"} => call.fn = "printf"
  /\ pc = "done" /\ call.fn = "memcpy" =>
       result = memcpy(call.mem, call.dest, call.src, call.n)
  /\ pc = "done" /\ call.fn = "memcpyrev" =>
       result = memcpyrev(call.mem, call.dest, call.src, call.n)
  /\ pc = "done" /\ call.fn = "inttostring" => result = inttostring(call.nb, call.base)
  /\ pc = "done" /\ call.fn = "do_int" => result = do_int(call.arg)

(* The invariant of the conversions and copies.                            *)
LEMMA LibcInvHolds == LibcSpec => []LibcInv
<1>1. LibcInit => LibcInv
  BY DEF LibcInit, LibcInv
<1>2. LibcInv /\ [LibcNext]_libcvars => LibcInv'
  <2> SUFFICES ASSUME LibcInv, [LibcNext]_libcvars PROVE LibcInv'
    OBVIOUS
  <2>1. CASE Iterate
    BY <2>1 DEF LibcInv, Iterate
  <2>2. CASE Panic
    BY <2>2 DEF LibcInv, Panic
  <2>3. CASE Rest
    BY <2>3 DEF LibcInv, Rest
  <2>4. CASE pc = "call" /\ Number_to_text
    BY <2>4 DEF LibcInv, Number_to_text, Give
  <2>5. CASE pc = "call" /\ Copy
    BY <2>5 DEF LibcInv, Copy, Give
  <2>6. CASE pc = "call" /\ IntCommand
    BY <2>6 DEF LibcInv, IntCommand, Give
  <2>7. CASE UNCHANGED libcvars
    BY <2>7 DEF LibcInv, libcvars
  <2> QED BY <2>1, <2>2, <2>3, <2>4, <2>5, <2>6, <2>7 DEF LibcNext
<1> QED BY <1>1, <1>2, PTL DEF LibcSpec

(* A copy that has ended has moved every byte, the buffers overlapping or  *)
(* not.                                                                    *)
LEMMA CopiesRight == LibcInv => CopiesSurviveOverlap
<1> SUFFICES ASSUME LibcInv, pc = "done",
                    \/ call.fn = "memcpy" /\ call.dest <= call.src
                    \/ call.fn = "memcpyrev" /\ call.dest >= call.src,
                    NEW a \in DOMAIN call.mem
             PROVE  result[a] = IF a \in call.dest .. call.dest + call.n - 1
                                THEN call.mem[a - call.dest + call.src] ELSE call.mem[a]
  BY DEF CopiesSurviveOverlap
<1>1. Copyable(call.mem, call.dest, call.src, call.n)
  BY LibcAssumption DEF LibcInv
<1>2. result = Moved(call.mem, call.dest, call.src, 0, call.n)
  BY <1>1, CopiedUpwards, CopiedDownwards DEF LibcInv
<1>3. call.dest + 0 = call.dest
  BY <1>1 DEF Copyable
<1> QED BY <1>2, <1>3 DEF Moved

(* memcpy towards lower addresses and memcpyrev towards higher ones leave  *)
(* at the destination what the source held before the call, however the    *)
(* two buffers overlap, and write no byte outside the destination: for     *)
(* buffers of any length.                                                  *)
THEOREM OverlapsSurvive == LibcSpec => []CopiesSurviveOverlap
  BY LibcInvHolds, CopiesRight, PTL

-----------------------------------------------------------------------------
(* The bases the program converts with.                                    *)
Bases == 2 .. 16

(* Division by a base: what the digits of a number are made of.            *)
LEMMA DivMod ==
  ASSUME NEW n \in Nat, NEW b \in Bases
  PROVE  /\ n \div b \in Nat /\ n % b \in 0 .. b - 1 /\ n \div b <= n
         /\ n # 0 => n \div b < n
         /\ (n \div b) * b + (n % b) = n
<1>1. n \div b \in Nat /\ n % b \in 0 .. b - 1 /\ n \div b <= n /\ (n # 0 => n \div b < n)
  BY DEF Bases
<1>2. (n \div b) * b + (n % b) = n
  <2> DEFINE d == n \div b
  <2>1. b \in Nat /\ b > 0 /\ d \in Nat
    BY <1>1 DEF Bases
  <2>2. n % b = n - b * d
    BY <2>1
  <2> HIDE DEF d
  <2> DEFINE p == d * b
             r == n % b
  <2>3. p = b * d /\ p \in Nat
    BY <2>1
  <2> HIDE DEF p, r
  <2>4. r = n - p
    BY <2>2, <2>3 DEF r
  <2>5. p + r = n
    BY <2>3, <2>4
  <2> QED BY <2>5 DEF p, r, d
<1> QED BY <1>1, <1>2

(* A digit is one of its base, and worth what it stands for, in capitals   *)
(* or not.                                                                 *)
LEMMA DigitIs ==
  ASSUME NEW b \in Bases, NEW d \in 0 .. b - 1
  PROVE  /\ Digit(d) \in Nat /\ tolower(Digit(d)) \in Nat
         /\ isdigitinbase(Digit(d), b) /\ isdigitinbase(tolower(Digit(d)), b)
         /\ Worth(Digit(d)) = d /\ Worth(tolower(Digit(d))) = d
         /\ Digit(d) # 45 /\ Digit(d) # 120
         /\ d < 10 => isdigit(Digit(d))
<1>1. CASE d < 10
  <2>1. /\ Digit(d) = d + 48 /\ isdigit(Digit(d)) /\ ~isupper(Digit(d))
    BY <1>1 DEF Digit, isdigit, CT_DIG, isupper, CT_UP
  <2>2. tolower(Digit(d)) = Digit(d)
    BY <2>1 DEF tolower
  <2> QED BY <1>1, <2>1, <2>2 DEF isdigitinbase, Worth, Bases
<1>2. CASE d >= 10
  <2>1. /\ Digit(d) = d + 55 /\ d + 55 \in 65 .. 70 /\ isupper(Digit(d))
    BY <1>2 DEF Digit, isupper, CT_UP, Bases
  <2>2. tolower(Digit(d)) = d + 87 /\ d + 87 \in 97 .. 102
    BY <1>2, <2>1 DEF tolower, Bases
  <2>3. /\ ~isdigit(d + 55) /\ isxdigit(d + 55) /\ ~isdigit(d + 87) /\ isxdigit(d + 87)
        /\ tolower(d + 55) = d + 87 /\ tolower(d + 87) = d + 87
    BY <2>1, <2>2 DEF isdigit, isxdigit, CT_DIG, CT_HEX, tolower, isupper, CT_UP
  <2> QED BY <1>2, <2>1, <2>2, <2>3 DEF isdigitinbase, Worth, Bases
<1> QED BY <1>1, <1>2

-----------------------------------------------------------------------------
(* The recursive function of uinttostring exists.                          *)
Turn(low, n, base) ==
  <<Digit(n % base)>> \o IF n \div base = 0 THEN <<>> ELSE low[n \div base]

(* The recursive function of uinttostring has a solution.                  *)
LEMMA LowExists ==
  ASSUME NEW nb \in Nat, NEW base \in Bases
  PROVE  \E low : low = [n \in 0 .. nb |-> Turn(low, n, base)]
<1> DEFINE Is(f, N) == f = [n \in 0 .. N |-> Turn(f, n, base)]
           S == {N \in 0 .. nb : \E f : Is(f, N)}
<1>1. 0 \in S
  <2> DEFINE f == [n \in 0 .. 0 |-> <<Digit(n % base)>> \o <<>>]
  <2>1. 0 \div base = 0 /\ \A n \in 0 .. 0 : n = 0
    BY DEF Bases
  <2>2. \A n \in 0 .. 0 : f[n] = Turn(f, n, base)
    BY <2>1 DEF Turn
  <2>3. Is(f, 0)
    BY <2>2
  <2> QED BY <2>3
<1>2. ASSUME NEW N \in 1 .. nb, N - 1 \in S PROVE N \in S
  <2>1. PICK f : Is(f, N - 1)
    BY <1>2
  <2> DEFINE g == [n \in 0 .. N |-> IF n < N THEN f[n] ELSE Turn(f, N, base)]
  <2>2. ASSUME NEW n \in 0 .. N PROVE g[n] = Turn(g, n, base)
    <3>1. n \div base \in 0 .. N /\ (n # 0 => n \div base < N)
      BY DivMod
    <3>2. n \div base # 0 => g[n \div base] = f[n \div base]
      <4>1. 0 \div base = 0
        BY DEF Bases
      <4> QED BY <3>1, <4>1
    <3>3. Turn(g, n, base) = Turn(f, n, base)
      <4> HIDE DEF g
      <4> QED BY <3>2 DEF Turn
    <3>4. g[n] = Turn(f, n, base)
      <4>1. CASE n < N
        <5>1. n \in 0 .. N - 1
          BY <4>1
        <5>2. f[n] = Turn(f, n, base)
          BY <2>1, <5>1
        <5> QED BY <4>1, <5>2
      <4>2. CASE ~ (n < N)
        <5>1. n = N
          BY <4>2
        <5> QED BY <4>2, <5>1
      <4> QED BY <4>1, <4>2
    <3> QED BY <3>3, <3>4
  <2>3. Is(g, N)
    BY <2>2
  <2>4. N \in 0 .. nb
    OBVIOUS
  <2> HIDE DEF g
  <2> QED BY <2>3, <2>4
<1>3. 0 .. nb \subseteq S
  <2> HIDE DEF S
  <2> QED BY <1>1, <1>2, Ascending
<1>4. nb \in S
  BY <1>3
<1> QED BY <1>4

-----------------------------------------------------------------------------
(* s is n written in a base, with no zeros in front: q[k] is the number of *)
(* its first k digits.                                                     *)
Spells(s, q, n, base) ==
  /\ s \in Seq(Nat) /\ Len(s) \in Nat \ {0}
  /\ \A k \in 0 .. Len(s) : q[k] \in 0 .. n
  /\ q[0] = 0 /\ q[Len(s)] = n /\ (Len(s) = 1 \/ q[1] # 0)
  /\ \A k \in 1 .. Len(s) : q[k - 1] = q[k] \div base /\ s[k] = Digit(q[k] % base)

(* One more digit.                                                         *)
LEMMA SpellsOn ==
  ASSUME NEW base \in Bases, NEW n \in Nat, n \div base # 0,
         NEW s, NEW q, Spells(s, q, n \div base, base)
  PROVE  \E r : Spells(Append(s, Digit(n % base)), r, n, base)
<1> DEFINE d == Digit(n % base)
           t == Append(s, d)
           r == [k \in 0 .. Len(s) + 1 |-> IF k = Len(s) + 1 THEN n ELSE q[k]]
<1>1. d \in Nat /\ n \div base <= n /\ n \div base \in Nat
  BY DivMod, DigitIs
<1>2. s \in Seq(Nat) /\ Len(s) \in Nat \ {0}
  BY DEF Spells
<1>3. /\ t \in Seq(Nat) /\ Len(t) = Len(s) + 1 /\ t[Len(s) + 1] = d
      /\ \A k \in 1 .. Len(s) : t[k] = s[k]
  <2> HIDE DEF d
  <2> QED BY <1>1, <1>2, AppendProperties
<1>4. r[Len(s) + 1] = n /\ \A k \in 0 .. Len(s) : r[k] = q[k]
  BY <1>2
<1> HIDE DEF t, r, d
<1>5. \A k \in 0 .. Len(t) : r[k] \in 0 .. n
  <2> TAKE k \in 0 .. Len(t)
  <2>1. CASE k = Len(s) + 1
    BY <1>4, <2>1
  <2>2. CASE k # Len(s) + 1
    <3>1. k \in 0 .. Len(s)
      BY <1>2, <1>3, <2>2
    <3>2. q[k] \in 0 .. n \div base
      BY <3>1 DEF Spells
    <3> DEFINE m == n \div base
    <3>3. m <= n /\ m \in Nat /\ q[k] \in 0 .. m
      BY <1>1, <3>2
    <3> HIDE DEF m
    <3>4. q[k] \in 0 .. n
      BY <3>3
    <3> QED BY <1>4, <3>1, <3>4
  <2> QED BY <2>1, <2>2
<1>6. r[0] = 0 /\ r[Len(t)] = n
  BY <1>2, <1>3, <1>4 DEF Spells
<1>7. ASSUME NEW k \in 1 .. Len(t)
      PROVE  r[k - 1] = r[k] \div base /\ t[k] = Digit(r[k] % base)
  <2>1. CASE k = Len(s) + 1
    <3>1. r[k - 1] = n \div base
      BY <1>2, <1>4, <2>1 DEF Spells
    <3> QED BY <1>3, <1>4, <2>1, <3>1 DEF d
  <2>2. CASE k # Len(s) + 1
    <3>1. k \in 1 .. Len(s) /\ k \in 0 .. Len(s) /\ k - 1 \in 0 .. Len(s)
      BY <1>2, <1>3, <2>2
    <3> QED BY <1>3, <1>4, <3>1 DEF Spells
  <2> QED BY <2>1, <2>2
<1>8. r[1] # 0
  <2>1. 1 \in 0 .. Len(s)
    BY <1>2
  <2> QED BY <1>4, <2>1 DEF Spells
<1>9. Spells(t, r, n, base)
  BY <1>2, <1>3, <1>5, <1>6, <1>7, <1>8 DEF Spells
<1> QED BY <1>9 DEF t, d

(* The digits spelt are digits of the base.                                *)
LEMMA SpellsDigit ==
  ASSUME NEW base \in Bases, NEW n \in Nat, n \div base = 0
  PROVE  \E r : Spells(<<Digit(n % base)>>, r, n, base)
<1> DEFINE d == Digit(n % base)
           r == [k \in 0 .. 1 |-> IF k = 1 THEN n ELSE 0]
<1>1. d \in Nat
  BY DivMod, DigitIs
<1>2. <<d>> \in Seq(Nat) /\ Len(<<d>>) = 1 /\ <<d>>[1] = d
  <2> HIDE DEF d
  <2> QED BY <1>1
<1>3. Spells(<<d>>, r, n, base)
  <2>1. r[0] = 0 /\ r[1] = n
    OBVIOUS
  <2> DEFINE s == <<d>>
  <2>2. s[1] = Digit(r[1] % base) /\ s \in Seq(Nat) /\ Len(s) = 1
    BY <1>2, <2>1
  <2>3. r[0] = r[1] \div base
    BY <2>1
  <2> HIDE DEF s, r
  <2>4. \A k \in 0 .. Len(s) : r[k] \in 0 .. n
    BY <2>1, <2>2
  <2>5. \A k \in 1 .. Len(s) : r[k - 1] = r[k] \div base /\ s[k] = Digit(r[k] % base)
    <3> TAKE k \in 1 .. Len(s)
    <3>1. k = 1 /\ k - 1 = 0
      BY <2>2
    <3> QED BY <2>2, <2>3, <3>1
  <2> QED BY <2>1, <2>2, <2>4, <2>5 DEF Spells, s
<1> QED BY <1>3

(* uinttostring writes its number.                                         *)
LEMMA WritesNumber ==
  ASSUME NEW nb \in Nat, NEW base \in Bases
  PROVE  \E q : Spells(uinttostring(nb, base), q, nb, base)
<1> DEFINE Step(f) == [n \in 0 .. nb |-> Turn(f, n, base)]
           low == CHOOSE f : f = Step(f)
           Good(n) == low[n] \in Seq(Nat) /\ \E q : Spells(Reverse(low[n]), q, n, base)
           Bad == {n \in 0 .. nb : ~Good(n)}
<1>1. low = Step(low)
  <2>1. \E f : f = Step(f)
    BY LowExists
  <2> HIDE DEF Step
  <2> QED BY <2>1
<1>2. uinttostring(nb, base) = Reverse(low[nb])
  BY DEF uinttostring, Turn
<1> HIDE DEF low
<1>3. \A n \in 0 .. nb : low[n] = Turn(low, n, base)
  BY <1>1
<1>4. ASSUME NEW n \in 0 .. nb, \A m \in 0 .. n - 1 : Good(m) PROVE Good(n)
  <2> DEFINE d == Digit(n % base)
             m == n \div base
  <2>1. d \in Nat /\ m \in Nat /\ m <= n /\ (n # 0 => m < n)
    BY DivMod, DigitIs
  <2>2. CASE m = 0
    <3>1. low[n] = <<d>> \o <<>>
      BY <1>3, <2>2 DEF Turn
    <3> HIDE DEF d
    <3>2. low[n] = <<d>> /\ <<d>> \in Seq(Nat) /\ Len(<<d>>) = 1
      BY <2>1, <3>1
    <3>3. Reverse(<<d>>) = <<d>>
      BY DEF Reverse
    <3>4. \E q : Spells(<<d>>, q, n, base)
      BY <2>2, SpellsDigit DEF d
    <3> QED BY <3>2, <3>3, <3>4
  <2>3. CASE m # 0
    <3>1. m \in 0 .. n - 1
      <4>1. n # 0
        BY <2>3 DEF Bases
      <4> QED BY <2>1, <4>1
    <3>2. low[m] \in Seq(Nat) /\ \E q : Spells(Reverse(low[m]), q, m, base)
      BY <1>4, <3>1
    <3>3. low[n] = <<d>> \o low[m]
      BY <1>3, <2>3 DEF Turn
    <3>4. \E q : Spells(Append(Reverse(low[m]), d), q, n, base)
      BY <2>3, <3>2, SpellsOn
    <3> HIDE DEF d, m
    <3> DEFINE s == low[m]
               t == low[n]
    <3>5. s \in Seq(Nat) /\ Len(s) \in Nat /\ t = <<d>> \o s
      BY <3>2, <3>3
    <3> HIDE DEF s, t
    <3>6. <<d>> \in Seq(Nat) /\ Len(<<d>>) = 1 /\ <<d>>[1] = d
      BY <2>1
    <3>7. /\ t \in Seq(Nat) /\ Len(t) = 1 + Len(s)
          /\ \A k \in 1 .. Len(t) : t[k] = IF k <= 1 THEN <<d>>[k] ELSE s[k - 1]
      BY <3>5, <3>6, ConcatProperties
    <3>8. Reverse(t) = Append(Reverse(s), d)
      <4>1. /\ Reverse(s) \in Seq(Nat) /\ Len(Reverse(s)) = Len(s)
            /\ \A k \in 1 .. Len(s) : Reverse(s)[k] = s[Len(s) - k + 1]
        <5>1. \A k \in 1 .. Len(s) : Len(s) - k + 1 \in 1 .. Len(s)
          BY <3>5
        <5> QED BY <3>5, <5>1 DEF Reverse
      <4> DEFINE u == Append(Reverse(s), d)
      <4>2. /\ u \in Seq(Nat) /\ Len(u) = Len(s) + 1 /\ u[Len(s) + 1] = d
            /\ \A k \in 1 .. Len(s) : u[k] = Reverse(s)[k]
        BY <2>1, <4>1, AppendProperties
      <4> HIDE DEF u
      <4>3. \A k \in 1 .. Len(t) : t[Len(t) - k + 1] = u[k]
        <5> TAKE k \in 1 .. Len(t)
        <5>1. CASE k = Len(s) + 1
          <6>1. Len(t) - k + 1 = 1 /\ 1 \in 1 .. Len(t) /\ 1 <= 1
            BY <3>5, <3>7, <5>1
          <6>2. t[1] = <<d>>[1]
            BY <3>7, <6>1
          <6> QED BY <3>6, <4>2, <5>1, <6>1, <6>2
        <5>2. CASE k # Len(s) + 1
          <6>1. /\ k \in 1 .. Len(s) /\ Len(t) - k + 1 \in 1 .. Len(t)
                /\ ~ (Len(t) - k + 1 <= 1) /\ (Len(t) - k + 1) - 1 = Len(s) - k + 1
            BY <3>5, <3>7, <5>2
          <6> QED BY <3>7, <4>1, <4>2, <6>1
        <5> QED BY <5>1, <5>2
      <4>4. Len(t) = Len(u) /\ u = [k \in 1 .. Len(u) |-> u[k]]
        BY <3>5, <3>7, <4>2
      <4>5. Reverse(t) = [k \in 1 .. Len(t) |-> t[Len(t) - k + 1]]
        BY DEF Reverse
      <4>6. Reverse(t) = u
        BY <4>3, <4>4, <4>5
      <4> QED BY <4>6 DEF u
    <3>9. t \in Seq(Nat) /\ \E q : Spells(Reverse(t), q, n, base)
      BY <3>4, <3>7, <3>8 DEF s
    <3> QED BY <3>9 DEF t
  <2> QED BY <2>2, <2>3
<1>5. Bad = {}
  <2> SUFFICES ASSUME Bad # {} PROVE FALSE
    OBVIOUS
  <2>1. Bad \subseteq Nat
    OBVIOUS
  <2>2. PICK n \in Bad : \A m \in Bad : n <= m
    <3> HIDE DEF Bad
    <3> QED BY <2>1, LeastElement
  <2>3. n \in 0 .. nb /\ ~Good(n)
    OBVIOUS
  <2>4. \A m \in 0 .. n - 1 : Good(m)
    BY <2>2, <2>3
  <2> QED BY <1>4, <2>3, <2>4
<1>6. nb \in 0 .. nb
  OBVIOUS
<1>7. Good(nb)
  BY <1>5, <1>6
<1> QED BY <1>2, <1>7

-----------------------------------------------------------------------------
(* A product grows with its factors.                                       *)
LEMMA Grows ==
  ASSUME NEW a \in Nat, NEW b \in Nat, NEW c \in Nat, a <= b
  PROVE  a * c \in Nat /\ b * c \in Nat /\ a * c <= b * c
<1> DEFINE d == b - a
           x == a * c
           y == d * c
           z == b * c
<1>1. d \in Nat /\ b = a + d
  OBVIOUS
<1>2. x \in Nat /\ y \in Nat /\ z \in Nat
  BY <1>1
<1>3. z = x + y
  <2>1. \A u, v, w \in Nat : (u + v) * w = u * w + v * w
    OBVIOUS
  <2> HIDE DEF d
  <2> QED BY <1>1, <2>1
<1> HIDE DEF x, y, z
<1>4. x <= z
  BY <1>2, <1>3
<1> QED BY <1>2, <1>4 DEF x, z

(* The quotient is the only number whose multiple is just below.           *)
LEMMA Quotient ==
  ASSUME NEW n \in Nat, NEW p \in Nat \ {0}, NEW q \in Nat,
         q * p <= n, n < (q + 1) * p
  PROVE  n \div p = q
<1> DEFINE d == n \div p
           dp == d * p
           qp == q * p
           dp1 == (d + 1) * p
           qp1 == (q + 1) * p
<1>1. d \in Nat /\ n % p \in 0 .. p - 1 /\ n = p * d + (n % p)
  OBVIOUS
<1>2. p * d = dp /\ dp1 = dp + p
  <2> HIDE DEF d
  <2> QED BY <1>1
<1>3. dp <= n /\ n < dp1
  <2> DEFINE r == n % p
             x == p * d
  <2>1. r \in 0 .. p - 1 /\ x \in Nat /\ n = x + r /\ x = dp /\ dp1 = dp + p
    BY <1>1, <1>2
  <2> HIDE DEF r, x, dp, dp1
  <2> QED BY <2>1
<1>4. qp <= n /\ n < qp1
  OBVIOUS
<1> HIDE DEF d
<1>5. d < q => dp1 <= qp
  <2> SUFFICES ASSUME d < q PROVE dp1 <= qp
    OBVIOUS
  <2>1. d + 1 \in Nat /\ d + 1 <= q
    BY <1>1
  <2> QED BY <2>1, Grows
<1>6. q < d => qp1 <= dp
  <2> SUFFICES ASSUME q < d PROVE qp1 <= dp
    OBVIOUS
  <2>1. q + 1 \in Nat /\ q + 1 <= d
    BY <1>1
  <2> QED BY <1>1, <2>1, Grows
<1>7. dp \in Nat /\ qp \in Nat /\ dp1 \in Nat /\ qp1 \in Nat
  BY <1>1
<1> HIDE DEF dp, qp, dp1, qp1
<1>8. ~ (d < q) /\ ~ (q < d)
  BY <1>3, <1>4, <1>5, <1>6, <1>7
<1> QED BY <1>1, <1>8 DEF d

(* The powers of a base, up to the N-th.                                   *)
Raised(p, k, base) == IF k = 0 THEN 1 ELSE base * p[k - 1]
ArePowers(p, N, base) == p = [k \in 0 .. N |-> Raised(p, k, base)]

(* There are such powers.                                                  *)
LEMMA PowersExist ==
  ASSUME NEW N \in Nat, NEW base \in Bases
  PROVE  \E p : ArePowers(p, N, base)
<1> DEFINE S == {m \in 0 .. N : \E p : ArePowers(p, m, base)}
<1>1. 0 \in S
  <2>1. ArePowers([k \in 0 .. 0 |-> 1], 0, base)
    BY DEF ArePowers, Raised
  <2> QED BY <2>1
<1>2. ASSUME NEW m \in 1 .. N, m - 1 \in S PROVE m \in S
  <2>1. PICK p : ArePowers(p, m - 1, base)
    BY <1>2
  <2> DEFINE g == [k \in 0 .. m |-> IF k < m THEN p[k] ELSE Raised(p, m, base)]
  <2>2. ASSUME NEW k \in 0 .. m PROVE g[k] = Raised(g, k, base)
    <3>1. Raised(g, k, base) = Raised(p, k, base)
      <4>1. k # 0 => k - 1 \in 0 .. m /\ k - 1 < m
        OBVIOUS
      <4>2. k # 0 => g[k - 1] = p[k - 1]
        BY <4>1
      <4> HIDE DEF g
      <4> QED BY <4>2 DEF Raised
    <3>2. g[k] = Raised(p, k, base)
      <4>1. CASE k < m
        <5>1. k \in 0 .. m - 1
          BY <4>1
        <5>2. p[k] = Raised(p, k, base)
          BY <2>1, <5>1 DEF ArePowers
        <5> QED BY <4>1, <5>2
      <4>2. CASE ~ (k < m)
        <5>1. k = m
          BY <4>2
        <5> QED BY <4>2, <5>1
      <4> QED BY <4>1, <4>2
    <3> QED BY <3>1, <3>2
  <2>3. ArePowers(g, m, base)
    BY <2>2 DEF ArePowers
  <2>4. m \in 0 .. N
    OBVIOUS
  <2> HIDE DEF g
  <2> QED BY <2>3, <2>4
<1>3. N \in S
  <2> HIDE DEF S
  <2>1. 0 .. N \subseteq S
    BY <1>1, <1>2, Ascending
  <2> QED BY <2>1
<1> QED BY <1>3

(* The powers grow.                                                        *)
LEMMA PowersGrow ==
  ASSUME NEW N \in Nat, NEW base \in Bases, NEW p, ArePowers(p, N, base)
  PROVE  /\ p[0] = 1
         /\ \A k \in 1 .. N : p[k] = base * p[k - 1]
         /\ \A k \in 0 .. N : p[k] \in Nat \ {0}
         /\ \A i, k \in 0 .. N : i <= k => p[i] <= p[k]
<1>1. p[0] = 1 /\ \A k \in 1 .. N : p[k] = base * p[k - 1]
  BY DEF ArePowers, Raised
<1>2. \A k \in 0 .. N : p[k] \in Nat \ {0}
  <2> DEFINE S == {k \in 0 .. N : p[k] \in Nat \ {0}}
  <2>1. 0 \in S
    BY <1>1
  <2>2. ASSUME NEW k \in 1 .. N, k - 1 \in S PROVE k \in S
    <3>1. \A x \in Nat \ {0} : base * x \in Nat \ {0}
      BY DEF Bases
    <3>2. p[k] = base * p[k - 1] /\ p[k - 1] \in Nat \ {0} /\ k \in 0 .. N
      BY <1>1, <2>2
    <3> QED BY <3>1, <3>2
  <2>3. 0 .. N \subseteq S
    <3> HIDE DEF S
    <3> QED BY <2>1, <2>2, Ascending
  <2> QED BY <2>3
<1>3. ASSUME NEW k \in 1 .. N PROVE p[k - 1] <= p[k]
  <2> DEFINE x == p[k - 1]
  <2>1. x \in Nat /\ p[k] = base * x /\ base \in Nat /\ 1 <= base
    BY <1>1, <1>2 DEF Bases
  <2> HIDE DEF x
  <2>2. 1 * x <= base * x
    BY <2>1, Grows
  <2> QED BY <2>1, <2>2 DEF x
<1>4. ASSUME NEW i \in 0 .. N PROVE \A k \in i .. N : p[i] <= p[k]
  <2> DEFINE S == {j \in 0 .. N - i : p[i] <= p[i + j]}
  <2>1. 0 \in S
    BY <1>2
  <2>2. ASSUME NEW j \in 1 .. N - i, j - 1 \in S PROVE j \in S
    <3>1. /\ i + j \in 1 .. N /\ i + (j - 1) = (i + j) - 1 /\ i \in 0 .. N
          /\ i + j \in 0 .. N /\ (i + j) - 1 \in 0 .. N
      OBVIOUS
    <3>2. p[i] <= p[(i + j) - 1] /\ p[(i + j) - 1] <= p[i + j]
      BY <1>3, <2>2, <3>1
    <3>3. p[i] \in Nat /\ p[(i + j) - 1] \in Nat /\ p[i + j] \in Nat
      BY <1>2, <3>1
    <3>4. p[i] <= p[i + j]
      BY <3>2, <3>3
    <3> QED BY <3>4
  <2>3. 0 .. N - i \subseteq S
    <3>1. N - i \in Nat
      OBVIOUS
    <3> HIDE DEF S
    <3> QED BY <2>1, <2>2, <3>1, Ascending
  <2>4. ASSUME NEW k \in i .. N PROVE p[i] <= p[k]
    <3>1. k - i \in S
      BY <2>3
    <3>2. i + (k - i) = k
      OBVIOUS
    <3> QED BY <3>1, <3>2
  <2> QED BY <2>4
<1> QED BY <1>1, <1>2, <1>4

(* A spelling has at most one digit more than its number is large.         *)
LEMMA SpellsShort ==
  ASSUME NEW base \in Bases, NEW n \in Nat, NEW s, NEW q, Spells(s, q, n, base)
  PROVE  Len(s) \in 1 .. n + 1
<1>1. /\ Len(s) \in Nat \ {0} /\ q[Len(s)] = n /\ (Len(s) = 1 \/ q[1] # 0)
      /\ \A k \in 0 .. Len(s) : q[k] \in 0 .. n
      /\ \A k \in 1 .. Len(s) : q[k - 1] = q[k] \div base
  BY DEF Spells
<1>2. CASE Len(s) = 1
  BY <1>2
<1>3. CASE Len(s) # 1
  <2> DEFINE l == Len(s) - 1
             S == {j \in 0 .. l : q[j + 1] >= j + 1}
  <2>1. l \in Nat /\ 0 \in S
    BY <1>1, <1>3
  <2>2. ASSUME NEW j \in 1 .. l, j - 1 \in S PROVE j \in S
    <3> DEFINE x == q[j + 1]
               y == q[j]
    <3>1. j + 1 \in 1 .. Len(s) /\ j + 1 \in 0 .. Len(s) /\ j \in 0 .. Len(s) /\ (j + 1) - 1 = j
      BY <1>1
    <3>2. x \in Nat /\ y \in Nat /\ y = x \div base
      BY <1>1, <3>1
    <3>3. y >= j
      <4>1. (j - 1) + 1 = j
        OBVIOUS
      <4> QED BY <2>2, <4>1
    <3> HIDE DEF x, y
    <3>4. y <= x /\ (x # 0 => y < x)
      BY <3>2, DivMod
    <3>5. x >= j + 1
      BY <3>2, <3>3, <3>4
    <3> QED BY <3>5 DEF x
  <2>3. l \in S
    <3> HIDE DEF l, S
    <3>1. 0 .. l \subseteq S
      BY <2>1, <2>2, Ascending
    <3> QED BY <2>1, <3>1
  <2>4. l + 1 = Len(s)
    BY <1>1
  <2> QED BY <1>1, <2>3, <2>4
<1> QED BY <1>2, <1>3

(* The number of the first digits is the quotient by the power of those    *)
(* that follow.                                                            *)
LEMMA SpellsQuotients ==
  ASSUME NEW base \in Bases, NEW n \in Nat, NEW s, NEW q, Spells(s, q, n, base),
         NEW p, ArePowers(p, n + 1, base), NEW j \in 0 .. Len(s)
  PROVE  q[Len(s) - j] * p[j] <= n /\ n < (q[Len(s) - j] + 1) * p[j]
<1> DEFINE l == Len(s)
           S == {i \in 0 .. l : q[l - i] * p[i] <= n /\ n < (q[l - i] + 1) * p[i]}
<1>1. /\ l \in Nat \ {0} /\ q[l] = n
      /\ \A k \in 0 .. l : q[k] \in Nat
      /\ \A k \in 1 .. l : q[k - 1] = q[k] \div base
  BY DEF Spells
<1>2. l \in 1 .. n + 1
  BY SpellsShort
<1>3. /\ p[0] = 1
      /\ \A k \in 1 .. n + 1 : p[k] = base * p[k - 1]
      /\ \A k \in 0 .. n + 1 : p[k] \in Nat
  BY PowersGrow
<1> HIDE DEF l
<1>4. 0 \in S
  <2>1. l - 0 = l /\ n * 1 = n /\ (n + 1) * 1 = n + 1
    BY <1>1
  <2> QED BY <1>1, <1>3, <2>1
<1>5. ASSUME NEW i \in 1 .. l, i - 1 \in S PROVE i \in S
  <2> DEFINE x == q[l - (i - 1)]
             y == q[l - i]
             a == p[i - 1]
  <2>1. /\ l - (i - 1) \in 1 .. l /\ l - (i - 1) \in 0 .. l /\ (l - (i - 1)) - 1 = l - i
        /\ l - i \in 0 .. l /\ i \in 1 .. n + 1 /\ i - 1 \in 0 .. n + 1
    BY <1>1, <1>2
  <2>2. x \in Nat /\ y \in Nat /\ y = x \div base /\ a \in Nat /\ p[i] = base * a
    BY <1>1, <1>3, <2>1
  <2>3. x * a <= n /\ n < (x + 1) * a
    BY <1>5
  <2> HIDE DEF x, y, a
  <2>4. y * base <= x /\ x + 1 <= (y + 1) * base /\ y * base \in Nat /\ (y + 1) * base \in Nat
    <3> DEFINE r == x % base
               z == y * base
               z1 == (y + 1) * base
    <3>1. r \in 0 .. base - 1 /\ z + r = x
      BY <2>2, DivMod
    <3>2. z \in Nat /\ z1 = z + base /\ base \in Nat
      BY <2>2 DEF Bases
    <3> HIDE DEF r, z, z1
    <3>3. z <= x /\ x + 1 <= z1 /\ z1 \in Nat
      BY <2>2, <3>1, <3>2
    <3> QED BY <3>2, <3>3 DEF z, z1
  <2>5. (y * base) * a <= x * a /\ (x + 1) * a <= ((y + 1) * base) * a
    <3> DEFINE z == y * base
               z1 == (y + 1) * base
    <3>1. z \in Nat /\ z1 \in Nat /\ z <= x /\ x + 1 <= z1 /\ x + 1 \in Nat
      BY <2>2, <2>4
    <3> HIDE DEF z, z1
    <3>2. z * a <= x * a /\ (x + 1) * a <= z1 * a
      BY <2>2, <3>1, Grows
    <3> QED BY <3>2 DEF z, z1
  <2>6. \A u \in Nat : (u * base) * a = u * (base * a)
    BY <2>2 DEF Bases
  <2>7. y * (base * a) <= n /\ n < (y + 1) * (base * a)
    <3> DEFINE u == y * (base * a)
               v == (y + 1) * (base * a)
               e == x * a
               f == (x + 1) * a
    <3>1. u <= e /\ f <= v
      BY <2>2, <2>5, <2>6
    <3>2. e <= n /\ n < f /\ e \in Nat /\ f \in Nat
      BY <2>2, <2>3
    <3>3. u \in Nat /\ v \in Nat
      <4> DEFINE c == base * a
      <4>1. c \in Nat
        BY <2>2 DEF Bases
      <4> HIDE DEF c
      <4>2. y * c \in Nat /\ (y + 1) * c \in Nat
        BY <2>2, <4>1, Grows
      <4> QED BY <4>2 DEF c
    <3> HIDE DEF u, v, e, f
    <3>4. u <= n /\ n < v
      BY <3>1, <3>2, <3>3
    <3> QED BY <3>4 DEF u, v
  <2>8. i \in 0 .. l
    OBVIOUS
  <2> QED BY <2>2, <2>7, <2>8 DEF y
<1>6. 0 .. l \subseteq S
  <2> HIDE DEF S
  <2> QED BY <1>1, <1>4, <1>5, Ascending
<1>7. j \in S
  BY <1>6 DEF l
<1> QED BY <1>7 DEF l

(* The figure of a remainder is the digit the code writes for it.          *)
LEMMA FigureIs ==
  ASSUME NEW base \in Bases, NEW v \in 0 .. base - 1
  PROVE  Figures[v + 1] = Digit(v)
<1>1. v \in 0 .. 15
  BY DEF Bases
<1>2. CASE v \in 0 .. 9
  <2>1. \A u \in 0 .. 9 : Figures[u + 1] = u + 48
    BY DEF Figures
  <2> QED BY <1>2, <2>1 DEF Digit
<1>3. CASE v \in 10 .. 15
  <2>1. \A u \in 10 .. 15 : Figures[u + 1] = u + 55
    BY DEF Figures
  <2> QED BY <1>3, <2>1 DEF Digit
<1> QED BY <1>1, <1>2, <1>3

(* uinttostring writes the numeral of every number in every base.          *)
LEMMA NumeralIs ==
  ASSUME NEW n \in Nat, NEW base \in Bases
  PROVE  uinttostring(n, base) = Numeral(n, base)
<1> DEFINE s == uinttostring(n, base)
           l == Len(s)
           power == CHOOSE p : ArePowers(p, n + 1, base)
           Right(k) == n < power[k] /\ (k = 1 \/ power[k - 1] <= n)
           size == CHOOSE k \in 1 .. n + 1 : Right(k)
<1>1. Numeral(n, base)
        = [i \in 1 .. size |-> Figures[((n \div power[size - i]) % base) + 1]]
  BY DEF Numeral, ArePowers, Raised
<1>2. PICK q : Spells(s, q, n, base)
  BY WritesNumber
<1>3. ArePowers(power, n + 1, base)
  <2>1. \E p : ArePowers(p, n + 1, base)
    BY PowersExist
  <2> QED BY <2>1
<1> HIDE DEF power, s
<1>4. /\ power[0] = 1
      /\ \A k \in 0 .. n + 1 : power[k] \in Nat \ {0}
      /\ \A i, k \in 0 .. n + 1 : i <= k => power[i] <= power[k]
  BY <1>3, PowersGrow
<1>5. /\ s \in Seq(Nat) /\ l \in 1 .. n + 1 /\ q[0] = 0
      /\ (l = 1 \/ q[1] # 0)
      /\ \A k \in 0 .. l : q[k] \in Nat
      /\ \A k \in 1 .. l : s[k] = Digit(q[k] % base)
  <2>1. l \in 1 .. n + 1
    BY <1>2, SpellsShort
  <2> QED BY <1>2, <2>1 DEF Spells
<1>6. \A j \in 0 .. l : q[l - j] * power[j] <= n /\ n < (q[l - j] + 1) * power[j]
  BY <1>2, <1>3, SpellsQuotients
<1> HIDE DEF l
<1>7. Right(l)
  <2>1. l \in 0 .. l /\ l - l = 0 /\ l \in 0 .. n + 1
    BY <1>5
  <2>2. n < (0 + 1) * power[l] /\ power[l] \in Nat
    BY <1>4, <1>5, <1>6, <2>1
  <2>3. n < power[l]
    BY <2>2
  <2>4. ASSUME l # 1 PROVE power[l - 1] <= n
    <3> DEFINE y == q[1]
               a == power[l - 1]
    <3>1. l - 1 \in 0 .. l /\ l - (l - 1) = 1 /\ l - 1 \in 0 .. n + 1 /\ 1 \in 0 .. l
      BY <1>5
    <3>2. y \in Nat /\ 1 <= y /\ y * a <= n /\ a \in Nat
      BY <1>4, <1>5, <1>6, <2>4, <3>1
    <3> HIDE DEF y, a
    <3>3. 1 * a <= y * a /\ y * a \in Nat
      BY <3>2, Grows
    <3> QED BY <3>2, <3>3 DEF a
  <2> QED BY <2>3, <2>4
<1>8. ASSUME NEW k \in 1 .. n + 1, Right(k) PROVE k = l
  <2>1. /\ k \in 0 .. n + 1 /\ l \in 0 .. n + 1
        /\ k - 1 \in 0 .. n + 1 /\ l - 1 \in 0 .. n + 1
    BY <1>5
  <2>2. ~ (k < l)
    <3> SUFFICES ASSUME k < l PROVE FALSE
      OBVIOUS
    <3>1. k <= l - 1 /\ l # 1
      BY <1>5
    <3>2. power[k] <= power[l - 1] /\ power[k] \in Nat /\ power[l - 1] \in Nat
      BY <1>4, <2>1, <3>1
    <3>3. n < power[k] /\ power[l - 1] <= n
      BY <1>7, <1>8, <3>1
    <3> QED BY <3>2, <3>3
  <2>3. ~ (l < k)
    <3> SUFFICES ASSUME l < k PROVE FALSE
      OBVIOUS
    <3>1. l <= k - 1 /\ k # 1
      BY <1>5
    <3>2. power[l] <= power[k - 1] /\ power[l] \in Nat /\ power[k - 1] \in Nat
      BY <1>4, <2>1, <3>1
    <3>3. n < power[l] /\ power[k - 1] <= n
      BY <1>7, <1>8, <3>1
    <3> QED BY <3>2, <3>3
  <2> QED BY <1>5, <2>2, <2>3
<1>9. size = l
  <2> HIDE DEF Right
  <2> QED BY <1>5, <1>7, <1>8
<1> HIDE DEF size
<1>10. ASSUME NEW i \in 1 .. l
       PROVE  s[i] = Figures[((n \div power[l - i]) % base) + 1]
  <2> DEFINE x == q[i]
             a == power[l - i]
  <2>1. l - i \in 0 .. l /\ l - (l - i) = i /\ l - i \in 0 .. n + 1 /\ i \in 0 .. l
    BY <1>5
  <2>2. x \in Nat /\ a \in Nat \ {0} /\ x * a <= n /\ n < (x + 1) * a /\ s[i] = Digit(x % base)
    BY <1>4, <1>5, <1>6, <2>1
  <2> HIDE DEF x, a
  <2>3. n \div a = x
    BY <2>2, Quotient
  <2>4. x % base \in 0 .. base - 1
    BY <2>2, DivMod
  <2>5. Figures[(x % base) + 1] = Digit(x % base)
    BY <2>4, FigureIs
  <2> QED BY <2>2, <2>3, <2>5 DEF a
<1>11. s = [i \in 1 .. l |-> s[i]]
  BY <1>5 DEF l
<1>12. s = [i \in 1 .. l |-> Figures[((n \div power[l - i]) % base) + 1]]
  BY <1>10, <1>11
<1> QED BY <1>1, <1>9, <1>12 DEF s

-----------------------------------------------------------------------------
(* What a text has to be for strtoull to read the number n: digits, of     *)
(* which the first k are worth q[k].                                       *)
Readable(s, q, n, base) ==
  /\ s \in Seq(Nat) /\ Len(s) \in Nat
  /\ \A k \in 0 .. Len(s) : q[k] \in 0 .. n
  /\ q[0] = 0 /\ q[Len(s)] = n
  /\ \A k \in 1 .. Len(s) : /\ isdigitinbase(s[k], base)
                            /\ q[k - 1] * base + Worth(s[k]) = q[k]

(* A readable text is read to its end.                                     *)
LEMMA AllDigits ==
  ASSUME NEW s \in Seq(Nat), NEW base, \A k \in 1 .. Len(s) : isdigitinbase(s[k], base)
  PROVE  Digits(s, base) = Len(s)
<1> DEFINE P(k) == /\ \A i \in 1 .. k : isdigitinbase(s[i], base)
                   /\ ~isdigitinbase(At(s, k + 1), base)
<1>1. Len(s) \in Nat
  OBVIOUS
<1>2. ~isdigitinbase(0, base)
  BY DEF isdigitinbase, isdigit, isxdigit, CT_DIG, CT_HEX
<1>3. P(Len(s))
  <2>1. At(s, Len(s) + 1) = 0
    BY <1>1 DEF At
  <2> QED BY <1>2, <2>1
<1>4. ASSUME NEW k \in 0 .. Len(s), P(k) PROVE k = Len(s)
  <2> SUFFICES ASSUME k # Len(s) PROVE FALSE
    OBVIOUS
  <2>1. k + 1 \in 1 .. Len(s) /\ k + 1 <= Len(s)
    BY <1>1
  <2>2. At(s, k + 1) = s[k + 1]
    BY <2>1 DEF At
  <2> QED BY <1>4, <2>1, <2>2
<1>5. Digits(s, base) = CHOOSE k \in 0 .. Len(s) : P(k)
  BY DEF Digits
<1>6. Len(s) \in 0 .. Len(s)
  BY <1>1
<1> HIDE DEF P
<1> QED BY <1>3, <1>4, <1>5, <1>6

(* strtoull reads the number that a readable text spells.                  *)
LEMMA ReadsNumber ==
  ASSUME NEW n \in 0 .. LongWord - 1, NEW base \in Bases, NEW s, NEW q,
         Readable(s, q, n, base)
  PROVE  strtoull(s, base) = [n |-> n, end |-> Len(s) + 1]
<1> DEFINE Next1(f, k) == IF k = 0 THEN 0 ELSE (f[k - 1] * base + Worth(s[k])) % LongWord
           Step(f) == [k \in 0 .. Len(s) |-> Next1(f, k)]
           g == [k \in 0 .. Len(s) |-> q[k]]
           read == CHOOSE f : f = Step(f)
<1>1. /\ s \in Seq(Nat) /\ Len(s) \in Nat /\ LongWord \in Nat
      /\ q[0] = 0 /\ q[Len(s)] = n
      /\ \A k \in 0 .. Len(s) : q[k] \in 0 .. n
      /\ \A k \in 1 .. Len(s) : q[k - 1] * base + Worth(s[k]) = q[k]
  BY LibcAssumption DEF Readable
<1>2. ASSUME NEW k \in 0 .. Len(s) PROVE g[k] = Next1(g, k)
  <2>1. CASE k = 0
    BY <1>1, <2>1
  <2>2. CASE k # 0
    <3>1. k \in 1 .. Len(s) /\ k - 1 \in 0 .. Len(s)
      BY <1>1, <2>2
    <3>2. g[k - 1] * base + Worth(s[k]) = q[k] /\ g[k] = q[k]
      BY <1>1, <3>1
    <3>3. q[k] \in Nat /\ q[k] < LongWord
      BY <1>1
    <3>4. q[k] % LongWord = q[k]
      <4>1. ASSUME NEW P \in Nat, NEW x \in Nat, x < P PROVE x % P = x
        BY <4>1
      <4> QED BY <1>1, <3>3, <4>1
    <3> QED BY <2>2, <3>2, <3>4
  <2> QED BY <2>1, <2>2
<1>3. g = Step(g)
  BY <1>2
<1>4. read = Step(read)
  <2> HIDE DEF g, Step
  <2> QED BY <1>3
<1>5. \A k \in 0 .. Len(s) : read[k] = Next1(read, k)
  <2> HIDE DEF read
  <2> QED BY <1>4
<1> DEFINE S == {k \in 0 .. Len(s) : read[k] = g[k]}
<1> HIDE DEF read, g
<1>6. 0 \in S
  <2>1. 0 \in 0 .. Len(s)
    BY <1>1
  <2> QED BY <1>2, <1>5, <2>1
<1>7. ASSUME NEW k \in 1 .. Len(s), k - 1 \in S PROVE k \in S
  <2>1. k \in 0 .. Len(s) /\ k # 0 /\ read[k - 1] = g[k - 1]
    BY <1>7
  <2>2. read[k] = Next1(read, k) /\ g[k] = Next1(g, k)
    BY <1>2, <1>5, <2>1
  <2>3. Next1(read, k) = Next1(g, k)
    BY <2>1
  <2> HIDE DEF Next1
  <2> QED BY <2>1, <2>2, <2>3
<1>8. 0 .. Len(s) \subseteq S
  <2> HIDE DEF S
  <2> QED BY <1>1, <1>6, <1>7, Ascending
<1>9. read[Len(s)] = n
  <2>1. Len(s) \in 0 .. Len(s)
    BY <1>1
  <2> QED BY <1>1, <1>8, <2>1 DEF g
<1>10. Digits(s, base) = Len(s)
  BY <1>1, AllDigits DEF Readable
<1>11. strtoull(s, base) = [n |-> read[Digits(s, base)], end |-> Digits(s, base) + 1]
  BY DEF strtoull, read
<1> QED BY <1>9, <1>10, <1>11

(* What uinttostring writes is readable, in capitals or not.               *)
LEMMA SpellsReadable ==
  ASSUME NEW base \in Bases, NEW n \in Nat, NEW s, NEW q, Spells(s, q, n, base)
  PROVE  /\ Readable(s, q, n, base) /\ Readable(Lowercase(s), q, n, base)
         /\ \A k \in 1 .. Len(s) : s[k] # 45 /\ s[k] # 120
         /\ base = 10 => \A k \in 1 .. Len(s) : isdigit(s[k])
         /\ Len(Lowercase(s)) = Len(s) /\ Len(s) \in Nat \ {0}
<1>1. s \in Seq(Nat) /\ Len(s) \in Nat \ {0} /\ \A k \in 0 .. Len(s) : q[k] \in 0 .. n
  BY DEF Spells
<1>2. ASSUME NEW k \in 1 .. Len(s)
      PROVE  /\ isdigitinbase(s[k], base) /\ q[k - 1] * base + Worth(s[k]) = q[k]
             /\ isdigitinbase(tolower(s[k]), base)
             /\ q[k - 1] * base + Worth(tolower(s[k])) = q[k]
             /\ tolower(s[k]) \in Nat /\ s[k] # 45 /\ s[k] # 120
             /\ base = 10 => isdigit(s[k])
  <2> DEFINE m == q[k]
  <2>1. m \in Nat /\ q[k - 1] = m \div base /\ s[k] = Digit(m % base)
    BY <1>1 DEF Spells
  <2> HIDE DEF m
  <2>2. m % base \in 0 .. base - 1 /\ (m \div base) * base + (m % base) = m
    BY <2>1, DivMod
  <2> DEFINE d == m % base
  <2>3. d \in 0 .. base - 1 /\ q[k - 1] * base + d = m /\ s[k] = Digit(d)
    BY <2>1, <2>2
  <2> HIDE DEF d
  <2>4. /\ tolower(Digit(d)) \in Nat
        /\ isdigitinbase(Digit(d), base) /\ isdigitinbase(tolower(Digit(d)), base)
        /\ Worth(Digit(d)) = d /\ Worth(tolower(Digit(d))) = d
        /\ Digit(d) # 45 /\ Digit(d) # 120 /\ (d < 10 => isdigit(Digit(d)))
    BY <2>3, DigitIs
  <2>5. base = 10 => d < 10
    BY <2>3
  <2> QED BY <2>3, <2>4, <2>5 DEF m
<1> DEFINE t == Lowercase(s)
<1>3. t \in Seq(Nat) /\ Len(t) = Len(s) /\ \A k \in 1 .. Len(s) : t[k] = tolower(s[k])
  <2>1. DOMAIN s = 1 .. Len(s)
    BY <1>1
  <2> QED BY <1>1, <1>2, <2>1 DEF Lowercase
<1> HIDE DEF t
<1>4. Readable(s, q, n, base)
  BY <1>1, <1>2 DEF Readable, Spells
<1>5. Readable(t, q, n, base)
  BY <1>1, <1>2, <1>3 DEF Readable, Spells
<1> QED BY <1>1, <1>2, <1>3, <1>4, <1>5 DEF t

(* The text of a number of uint64_t reads back.                            *)
LEMMA WrittenReads ==
  ASSUME NEW n \in 0 .. LongWord - 1, NEW base \in Bases
  PROVE  LET s == uinttostring(n, base)
         IN /\ s \in Seq(Nat) /\ Len(s) \in Nat \ {0}
            /\ strtoull(s, base) = [n |-> n, end |-> Len(s) + 1]
            /\ Len(Lowercase(s)) = Len(s) /\ Lowercase(s) \in Seq(Nat)
            /\ strtoull(Lowercase(s), base) = [n |-> n, end |-> Len(s) + 1]
            /\ \A k \in 1 .. Len(s) : /\ s[k] # 45 /\ s[k] # 120
                                      /\ isdigitinbase(s[k], base)
                                      /\ isdigitinbase(Lowercase(s)[k], base)
                                      /\ base = 10 => isdigit(s[k])
<1> DEFINE s == uinttostring(n, base)
<1>1. n \in Nat
  BY LibcAssumption
<1>2. PICK q : Spells(s, q, n, base)
  BY <1>1, WritesNumber
<1> HIDE DEF s
<1>3. /\ Readable(s, q, n, base) /\ Readable(Lowercase(s), q, n, base)
      /\ \A k \in 1 .. Len(s) : s[k] # 45 /\ s[k] # 120
      /\ base = 10 => \A k \in 1 .. Len(s) : isdigit(s[k])
      /\ Len(Lowercase(s)) = Len(s) /\ Len(s) \in Nat \ {0}
  BY <1>1, <1>2, SpellsReadable
<1>4. /\ strtoull(s, base) = [n |-> n, end |-> Len(s) + 1]
      /\ strtoull(Lowercase(s), base) = [n |-> n, end |-> Len(s) + 1]
  BY <1>3, ReadsNumber
<1>5. /\ s \in Seq(Nat) /\ Lowercase(s) \in Seq(Nat)
      /\ \A k \in 1 .. Len(s) : isdigitinbase(s[k], base) /\ isdigitinbase(Lowercase(s)[k], base)
  BY <1>3 DEF Readable
<1> QED BY <1>3, <1>4, <1>5 DEF s

-----------------------------------------------------------------------------
(* inttostring of a signed number is read back by strtol.                  *)
LEMMA SignedReadsBack ==
  ASSUME NEW nb \in -(LongWord \div 2) .. LongWord \div 2 - 1, NEW base \in Bases
  PROVE  LET s == inttostring(nb, base)
         IN strtoll(s, base) = [n |-> nb, end |-> Len(s) + 1]
<1> DEFINE s == inttostring(nb, base)
           half == LongWord \div 2
<1>1. LongWord = 2 * half /\ half \in Nat /\ half > 0 /\ nb \in -half .. half - 1
  BY LibcAssumption
<1>2. CASE nb < 0
  <2> DEFINE m == -nb
             t == uinttostring(m, base)
  <2>1. m \in 1 .. half /\ m \in 0 .. LongWord - 1
    BY <1>1, <1>2
  <2>2. (-nb) % LongWord = m
    <3> HIDE DEF half
    <3> QED BY <1>1, <2>1
  <2>3. s = <<45>> \o t
    BY <1>2, <2>2 DEF inttostring
  <2> HIDE DEF t, s
  <2>4. t \in Seq(Nat) /\ Len(t) \in Nat /\ strtoull(t, base) = [n |-> m, end |-> Len(t) + 1]
    BY <2>1, WrittenReads DEF t
  <2>5. /\ s \in Seq(Nat) /\ Len(s) = Len(t) + 1 /\ s # <<>>
        /\ \A k \in 1 .. Len(s) : s[k] = IF k = 1 THEN 45 ELSE t[k - 1]
    <3>1. <<45>> \in Seq(Nat) /\ Len(<<45>>) = 1 /\ <<45>>[1] = 45
      OBVIOUS
    <3>2. /\ s \in Seq(Nat) /\ Len(s) = 1 + Len(t)
          /\ \A k \in 1 .. Len(s) : s[k] = IF k <= 1 THEN <<45>>[k] ELSE t[k - 1]
      BY <2>3, <2>4, <3>1, ConcatProperties
    <3>3. s # <<>>
      BY <2>4, <3>2
    <3> QED BY <2>4, <3>1, <3>2, <3>3
  <2>6. At(s, 1) = 45
    BY <2>4, <2>5 DEF At
  <2>7. Tail(s) = t
    <3>1. /\ Tail(s) \in Seq(Nat) /\ Len(Tail(s)) = Len(s) - 1
          /\ \A k \in 1 .. Len(Tail(s)) : Tail(s)[k] = s[k + 1]
      BY <2>5, HeadTailProperties
    <3>2. \A k \in 1 .. Len(t) : Tail(s)[k] = t[k]
      <4> TAKE k \in 1 .. Len(t)
      <4>0. Len(t) \in Nat /\ Len(s) = Len(t) + 1 /\ Len(Tail(s)) = Len(s) - 1
        BY <2>4, <2>5, <3>1
      <4>1. k + 1 \in 1 .. Len(s) /\ k + 1 # 1 /\ (k + 1) - 1 = k /\ k \in 1 .. Len(Tail(s))
        BY <4>0
      <4> QED BY <2>5, <3>1, <4>1
    <3> DEFINE u == Tail(s)
    <3>3. Len(u) = Len(t) /\ u \in Seq(Nat)
      BY <2>4, <2>5, <3>1
    <3> HIDE DEF u
    <3>4. u = [k \in 1 .. Len(u) |-> u[k]] /\ t = [k \in 1 .. Len(t) |-> t[k]]
      BY <2>4, <3>3
    <3>5. u = t
      BY <3>2, <3>3, <3>4 DEF u
    <3> QED BY <3>5 DEF u
  <2>8. strtoll(s, base) = [n |-> Signed((-m) % LongWord), end |-> Len(t) + 1 + 1]
    <3>1. strtoll(s, base) = [n |-> Signed((-strtoull(t, base).n) % LongWord),
                              end |-> strtoull(t, base).end + 1]
      BY <2>6, <2>7 DEF strtoll
    <3>2. strtoull(t, base).n = m /\ strtoull(t, base).end = Len(t) + 1
      BY <2>4
    <3> QED BY <3>1, <3>2
  <2>9. Signed((-m) % LongWord) = nb
    <3>1. (-m) % LongWord = LongWord - m
      <4> HIDE DEF half
      <4>1. ASSUME NEW P \in Nat, NEW k \in Nat, 0 < k, k < P PROVE (-k) % P = P - k
        BY <4>1
      <4>2. m \in Nat /\ 0 < m /\ m < LongWord /\ LongWord \in Nat
        BY <1>1, <2>1
      <4> HIDE DEF m
      <4> QED BY <4>1, <4>2
    <3>2. LongWord - m >= half /\ (LongWord - m) - LongWord = nb
      <4> HIDE DEF half
      <4> QED BY <1>1, <2>1
    <3> QED BY <3>1, <3>2 DEF Signed
  <2>10. Len(t) + 1 + 1 = Len(s) + 1
    BY <2>4, <2>5
  <2> QED BY <2>8, <2>9, <2>10 DEF s
<1>3. CASE ~ (nb < 0)
  <2>1. s = uinttostring(nb, base) /\ nb \in 0 .. LongWord - 1 /\ ~ (nb >= half)
    BY <1>1, <1>3 DEF inttostring
  <2> HIDE DEF s
  <2>2. /\ strtoull(s, base) = [n |-> nb, end |-> Len(s) + 1]
        /\ Len(s) \in Nat \ {0} /\ \A k \in 1 .. Len(s) : s[k] # 45
    BY <2>1, WrittenReads
  <2>3. At(s, 1) # 45
    BY <2>2 DEF At
  <2>4. Signed(nb) = nb
    BY <2>1 DEF Signed
  <2> QED BY <2>2, <2>3, <2>4 DEF strtoll, s
<1> QED BY <1>2, <1>3

(* A number written with 0x before it.                                     *)
LEMMA PrefixIs ==
  ASSUME NEW t \in Seq(Nat)
  PROVE  LET s == <<48, 120>> \o t
         IN strncmp0x(s) /\ SubSeq(s, 3, Len(s)) = t
<1> DEFINE s == <<48, 120>> \o t
           x == <<48, 120>>
<1>1. x \in Seq(Nat) /\ Len(x) = 2 /\ x[1] = 48 /\ x[2] = 120
  OBVIOUS
<1>2. Len(t) \in Nat
  OBVIOUS
<1> HIDE DEF x
<1>3. /\ s \in Seq(Nat) /\ Len(s) = 2 + Len(t)
      /\ \A k \in 1 .. Len(s) : s[k] = IF k <= 2 THEN x[k] ELSE t[k - 2]
  <2>1. s = x \o t
    BY DEF x
  <2> QED BY <1>1, <2>1, ConcatProperties
<1> HIDE DEF s
<1>4. s[1] = 48 /\ s[2] = 120 /\ 1 <= Len(s) /\ 2 <= Len(s)
  <2>1. 1 \in 1 .. Len(s) /\ 2 \in 1 .. Len(s)
    BY <1>2, <1>3
  <2> QED BY <1>1, <1>3, <2>1
<1>5. strncmp0x(s)
  BY <1>4 DEF strncmp0x, At
<1>6. SubSeq(s, 3, Len(s)) = t
  <2> DEFINE u == SubSeq(s, 3, Len(s))
  <2>1. u = [k \in 1 .. Len(s) - 2 |-> s[k + 2]]
    <3>1. \A k \in 1 .. Len(s) - 2 : 3 + k - 1 = k + 2 
      BY <1>2, <1>3
    <3>2. 1 + Len(s) - 3 = Len(s) - 2
      BY <1>2, <1>3
    <3> QED BY <3>1, <3>2
  <2>2. \A k \in 1 .. Len(t) : s[k + 2] = t[k]
    <3> TAKE k \in 1 .. Len(t)
    <3>1. k + 2 \in 1 .. Len(s) /\ ~ (k + 2 <= 2) /\ (k + 2) - 2 = k
      BY <1>2, <1>3
    <3> QED BY <1>3, <3>1
  <2>3. Len(s) - 2 = Len(t) /\ t = [k \in 1 .. Len(t) |-> t[k]]
    BY <1>2, <1>3
  <2> QED BY <2>1, <2>2, <2>3
<1> QED BY <1>5, <1>6 DEF s

(* The int command understands what is written for it.                     *)
LEMMA IntMeant ==
  ASSUME NEW n \in 0 .. 255, NEW s \in Written(n)
  PROVE  do_int(s) = n
<1>1. n \in 0 .. LongWord - 1 /\ 10 \in Bases /\ 16 \in Bases /\ n % 256 = n
  BY LibcAssumption DEF Bases
<1>2. CASE s = uinttostring(n, 10)
  <2> DEFINE u == uinttostring(n, 10)
  <2>0. /\ u \in Seq(Nat) /\ Len(u) \in Nat \ {0}
        /\ strtoull(u, 10) = [n |-> n, end |-> Len(u) + 1]
        /\ \A k \in 1 .. Len(u) : u[k] # 120 /\ isdigitinbase(u[k], 10) /\ isdigit(u[k])
    BY SMTT(30), <1>1, WrittenReads
  <2>1. /\ s \in Seq(Nat) /\ Len(s) \in Nat \ {0}
        /\ strtoull(s, 10) = [n |-> n, end |-> Len(s) + 1]
        /\ \A k \in 1 .. Len(s) : s[k] # 120 /\ isdigitinbase(s[k], 10) /\ isdigit(s[k])
    <3> HIDE DEF u
    <3>1. s = u
      BY <1>2 DEF u
    <3> QED BY <2>0, <3>1
  <2> HIDE DEF u
  <2>2. isdigit(At(s, 1)) /\ At(s, 2) # 120 /\ ~strncmp0x(s)
    BY <2>1 DEF At, strncmp0x
  <2>3. arg_checkdigits(s, 10)
    BY <2>1 DEF arg_checkdigits
  <2> QED BY <1>1, <2>1, <2>2, <2>3 DEF do_int
<1>3. ASSUME NEW t \in Seq(Nat), s = <<48, 120>> \o t, strtoull(t, 16).n = n,
             \A k \in 1 .. Len(t) : isdigitinbase(t[k], 16)
      PROVE  do_int(s) = n
  <2>1. strncmp0x(s) /\ SubSeq(s, 3, Len(s)) = t
    BY <1>3, PrefixIs
  <2>2. isdigit(At(s, 1))
    BY <2>1 DEF strncmp0x, isdigit, CT_DIG
  <2>3. arg_checkdigits(t, 16)
    <3>1. Len(t) \in Nat
      OBVIOUS
    <3> QED BY <1>3, <3>1 DEF arg_checkdigits
  <2> QED BY <1>1, <1>3, <2>1, <2>2, <2>3 DEF do_int
<1>4. LET t == uinttostring(n, 16)
      IN /\ t \in Seq(Nat) /\ strtoull(t, 16).n = n
         /\ Lowercase(t) \in Seq(Nat) /\ strtoull(Lowercase(t), 16).n = n
         /\ Len(Lowercase(t)) = Len(t)
         /\ \A k \in 1 .. Len(t) : isdigitinbase(t[k], 16) /\ isdigitinbase(Lowercase(t)[k], 16)
  <2> DEFINE t == uinttostring(n, 16)
  <2>1. /\ t \in Seq(Nat) /\ strtoull(t, 16) = [n |-> n, end |-> Len(t) + 1]
        /\ Lowercase(t) \in Seq(Nat) /\ strtoull(Lowercase(t), 16) = [n |-> n, end |-> Len(t) + 1]
        /\ Len(Lowercase(t)) = Len(t)
        /\ \A k \in 1 .. Len(t) : isdigitinbase(t[k], 16) /\ isdigitinbase(Lowercase(t)[k], 16)
    BY SMTT(30), <1>1, WrittenReads
  <2> HIDE DEF t
  <2>2. strtoull(t, 16).n = n /\ strtoull(Lowercase(t), 16).n = n
    BY <2>1
  <2> QED BY <2>1, <2>2 DEF t
<1>5. CASE s = <<48, 120>> \o uinttostring(n, 16)
  BY <1>3, <1>4, <1>5
<1>6. CASE s = <<48, 120>> \o Lowercase(uinttostring(n, 16))
  BY <1>3, <1>4, <1>6
<1> QED BY <1>2, <1>5, <1>6 DEF Written

(* What is seen to be no number is refused by the int command.             *)
LEMMA IntRefused ==
  ASSUME NEW s \in Seq(Nat), SeenToBeNoNumber(s)
  PROVE  do_int(s) = -1
<1>1. Len(s) \in Nat
  OBVIOUS
<1>2. CASE strncmp0x(s)
  <2> DEFINE t == SubSeq(s, 3, Len(s))
  <2>1. PICK i \in 5 .. Len(s) : ~isxdigit(s[i])
    BY <1>2 DEF SeenToBeNoNumber
  <2>2. t = [k \in 1 .. Len(s) - 2 |-> s[k + 2]]
    <3>1. \A k \in 1 .. Len(s) - 2 : 3 + k - 1 = k + 2 
      BY <1>1
    <3>2. 1 + Len(s) - 3 = Len(s) - 2
      BY <1>1
    <3> QED BY <3>1, <3>2
  <2>3. Len(t) = Len(s) - 2 /\ i - 2 \in 3 .. Len(t) /\ t[i - 2] = s[i]
    <3>1. Len(s) - 2 \in Nat /\ i - 2 \in 1 .. Len(s) - 2 /\ (i - 2) + 2 = i
      BY <1>1, <2>1
    <3> HIDE DEF t
    <3>2. Len(t) = Len(s) - 2
      BY <2>2, <3>1
    <3> QED BY <2>1, <2>2, <3>1, <3>2
  <2> HIDE DEF t
  <2>4. ~isdigitinbase(s[i], 16)
    BY <2>1 DEF isdigitinbase, isxdigit, isdigit
  <2>5. ~arg_checkdigits(t, 16)
    BY <2>3, <2>4 DEF arg_checkdigits
  <2> QED BY <1>2, <2>5 DEF do_int, t
<1>3. CASE ~strncmp0x(s)
  <2>1. CASE ~isdigit(At(s, 1))
    BY <2>1 DEF do_int
  <2>2. CASE \E i \in 3 .. Len(s) : ~isdigit(s[i])
    <3>1. PICK i \in 3 .. Len(s) : ~isdigit(s[i])
      BY <2>2
    <3>2. s[i] \in Nat
      BY <1>1
    <3>3. ~isdigitinbase(s[i], 10)
      <4> DEFINE c == s[i]
      <4>1. c \in Nat /\ ~isdigit(c)
        BY <3>1, <3>2
      <4> HIDE DEF c
      <4>2. CASE c \in 65 .. 70
        <5>1. tolower(c) - 97 + 10 = c - 55 /\ ~ (c - 55 < 10)
          BY <4>2 DEF tolower, isupper, CT_UP
        <5> QED BY <4>1, <5>1 DEF isdigitinbase, c
      <4>3. CASE c \in 97 .. 102
        <5>1. tolower(c) - 97 + 10 = c - 87 /\ ~ (c - 87 < 10)
          BY <4>3 DEF tolower, isupper, CT_UP
        <5> QED BY <4>1, <5>1 DEF isdigitinbase, c
      <4>4. CASE ~isxdigit(c)
        BY <4>1, <4>4 DEF isdigitinbase, c
      <4> QED BY <4>1, <4>2, <4>3, <4>4 DEF isxdigit, isdigit, CT_HEX
    <3>4. ~arg_checkdigits(s, 10)
      BY <3>1, <3>3 DEF arg_checkdigits
    <3> QED BY <1>3, <3>4 DEF do_int
  <2> QED BY <1>3, <2>1, <2>2 DEF SeenToBeNoNumber
<1> QED BY <1>2, <1>3

(* A conversion that has ended reads back.                                 *)
LEMMA NumbersRight == LibcInv => NumbersReadBack
<1> SUFFICES ASSUME LibcInv, pc = "done"
             PROVE  /\ call.fn = "inttostring" =>
                         strtoll(result, call.base)
                           = [n |-> call.nb, end |-> Len(result) + 1]
                    /\ call.fn = "do_int" =>
                         IF call.meant # -1 THEN result = call.meant
                         ELSE SeenToBeNoNumber(call.arg) => result = -1
  BY DEF NumbersReadBack
<1>1. ASSUME call.fn = "inttostring"
      PROVE  strtoll(result, call.base) = [n |-> call.nb, end |-> Len(result) + 1]
  <2>1. /\ call.nb \in -(LongWord \div 2) .. LongWord \div 2 - 1 /\ call.base \in Bases
        /\ result = inttostring(call.nb, call.base)
    BY <1>1, LibcAssumption DEF LibcInv, Bases
  <2> QED BY <2>1, SignedReadsBack
<1>2. ASSUME call.fn = "do_int"
      PROVE  IF call.meant # -1 THEN result = call.meant
             ELSE SeenToBeNoNumber(call.arg) => result = -1
  <2>1. /\ result = do_int(call.arg)
        /\ \/ call.meant \in 0 .. 255 /\ call.arg \in Written(call.meant)
           \/ call.meant = -1 /\ call.arg \in Seq(Nat)
    BY <1>2, LibcAssumption DEF LibcInv
  <2> QED BY <2>1, IntMeant, IntRefused
<1> QED BY <1>1, <1>2

(* Whatever inttostring writes of any signed number, in any base from 2 to *)
(* 16, strtoll reads back in full; and of any text, the int command raises *)
(* the interrupt it names in decimal or in hexadecimal, and none if it is  *)
(* seen to be no number by its first character or from the third digit on. *)
(* Other texts it takes for numbers: 1x for 1, 0xzz for 0, 300 for 44.     *)
THEOREM NumbersAlwaysReadBack == LibcSpec => []NumbersReadBack
  BY LibcInvHolds, NumbersRight, PTL

-----------------------------------------------------------------------------
(* acc[i] is the first i of the sequences of q, one after the other.       *)
Gathers(acc, q) ==
  /\ acc[0] = <<>> /\ acc[Len(q)] = FlattenSeq(q)
  /\ \A i \in 1 .. Len(q) : acc[i] = acc[i - 1] \o q[i]

(* FlattenSeq joins its sequences one after the other.                     *)
LEMMA Flattened ==
  ASSUME NEW E, NEW q \in Seq(Seq(E))
  PROVE  \E acc : Gathers(acc, q)
<1> DEFINE Next1(f, i) == IF i = 1 THEN q[i] ELSE f[i - 1] \o q[i]
           Is(f, N) == f = [i \in 1 .. N |-> Next1(f, i)]
           S == {N \in 0 .. Len(q) : \E f : Is(f, N)}
           n == Len(q)
           flatten == CHOOSE f : Is(f, n)
           acc == [i \in 0 .. n |-> IF i = 0 THEN <<>> ELSE flatten[i]]
<1>1. n \in Nat /\ \A i \in 1 .. n : q[i] \in Seq(E)
  OBVIOUS
<1>2. 0 \in S
  <2>1. Is([i \in 1 .. 0 |-> q[i]], 0)
    OBVIOUS
  <2>2. 0 \in 0 .. Len(q)
    BY <1>1
  <2>3. \E f : Is(f, 0)
    BY <2>1
  <2> HIDE DEF Is
  <2> QED BY <2>2, <2>3
<1>3. ASSUME NEW N \in 1 .. n, N - 1 \in S PROVE N \in S
  <2>1. PICK f : Is(f, N - 1)
    BY <1>3
  <2> DEFINE g == [i \in 1 .. N |-> IF i < N THEN f[i] ELSE Next1(f, N)]
  <2>2. ASSUME NEW i \in 1 .. N PROVE g[i] = Next1(g, i)
    <3>1. CASE i < N
      <4>1. i \in 1 .. N - 1
        BY <3>1
      <4>2. f[i] = Next1(f, i)
        BY <2>1, <4>1
      <4> QED BY <3>1, <4>2
    <3>2. CASE ~ (i < N)
      <4>1. i = N
        BY <3>2
      <4> QED BY <3>2, <4>1
    <3> QED BY <3>1, <3>2
  <2>3. Is(g, N)
    BY <2>2
  <2>4. N \in 0 .. Len(q)
    OBVIOUS
  <2>5. \E h : Is(h, N)
    BY <2>3
  <2> HIDE DEF Is
  <2> QED BY <2>4, <2>5
<1>4. n \in S
  <2>1. 0 .. n \subseteq S
    <3> HIDE DEF S, n
    <3> QED BY <1>1, <1>2, <1>3, Ascending
  <2> HIDE DEF S
  <2> QED BY <1>1, <2>1
<1>5. Is(flatten, n)
  <2>1. \E f : Is(f, n)
    BY <1>4
  <2> HIDE DEF Is
  <2> QED BY <2>1
<1>6. n # 0 => FlattenSeq(q) = flatten[n]
  BY DEF FlattenSeq
<1>7. n = 0 => FlattenSeq(q) = <<>>
  BY EmptySeq DEF FlattenSeq
<1> HIDE DEF flatten
<1>8. \A i \in 1 .. n : flatten[i] = Next1(flatten, i)
  BY <1>5
<1>9. acc[0] = <<>> /\ \A i \in 1 .. n : acc[i] = flatten[i]
  BY <1>1
<1>10. acc[n] = FlattenSeq(q)
  BY <1>1, <1>6, <1>7, <1>9
<1>11. ASSUME NEW i \in 1 .. n PROVE acc[i] = acc[i - 1] \o q[i]
  <2>1. CASE i = 1
    <3>1. acc[i] = q[i] /\ acc[i - 1] = <<>>
      BY <1>8, <1>9, <2>1
    <3> HIDE DEF acc
    <3>2. <<>> \o q[i] = q[i]
      BY <1>1, ConcatEmptySeq
    <3> QED BY <3>1, <3>2
  <2>2. CASE i # 1
    <3>1. i - 1 \in 1 .. n
      BY <2>2
    <3> HIDE DEF acc
    <3> QED BY <1>8, <1>9, <2>2, <3>1
  <2> QED BY <2>1, <2>2
<1> HIDE DEF acc
<1> QED BY <1>9, <1>10, <1>11 DEF Gathers

(* What is gathered are sequences, each the beginning of the next.         *)
LEMMA GatheredAre ==
  ASSUME NEW E, NEW q \in Seq(Seq(E)), NEW acc, Gathers(acc, q)
  PROVE  \A i \in 0 .. Len(q) : acc[i] \in Seq(E)
<1> DEFINE S == {i \in 0 .. Len(q) : acc[i] \in Seq(E)}
<1>1. Len(q) \in Nat /\ \A i \in 1 .. Len(q) : q[i] \in Seq(E)
  OBVIOUS
<1>2. 0 \in S
  <2>1. acc[0] = <<>> /\ <<>> \in Seq(E) /\ 0 \in 0 .. Len(q)
    BY <1>1, EmptySeq DEF Gathers
  <2> QED BY <2>1
<1>3. ASSUME NEW i \in 1 .. Len(q), i - 1 \in S PROVE i \in S
  <2>1. acc[i - 1] \in Seq(E) /\ q[i] \in Seq(E)
    BY <1>1, <1>3
  <2>2. acc[i - 1] \o q[i] \in Seq(E)
    BY <2>1, ConcatProperties
  <2>3. acc[i] = acc[i - 1] \o q[i]
    BY DEF Gathers
  <2>4. i \in 0 .. Len(q)
    BY <1>1
  <2>5. acc[i] \in Seq(E)
    BY <2>2, <2>3
  <2> QED BY <2>4, <2>5
<1>4. 0 .. Len(q) \subseteq S
  <2> HIDE DEF S
  <2> QED BY <1>1, <1>2, <1>3, Ascending
<1> QED BY <1>4

(* One sequence after another, element by element.                         *)
LEMMA Joined ==
  ASSUME NEW E, NEW a \in Seq(E), NEW b \in Seq(E)
  PROVE  /\ Len(a) \in Nat /\ Len(b) \in Nat
         /\ a \o b \in Seq(E) /\ Len(a \o b) = Len(a) + Len(b)
         /\ \A k \in 1 .. Len(a) : (a \o b)[k] = a[k]
         /\ \A k \in 1 .. Len(b) : (a \o b)[Len(a) + k] = b[k]
<1> DEFINE c == a \o b
<1>1. /\ Len(a) \in Nat /\ Len(b) \in Nat /\ c \in Seq(E) /\ Len(c) = Len(a) + Len(b)
      /\ \A k \in 1 .. Len(c) : c[k] = IF k <= Len(a) THEN a[k] ELSE b[k - Len(a)]
  BY ConcatProperties
<1> HIDE DEF c
<1>2. \A k \in 1 .. Len(a) : c[k] = a[k]
  BY <1>1
<1>3. ASSUME NEW k \in 1 .. Len(b) PROVE c[Len(a) + k] = b[k]
  <2>1. /\ Len(a) + k \in 1 .. Len(c) /\ ~ (Len(a) + k <= Len(a))
        /\ (Len(a) + k) - Len(a) = k
    BY <1>1
  <2> QED BY <1>1, <2>1
<1> QED BY <1>1, <1>2, <1>3 DEF c

(* The place in s of each of the sequences of q, and of t, which follows.  *)
Placed(acc, q, t, s, E) ==
  /\ s \in Seq(E) /\ Len(s) = Len(acc[Len(q)]) + Len(t)
  /\ \A k \in 1 .. Len(t) : s[Len(acc[Len(q)]) + k] = t[k]
  /\ \A i \in 1 .. Len(q) :
       /\ Len(acc[i]) = Len(acc[i - 1]) + Len(q[i]) /\ Len(acc[i]) <= Len(s)
       /\ \A k \in 1 .. Len(q[i]) : s[Len(acc[i - 1]) + k] = q[i][k]

(* The characters of one sequence stand together in the whole.             *)
LEMMA GatheredAt ==
  ASSUME NEW E, NEW q \in Seq(Seq(E)), NEW acc, Gathers(acc, q),
         NEW t \in Seq(E)
  PROVE  Placed(acc, q, t, FlattenSeq(q) \o t, E)
<1> DEFINE n == Len(q)
           s == FlattenSeq(q) \o t
           Begins(i, j) == /\ Len(acc[i]) <= Len(acc[j])
                           /\ \A k \in 1 .. Len(acc[i]) : acc[j][k] = acc[i][k]
<1>1. n \in Nat /\ \A i \in 1 .. n : q[i] \in Seq(E)
  OBVIOUS
<1>2. \A i \in 0 .. n : acc[i] \in Seq(E)
  BY GatheredAre
<1>3. acc[0] = <<>> /\ acc[n] = FlattenSeq(q) /\ \A i \in 1 .. n : acc[i] = acc[i - 1] \o q[i]
  BY DEF Gathers
<1>8. s = FlattenSeq(q) \o t
  OBVIOUS
<1> HIDE DEF n, s
<1>4. ASSUME NEW i \in 1 .. n
      PROVE  /\ Len(acc[i]) = Len(acc[i - 1]) + Len(q[i])
             /\ Len(acc[i - 1]) \in Nat /\ Len(q[i]) \in Nat
             /\ \A k \in 1 .. Len(acc[i - 1]) : acc[i][k] = acc[i - 1][k]
             /\ \A k \in 1 .. Len(q[i]) : acc[i][Len(acc[i - 1]) + k] = q[i][k]
  <2> DEFINE a == acc[i - 1]
             b == q[i]
             c == acc[i]
  <2>1. i - 1 \in 0 .. n
    BY <1>1
  <2>2. a \in Seq(E) /\ b \in Seq(E) /\ c = a \o b
    BY <1>1, <1>2, <1>3, <2>1
  <2> HIDE DEF a, b, c
  <2>3. /\ Len(a) \in Nat /\ Len(b) \in Nat /\ Len(c) = Len(a) + Len(b)
        /\ \A k \in 1 .. Len(a) : c[k] = a[k]
        /\ \A k \in 1 .. Len(b) : c[Len(a) + k] = b[k]
    BY <2>2, Joined
  <2> QED BY <2>3 DEF a, b, c
<1>5. ASSUME NEW i \in 0 .. n PROVE Begins(i, n)
  <2> DEFINE S == {j \in 0 .. n : j < i \/ Begins(i, j)}
  <2>0. Begins(i, i)
    <3>1. Len(acc[i]) \in Nat
      BY <1>2, LenProperties
    <3> QED BY <3>1
  <2>1. 0 \in S
    BY <1>1, <2>0
  <2>2. ASSUME NEW j \in 1 .. n, j - 1 \in S PROVE j \in S
    <3>1. CASE j <= i
      <4>1. j < i \/ j = i
        BY <3>1
      <4> QED BY <2>0, <4>1
    <3>2. CASE ~ (j <= i)
      <4>1. ~ (j - 1 < i) /\ i <= j - 1
        BY <3>2
      <4>2. /\ Len(acc[i]) <= Len(acc[j - 1])
            /\ \A k \in 1 .. Len(acc[i]) : acc[j - 1][k] = acc[i][k]
        BY <2>2, <4>1
      <4>3. /\ Len(acc[j]) = Len(acc[j - 1]) + Len(q[j])
            /\ Len(acc[j - 1]) \in Nat /\ Len(q[j]) \in Nat
            /\ \A k \in 1 .. Len(acc[j - 1]) : acc[j][k] = acc[j - 1][k]
        BY <1>4
      <4>4. Len(acc[i]) \in Nat
        BY <1>2, LenProperties
      <4>5. ASSUME NEW k \in 1 .. Len(acc[i]) PROVE acc[j][k] = acc[i][k]
        <5> DEFINE x == Len(acc[i])
                   y == Len(acc[j - 1])
        <5>1. k \in 1 .. y
          <6>1. k \in 1 .. x /\ x <= y /\ x \in Nat /\ y \in Nat
            BY <4>2, <4>3, <4>4
          <6> HIDE DEF x, y
          <6> QED BY <6>1
        <5>2. acc[j][k] = acc[j - 1][k]
          BY <4>3, <5>1
        <5> QED BY <4>2, <5>2
      <4>6. Len(acc[i]) <= Len(acc[j])
        <5> DEFINE x == Len(acc[i])
                   y == Len(acc[j - 1])
                   z == Len(q[j])
        <5>1. /\ x <= y /\ x \in Nat /\ y \in Nat /\ z \in Nat
              /\ Len(acc[j]) = y + z
          BY <4>2, <4>3, <4>4
        <5> HIDE DEF x, y, z
        <5>2. x <= y + z
          BY <5>1
        <5> QED BY <5>1, <5>2 DEF x
      <4>7. Begins(i, j)
        BY <4>5, <4>6
      <4> QED BY <4>7
    <3> QED BY <3>1, <3>2
  <2>3. 0 .. n \subseteq S
    <3> HIDE DEF S
    <3> QED BY <1>1, <2>1, <2>2, Ascending
  <2>4. n \in 0 .. n /\ ~ (n < i)
    BY <1>1
  <2> HIDE DEF Begins
  <2> QED BY <2>3, <2>4
<1>6. /\ Len(acc[n]) \in Nat /\ Len(t) \in Nat
      /\ s \in Seq(E) /\ Len(s) = Len(acc[n]) + Len(t)
      /\ \A k \in 1 .. Len(acc[n]) : s[k] = acc[n][k]
      /\ \A k \in 1 .. Len(t) : s[Len(acc[n]) + k] = t[k]
  <2> DEFINE a == acc[n]
  <2>1. n \in 0 .. n
    BY <1>1
  <2>2. a \in Seq(E) /\ s = a \o t
    BY <1>2, <1>3, <1>8, <2>1
  <2> HIDE DEF a
  <2>3. /\ Len(a) \in Nat /\ Len(t) \in Nat
        /\ s \in Seq(E) /\ Len(s) = Len(a) + Len(t)
        /\ \A k \in 1 .. Len(a) : s[k] = a[k]
        /\ \A k \in 1 .. Len(t) : s[Len(a) + k] = t[k]
    BY <2>2, Joined
  <2> QED BY <2>3 DEF a
<1>7. ASSUME NEW i \in 1 .. n
      PROVE  /\ Len(acc[i]) = Len(acc[i - 1]) + Len(q[i]) /\ Len(acc[i]) <= Len(s)
             /\ \A k \in 1 .. Len(q[i]) : s[Len(acc[i - 1]) + k] = q[i][k]
  <2>1. /\ Len(acc[i]) = Len(acc[i - 1]) + Len(q[i])
        /\ Len(acc[i - 1]) \in Nat /\ Len(q[i]) \in Nat
        /\ \A k \in 1 .. Len(q[i]) : acc[i][Len(acc[i - 1]) + k] = q[i][k]
    BY <1>4
  <2>2. i \in 0 .. n
    BY <1>1
  <2>3. /\ Len(acc[i]) <= Len(acc[n])
        /\ \A k \in 1 .. Len(acc[i]) : acc[n][k] = acc[i][k]
    BY <1>5, <2>2
  <2> DEFINE x == Len(acc[i])
             y == Len(acc[i - 1])
             z == Len(q[i])
             w == Len(acc[n])
  <2>4. /\ x = y + z /\ x <= w /\ w \in Nat /\ y \in Nat /\ z \in Nat
        /\ Len(s) = w + Len(t) /\ Len(t) \in Nat
    BY <1>6, <2>1, <2>3
  <2>6. x <= Len(s)
    <3> HIDE DEF x, y, z, w
    <3> QED BY <2>4
  <2>5. ASSUME NEW k \in 1 .. Len(q[i]) PROVE s[Len(acc[i - 1]) + k] = q[i][k]
    <3> DEFINE m == Len(acc[i - 1]) + k
    <3>1. m \in 1 .. x /\ m \in 1 .. w
      <4> HIDE DEF x, w
      <4>1. m = y + k /\ k \in 1 .. z
        OBVIOUS
      <4> HIDE DEF m, y, z
      <4> QED BY <2>4, <4>1
    <3>3. acc[i][m] = q[i][k]
      BY <2>1
    <3> HIDE DEF m
    <3>2. s[m] = q[i][k]
      BY <1>6, <2>3, <3>1, <3>3
    <3> QED BY <3>2 DEF m
  <2> QED BY <2>1, <2>5, <2>6
<1> QED BY <1>6, <1>7 DEF n, s, Placed

-----------------------------------------------------------------------------
(* A number of one digit.                                                  *)
LEMMA SingleDigit ==
  ASSUME NEW n \in Nat, NEW base \in Bases, n \div base = 0, n % base = n
  PROVE  uinttostring(n, base) = <<Digit(n)>>
<1> DEFINE Step(f) == [i \in 0 .. n |-> Turn(f, i, base)]
           low == CHOOSE f : f = Step(f)
           d == Digit(n)
<1>1. low = Step(low)
  <2>1. \E f : f = Step(f)
    BY LowExists
  <2> HIDE DEF Step
  <2> QED BY <2>1
<1>2. uinttostring(n, base) = Reverse(low[n])
  BY DEF uinttostring, Turn
<1> HIDE DEF low
<1>3. low[n] = Turn(low, n, base)
  BY <1>1
<1>4. low[n] = <<d>> \o <<>>
  BY <1>3 DEF Turn
<1>5. d \in Nat
  <2>1. n \in 0 .. base - 1
    BY DivMod
  <2> QED BY <2>1, DigitIs
<1> HIDE DEF d
<1>6. low[n] = <<d>>
  BY <1>4, <1>5
<1>7. Reverse(<<d>>) = <<d>>
  BY DEF Reverse
<1> QED BY <1>2, <1>6, <1>7 DEF d

(* A decimal number of one digit.                                          *)
LEMMA OneDigit ==
  ASSUME NEW n \in 0 .. 9
  PROVE  uinttostring(n, 10) = <<48 + n>>
<1>1. n \in Nat /\ 10 \in Bases /\ n \div 10 = 0 /\ n % 10 = n /\ Digit(n) = 48 + n
  BY DEF Bases, Digit
<1>2. uinttostring(n, 10) = <<Digit(n)>>
  BY <1>1, SingleDigit
<1> QED BY <1>1, <1>2

(* The digits of a width are read as characters.                           *)
LEMMA NumberTyped ==
  ASSUME NEW nb \in Nat, NEW base \in Bases
  PROVE  uinttostring(nb, base) \in Seq(Int)
<1>1. uinttostring(nb, base) \in Seq(Nat)
  BY WritesNumber DEF Spells
<1> QED BY <1>1

(* The lengths of the parts of a directive.                                *)
Opening(d) == Len(d.literal)
(* How many characters each part of a directive takes.                     *)
Flag(d) == IF d.showbase THEN 1 ELSE 0
Padding(d) == IF d.width = 0 THEN 0 ELSE 2
Size(d) == IF d.long THEN 1 ELSE 0

(* A directive as it is written, character by character.                   *)
LEMMA WrittenAt ==
  ASSUME NEW d, Sayable(d), d.width < 10
  PROVE  LET l == Opening(d)
             a == Flag(d)
             b == Padding(d)
             c == Size(d)
             w == Written_as(d)
         IN /\ w \in Seq(Int) /\ Len(w) = l + 1 + a + b + c + 1
            /\ l \in Nat /\ a \in {0, 1} /\ b \in {0, 2} /\ c \in {0, 1}
            /\ \A k \in 1 .. l : w[k] = d.literal[k]
            /\ w[l + 1] = 37
            /\ d.showbase => a = 1 /\ w[l + 1 + a] = 35
            /\ d.width # 0 => b = 2 /\ w[l + 1 + a + 1] = 48 /\ w[l + 1 + a + 2] = 48 + d.width
            /\ d.long => c = 1 /\ w[l + 1 + a + b + 1] = 108
            /\ ~d.showbase => a = 0
            /\ d.width = 0 => b = 0
            /\ ~d.long => c = 0
            /\ w[l + 1 + a + b + c + 1] = d.conv
<1> DEFINE l == Opening(d)
           a == Flag(d)
           b == Padding(d)
           c == Size(d)
           w == Written_as(d)
           flag == IF d.showbase THEN <<35>> ELSE <<>>
           pad == IF d.width = 0 THEN <<>> ELSE <<48>> \o uinttostring(d.width, 10)
           size == IF d.long THEN <<108>> ELSE <<>>
           p == <<37>>
           v == <<d.conv>>
           w1 == d.literal \o p
           w2 == w1 \o flag
           w3 == w2 \o pad
           w4 == w3 \o size
<1>1. w = w4 \o v
  BY DEF Written_as
<1>2. /\ flag \in Seq(Int) /\ Len(flag) = a /\ (d.showbase => a = 1 /\ flag[1] = 35)
      /\ size \in Seq(Int) /\ Len(size) = c /\ (d.long => c = 1 /\ size[1] = 108)
      /\ p \in Seq(Int) /\ Len(p) = 1 /\ p[1] = 37
  <2>1. flag \in Seq(Int) /\ Len(flag) = a /\ (d.showbase => a = 1 /\ flag[1] = 35)
    BY DEF Flag
  <2>2. size \in Seq(Int) /\ Len(size) = c /\ (d.long => c = 1 /\ size[1] = 108)
    BY DEF Size
  <2> QED BY <2>1, <2>2
<1>3. v \in Seq(Int) /\ Len(v) = 1 /\ v[1] = d.conv
  <2>1. d.conv \in Int
    BY DEF Sayable
  <2> DEFINE e == d.conv
  <2>2. e \in Int
    BY <2>1
  <2> HIDE DEF e
  <2>3. <<e>> \in Seq(Int) /\ Len(<<e>>) = 1 /\ <<e>>[1] = e
    BY <2>2
  <2> QED BY <2>3 DEF e
<1>4. pad \in Seq(Int) /\ Len(pad) = b /\ (d.width # 0 => b = 2 /\ pad[1] = 48 /\ pad[2] = 48 + d.width)
  <2>1. CASE d.width = 0
    <3>1. pad = <<>> /\ b = 0
      BY <2>1 DEF Padding
    <3> HIDE DEF pad
    <3>2. <<>> \in Seq(Int) /\ Len(<<>>) = 0
      OBVIOUS
    <3> QED BY <2>1, <3>1, <3>2
  <2>2. CASE d.width # 0
    <3>0. d.width \in Nat
      BY DEF Sayable
    <3>1. d.width \in 0 .. 9
      BY <3>0
    <3>2. uinttostring(d.width, 10) = <<48 + d.width>>
      BY <3>1, OneDigit
    <3> DEFINE e == 48 + d.width
    <3>3. pad = <<48>> \o <<e>>
      BY <2>2, <3>2
    <3>4. e \in Int
      BY <3>1
    <3> HIDE DEF e, pad
    <3> DEFINE x == <<48>>
               y == <<e>>
    <3>5. x \in Seq(Int) /\ y \in Seq(Int)
      BY <3>4
    <3>9. Len(x) = 1 /\ Len(y) = 1 /\ x[1] = 48 /\ y[1] = e
      BY <3>4
    <3> HIDE DEF x, y
    <3>6. /\ x \o y \in Seq(Int) /\ Len(x \o y) = Len(x) + Len(y)
          /\ \A k \in 1 .. Len(x) : (x \o y)[k] = x[k]
          /\ \A k \in 1 .. Len(y) : (x \o y)[Len(x) + k] = y[k]
      BY <3>5, Joined
    <3>7. pad = x \o y /\ b = 2
      BY <2>2, <3>3 DEF x, y, Padding
    <3>8. Len(pad) = 2 /\ pad[1] = 48 /\ pad[2] = e
      BY <3>6, <3>7, <3>9
    <3> QED BY <3>6, <3>7, <3>8 DEF e
  <2> QED BY <2>1, <2>2
<1>5. d.literal \in Seq(Int) /\ Len(d.literal) = l /\ l \in Nat
  <2>1. d.literal \in Seq(Nat \ {37})
    BY DEF Sayable
  <2> QED BY <2>1 DEF Opening
<1>6. /\ a \in {0, 1} /\ b \in {0, 2} /\ c \in {0, 1}
      /\ (~d.showbase => a = 0) /\ (d.width = 0 => b = 0) /\ (~d.long => c = 0)
  BY DEF Flag, Padding, Size
<1> HIDE DEF flag, pad, size, p, v
<1> DEFINE l1 == l + 1
           l2 == l1 + a
           l3 == l2 + b
           l4 == l3 + c
<1>12. /\ l1 \in Nat /\ l2 \in Nat /\ l3 \in Nat /\ l4 \in Nat
       /\ l <= l1 /\ l1 <= l2 /\ l2 <= l3 /\ l3 <= l4 /\ l1 = l + 1
       /\ l2 = l1 + a /\ l3 = l2 + b /\ l4 = l3 + c
  BY <1>5, <1>6
<1> HIDE DEF l1, l2, l3, l4
<1>7. /\ w1 \in Seq(Int) /\ Len(w1) = l1
      /\ \A k \in 1 .. l : w1[k] = d.literal[k]
      /\ \A k \in 1 .. 1 : w1[l + k] = p[k]
  <2>1. w1 = d.literal \o p
    OBVIOUS
  <2>2. d.literal \in Seq(Int) /\ p \in Seq(Int)
    BY <1>5, <1>2
  <2>4. Len(d.literal) = l /\ Len(p) = 1
    BY <1>5, <1>2
  <2> HIDE DEF w1
  <2>3. /\ d.literal \o p \in Seq(Int) /\ Len(d.literal \o p) = Len(d.literal) + Len(p)
        /\ \A k \in 1 .. Len(d.literal) : (d.literal \o p)[k] = d.literal[k]
        /\ \A k \in 1 .. Len(p) : (d.literal \o p)[Len(d.literal) + k] = p[k]
    BY <2>2, Joined
  <2> QED BY <1>12, <2>1, <2>3, <2>4
<1> HIDE DEF w1
<1>8. /\ w2 \in Seq(Int) /\ Len(w2) = l2
      /\ \A k \in 1 .. l1 : w2[k] = w1[k]
      /\ \A k \in 1 .. a : w2[l1 + k] = flag[k]
  <2>1. w2 = w1 \o flag
    OBVIOUS
  <2>2. w1 \in Seq(Int) /\ flag \in Seq(Int)
    BY <1>7, <1>2
  <2>4. Len(w1) = l1 /\ Len(flag) = a
    BY <1>7, <1>2
  <2> HIDE DEF w2
  <2>3. /\ w1 \o flag \in Seq(Int) /\ Len(w1 \o flag) = Len(w1) + Len(flag)
        /\ \A k \in 1 .. Len(w1) : (w1 \o flag)[k] = w1[k]
        /\ \A k \in 1 .. Len(flag) : (w1 \o flag)[Len(w1) + k] = flag[k]
    BY <2>2, Joined
  <2> QED BY <1>12, <2>1, <2>3, <2>4
<1> HIDE DEF w2
<1>9. /\ w3 \in Seq(Int) /\ Len(w3) = l3
      /\ \A k \in 1 .. l2 : w3[k] = w2[k]
      /\ \A k \in 1 .. b : w3[l2 + k] = pad[k]
  <2>1. w3 = w2 \o pad
    OBVIOUS
  <2>2. w2 \in Seq(Int) /\ pad \in Seq(Int)
    BY <1>8, <1>4
  <2>4. Len(w2) = l2 /\ Len(pad) = b
    BY <1>8, <1>4
  <2> HIDE DEF w3
  <2>3. /\ w2 \o pad \in Seq(Int) /\ Len(w2 \o pad) = Len(w2) + Len(pad)
        /\ \A k \in 1 .. Len(w2) : (w2 \o pad)[k] = w2[k]
        /\ \A k \in 1 .. Len(pad) : (w2 \o pad)[Len(w2) + k] = pad[k]
    BY <2>2, Joined
  <2> QED BY <1>12, <2>1, <2>3, <2>4
<1> HIDE DEF w3
<1>10. /\ w4 \in Seq(Int) /\ Len(w4) = l4
       /\ \A k \in 1 .. l3 : w4[k] = w3[k]
       /\ 1 \in 1 .. c => w4[l3 + 1] = size[1]
  <2>1. w4 = w3 \o size
    OBVIOUS
  <2>2. w3 \in Seq(Int) /\ size \in Seq(Int)
    BY <1>9, <1>2
  <2>4. Len(w3) = l3 /\ Len(size) = c
    BY <1>9, <1>2
  <2> HIDE DEF w4
  <2>3. /\ w3 \o size \in Seq(Int) /\ Len(w3 \o size) = Len(w3) + Len(size)
        /\ \A k \in 1 .. Len(w3) : (w3 \o size)[k] = w3[k]
        /\ \A k \in 1 .. Len(size) : (w3 \o size)[Len(w3) + k] = size[k]
    BY <2>2, Joined
  <2> QED BY <1>12, <2>1, <2>3, <2>4
<1> HIDE DEF w4
<1>11. /\ w \in Seq(Int) /\ Len(w) = l4 + 1
       /\ \A k \in 1 .. l4 : w[k] = w4[k]
       /\ w[l4 + 1] = v[1]
  <2>1. w = w4 \o v
    BY <1>1
  <2>2. w4 \in Seq(Int) /\ v \in Seq(Int)
    BY <1>10, <1>3
  <2>4. Len(w4) = l4 /\ Len(v) = 1
    BY <1>10, <1>3
  <2>3. /\ w4 \o v \in Seq(Int) /\ Len(w4 \o v) = Len(w4) + Len(v)
        /\ \A k \in 1 .. Len(w4) : (w4 \o v)[k] = w4[k]
        /\ \A k \in 1 .. Len(v) : (w4 \o v)[Len(w4) + k] = v[k]
    BY <2>2, Joined
  <2> QED BY <2>1, <2>3, <2>4
<1>13. \A k \in 1 .. l1 : w[k] = w1[k]
  <2> TAKE k \in 1 .. l1
  <2>1. k \in 1 .. l2 /\ k \in 1 .. l3 /\ k \in 1 .. l4
    BY <1>12
  <2> QED BY <1>8, <1>9, <1>10, <1>11, <2>1
<1>14. \A k \in 1 .. l2 : w[k] = w2[k]
  <2> TAKE k \in 1 .. l2
  <2>1. k \in 1 .. l3 /\ k \in 1 .. l4
    BY <1>12
  <2> QED BY <1>9, <1>10, <1>11, <2>1
<1>15. \A k \in 1 .. l3 : w[k] = w3[k]
  <2> TAKE k \in 1 .. l3
  <2>1. k \in 1 .. l4
    BY <1>12
  <2> QED BY <1>10, <1>11, <2>1
<1>16. \A k \in 1 .. l : w[k] = d.literal[k]
  BY <1>5, <1>7, <1>12, <1>13
<1>17. w[l1] = 37
  <2>1. l1 \in 1 .. l1 /\ 1 \in 1 .. 1
    BY <1>5, <1>12
  <2> QED BY SMTT(30), <1>2, <1>7, <1>12, <1>13, <2>1
<1>18. d.showbase => w[l1 + a] = 35
  <2> SUFFICES ASSUME d.showbase PROVE w[l1 + a] = 35
    OBVIOUS
  <2>1. 1 \in 1 .. a /\ l1 + 1 \in 1 .. l2 /\ flag[1] = 35 /\ a = 1
    BY <1>2, <1>12
  <2> QED BY <1>8, <1>14, <2>1
<1>19. d.width # 0 => w[l2 + 1] = 48 /\ w[l2 + 2] = 48 + d.width
  <2> SUFFICES ASSUME d.width # 0 PROVE w[l2 + 1] = 48 /\ w[l2 + 2] = 48 + d.width
    OBVIOUS
  <2>1. b = 2 /\ pad[1] = 48 /\ pad[2] = 48 + d.width
    BY <1>4
  <2>2. 1 \in 1 .. b /\ 2 \in 1 .. b /\ l2 + 1 \in 1 .. l3 /\ l2 + 2 \in 1 .. l3
    BY <1>12, <2>1
  <2> QED BY <1>9, <1>15, <2>1, <2>2
<1>20. d.long => w[l3 + 1] = 108
  <2> SUFFICES ASSUME d.long PROVE w[l3 + 1] = 108
    OBVIOUS
  <2>1. 1 \in 1 .. c /\ l3 + 1 \in 1 .. l4 /\ size[1] = 108
    BY <1>2, <1>12
  <2> DEFINE i == l3 + 1
  <2>2. w4[i] = size[1]
    BY <1>10, <2>1
  <2>3. i \in 1 .. l4
    BY <2>1
  <2> HIDE DEF i
  <2>4. w[i] = w4[i]
    BY <1>11, <2>3
  <2> QED BY <2>1, <2>2, <2>4 DEF i
<1>21. w[l4 + 1] = d.conv
  <2>1. 1 \in 1 .. 1
    OBVIOUS
  <2>2. w[l4 + 1] = v[1]
    BY <1>11
  <2> QED BY <1>3, <2>2
<1>22. w \in Seq(Int) /\ Len(w) = l4 + 1
  BY <1>11
<1>23. (d.showbase => a = 1) /\ (d.width # 0 => b = 2) /\ (d.long => c = 1)
  BY <1>2, <1>4
<1> QED BY <1>5, <1>6, <1>16, <1>17, <1>18, <1>19, <1>20, <1>21, <1>22, <1>23 DEF l1, l2, l3, l4

-----------------------------------------------------------------------------
(* The recursive function of Directive exists.                             *)
Summed(sum, fmt, m, k) == IF k = 0 THEN 0 ELSE sum[k - 1] + At(fmt, m + k) - 48
(* The recursive function that reads a width has a solution.               *)
Summing(sum, fmt, m, n) == sum = [k \in 0 .. n |-> Summed(sum, fmt, m, k)]

(* The partial sums of the digits of a width exist.                        *)
LEMMA SumExists ==
  ASSUME NEW fmt, NEW m, NEW n \in Nat
  PROVE  \E sum : Summing(sum, fmt, m, n)
<1> DEFINE Next1(f, k) == Summed(f, fmt, m, k)
           Is(f, N) == f = [k \in 0 .. N |-> Next1(f, k)]
           S == {N \in 0 .. n : \E f : Is(f, N)}
<1>1. 0 \in S
  <2>1. Is([k \in 0 .. 0 |-> 0], 0)
    BY DEF Summed
  <2>2. 0 \in 0 .. n
    OBVIOUS
  <2>3. \E f : Is(f, 0)
    BY <2>1
  <2> HIDE DEF Is
  <2> QED BY <2>2, <2>3
<1>2. ASSUME NEW N \in 1 .. n, N - 1 \in S PROVE N \in S
  <2>1. PICK f : Is(f, N - 1)
    BY <1>2
  <2> DEFINE g == [k \in 0 .. N |-> IF k < N THEN f[k] ELSE Next1(f, N)]
  <2>2. ASSUME NEW k \in 0 .. N PROVE g[k] = Next1(g, k)
    <3>1. CASE k < N
      <4>1. k \in 0 .. N - 1
        BY <3>1
      <4>2. f[k] = Next1(f, k)
        BY <2>1, <4>1
      <4>3. g[k] = f[k] /\ (k # 0 => g[k - 1] = f[k - 1])
        BY <3>1
      <4> HIDE DEF g
      <4> QED BY <4>2, <4>3 DEF Summed
    <3>2. CASE ~ (k < N)
      <4>1. k = N /\ g[k] = Next1(f, N) /\ g[N - 1] = f[N - 1]
        BY <3>2
      <4> HIDE DEF g
      <4> QED BY <4>1 DEF Summed
    <3> QED BY <3>1, <3>2
  <2>3. Is(g, N)
    BY <2>2
  <2>4. N \in 0 .. n
    OBVIOUS
  <2>5. \E h : Is(h, N)
    BY <2>3
  <2> HIDE DEF Is
  <2> QED BY <2>4, <2>5
<1>3. n \in S
  <2>1. 0 .. n \subseteq S
    <3> HIDE DEF S
    <3> QED BY <1>1, <1>2, Ascending
  <2>2. n \in 0 .. n
    OBVIOUS
  <2> HIDE DEF S
  <2> QED BY <2>1, <2>2
<1> QED BY <1>3 DEF Summing

(* A directive that stands in a format behind the % at mark.               *)
StandsAt(d, fmt, mark) ==
  LET a == Flag(d)
      b == Padding(d)
      c == Size(d)
  IN /\ mark + a + b + c + 1 <= Len(fmt)
     /\ a \in {0, 1} /\ b \in {0, 2} /\ c \in {0, 1}
     /\ d.showbase => a = 1 /\ fmt[mark + 1] = 35
     /\ d.width # 0 => b = 2 /\ fmt[mark + a + 1] = 48 /\ fmt[mark + a + 2] = 48 + d.width
     /\ d.long => c = 1 /\ fmt[mark + a + b + 1] = 108
     /\ ~d.showbase => a = 0
     /\ d.width = 0 => b = 0
     /\ ~d.long => c = 0
     /\ fmt[mark + a + b + c + 1] = d.conv

(* It is read as what it is.                                               *)
LEMMA DirectiveIs ==
  ASSUME NEW fmt \in Seq(Int), NEW mark \in Nat, NEW d, Sayable(d), d.width < 10,
         StandsAt(d, fmt, mark)
  PROVE  LET r == Directive(fmt, mark)
         IN /\ r.showbase <=> d.showbase
            /\ r.width = d.width /\ r.conv = d.conv
            /\ r.mark = mark + Flag(d) + Padding(d) + Size(d) + 1
<1> DEFINE a == Flag(d)
           b == Padding(d)
           c == Size(d)
           showbase == At(fmt, mark + 1) = 35
           m1 == IF showbase THEN mark + 2 ELSE mark + 1
           zero == At(fmt, m1) = 48
           sum == CHOOSE s : s = [k \in 0 .. Len(fmt) |-> Summed(s, fmt, m1, k)]
           P(k) == /\ \A j \in 1 .. k : isdigit(At(fmt, m1 + j)) /\ sum[j - 1] < 21
                   /\ ~isdigit(At(fmt, m1 + k + 1)) \/ sum[k] >= 21
           digits == CHOOSE k \in 0 .. Len(fmt) : P(k)
           m2 == IF zero THEN m1 + 1 + digits ELSE m1
           m3 == IF At(fmt, m2) = 108 THEN m2 + 1 ELSE m2
<1>1. Directive(fmt, mark) = [showbase |-> showbase, width |-> IF zero THEN sum[digits] ELSE 0,
                              conv |-> At(fmt, m3), mark |-> m3]
  BY DEF Directive, Summed
<1>2. sum = [k \in 0 .. Len(fmt) |-> Summed(sum, fmt, m1, k)]
  <2>1. Len(fmt) \in Nat
    OBVIOUS
  <2>2. \E s : s = [k \in 0 .. Len(fmt) |-> Summed(s, fmt, m1, k)]
    <3> DEFINE N == Len(fmt)
               x == m1
    <3>1. N \in Nat
      BY <2>1
    <3> HIDE DEF N, x, m1
    <3>2. \E s : Summing(s, fmt, x, N)
      BY <3>1, SumExists, Zenon
    <3> QED BY <3>2 DEF N, x, Summing
  <2> HIDE DEF m1
  <2> QED BY <2>2
<1> HIDE DEF sum
<1>3. Len(fmt) \in Nat /\ \A k \in 1 .. Len(fmt) : At(fmt, k) = fmt[k] /\ fmt[k] \in Int
  BY DEF At
<1>4. d.conv \in Nat /\ d.conv # 35 /\ d.conv # 108 /\ d.conv # 48 /\ ~isdigit(d.conv)
  BY DEF Sayable, isdigit, CT_DIG
<1>5. d.width \in Nat
  BY DEF Sayable
<1>25. d.width \in 0 .. 9
  <2>1. ASSUME NEW x \in Nat, x < 10 PROVE x \in 0 .. 9
    BY <2>1
  <2> QED BY <1>5, <2>1
<1> DEFINE n == Len(fmt)
<1> HIDE DEF n
<1>6. /\ n \in Nat /\ \A k \in 1 .. n : At(fmt, k) = fmt[k] /\ fmt[k] \in Int
      /\ mark + a + b + c + 1 <= n
      /\ a \in {0, 1} /\ b \in {0, 2} /\ c \in {0, 1}
      /\ d.showbase => a = 1 /\ fmt[mark + 1] = 35
      /\ d.width # 0 => b = 2 /\ fmt[mark + a + 1] = 48 /\ fmt[mark + a + 2] = 48 + d.width
      /\ d.long => c = 1 /\ fmt[mark + a + b + 1] = 108
      /\ ~d.showbase => a = 0
      /\ d.width = 0 => b = 0
      /\ ~d.long => c = 0
      /\ fmt[mark + a + b + c + 1] = d.conv
  BY <1>3 DEF n, StandsAt
<1> HIDE DEF a, b, c
<1>24. /\ a \in Nat /\ b \in Nat /\ c \in Nat /\ a <= 1 /\ b <= 2 /\ c <= 1
       /\ (d.width # 0 => b = 2) /\ (d.long => c = 1) /\ (d.showbase => a = 1)
       /\ (d.width = 0 => b = 0) /\ (~d.long => c = 0) /\ (~d.showbase => a = 0)
       /\ mark + a + b + c + 1 <= n /\ n \in Nat
  BY <1>6
<1>7. \A k \in 1 .. a + b + c + 1 : At(fmt, mark + k) = fmt[mark + k]
  <2> TAKE k \in 1 .. a + b + c + 1
  <2>1. mark + k \in 1 .. n
    BY <1>24
  <2> QED BY <1>6, <2>1
<1> DEFINE h(k) == At(fmt, mark + k)
<1>8. /\ d.showbase => h(1) = 35
      /\ d.width # 0 => h(a + 1) = 48 /\ h(a + 2) = 48 + d.width
      /\ d.long => h(a + b + 1) = 108
      /\ h(a + b + c + 1) = d.conv
  <2>1. d.showbase => 1 \in 1 .. a + b + c + 1
    BY <1>24
  <2>2. d.width # 0 => a + 1 \in 1 .. a + b + c + 1 /\ a + 2 \in 1 .. a + b + c + 1
    BY <1>24
  <2>3. d.long => a + b + 1 \in 1 .. a + b + c + 1
    BY <1>24
  <2>4. a + b + c + 1 \in 1 .. a + b + c + 1
    BY <1>24
  <2>5. /\ mark + (a + 1) = mark + a + 1 /\ mark + (a + 2) = mark + a + 2
        /\ mark + (a + b + 1) = mark + a + b + 1
        /\ mark + (a + b + c + 1) = mark + a + b + c + 1
    BY <1>24
  <2>6. d.showbase => h(1) = 35
    BY <1>6, <1>7, <2>1
  <2>7. d.width # 0 => h(a + 1) = 48 /\ h(a + 2) = 48 + d.width
    BY <1>6, <1>7, <2>2, <2>5
  <2>8. d.long => h(a + b + 1) = 108
    BY <1>6, <1>7, <2>3, <2>5
  <2>9. h(a + b + c + 1) = d.conv
    BY <1>6, <1>7, <2>4, <2>5
  <2> QED BY <2>6, <2>7, <2>8, <2>9
<1> HIDE DEF h
<1>9. (~d.long => h(a + b + 1) = d.conv)
  BY <1>24, <1>8
<1>10. h(a + b + 1) # 35 /\ h(a + b + 1) # 48 /\ ~isdigit(h(a + b + 1))
       /\ (h(a + b + 1) = 108 <=> d.long)
  <2>1. ~isdigit(108)
    BY DEF isdigit, CT_DIG
  <2> QED BY <1>4, <1>8, <1>9, <2>1
<1>11. d.width = 0 => h(a + 1) = h(a + b + 1)
  BY <1>24
<1>12. h(a + 1) # 35 /\ (h(a + 1) = 48 <=> d.width # 0)
  BY <1>8, <1>10, <1>11
<1>13. showbase <=> d.showbase
  <2>1. CASE d.showbase
    BY <1>8, <2>1 DEF h
  <2>2. CASE ~d.showbase
    <3>1. h(1) # 35
      BY <1>24, <1>12, <2>2
    <3> QED BY <2>2, <3>1 DEF h
  <2> QED BY <2>1, <2>2
<1>14. m1 = mark + (a + 1)
  BY <1>24, <1>13
<1> HIDE DEF showbase, m1
<1>15. zero <=> d.width # 0
  <2>1. At(fmt, m1) = h(a + 1)
    BY <1>14 DEF h
  <2> QED BY <1>12, <2>1
<1> HIDE DEF zero
<1>16. ASSUME d.width # 0 PROVE digits = 1 /\ sum[1] = d.width
  <2>1. b = 2 /\ 0 \in 0 .. n /\ 1 \in 0 .. n
    BY <1>24, <1>16
  <2>2. sum[0] = 0
    BY <1>2, <2>1 DEF n, Summed
  <2>3. m1 + 1 = mark + (a + 2) /\ m1 + 1 + 1 = mark + (a + b + 1)
    BY <1>24, <1>14, <2>1
  <2>4. At(fmt, m1 + 1) = 48 + d.width /\ ~isdigit(At(fmt, m1 + 1 + 1))
    BY <1>8, <1>10, <1>16, <2>3 DEF h
  <2>5. sum[1] = d.width
    <3>1. sum[1] = sum[1 - 1] + At(fmt, m1 + 1) - 48
      BY <1>2, <2>1 DEF n, Summed
    <3>2. 1 - 1 = 0
      OBVIOUS
    <3> QED BY <1>5, <2>2, <2>4, <3>1, <3>2
  <2>6. isdigit(At(fmt, m1 + 1))
    <3>2. 48 + d.width \in CT_DIG
      BY <1>25 DEF CT_DIG
    <3> QED BY <2>4, <3>2 DEF isdigit
  <2>7. P(1)
    <3>1. ASSUME NEW j \in 1 .. 1 PROVE isdigit(At(fmt, m1 + j)) /\ sum[j - 1] < 21
      <4>1. j = 1 /\ j - 1 = 0
        OBVIOUS
      <4> QED BY <2>2, <2>6, <4>1
    <3> QED BY <2>4, <3>1
  <2>8. ASSUME NEW k \in 0 .. n, P(k) PROVE k = 1
    <3>1. CASE k = 0
      <4>1. m1 + k + 1 = m1 + 1
        BY <1>24, <1>14, <3>1
      <4> QED BY <2>2, <2>6, <2>8, <3>1, <4>1
    <3>2. CASE k >= 2
      <4>1. 2 \in 1 .. k /\ m1 + 2 = m1 + 1 + 1
        BY <1>24, <1>14, <3>2
      <4>2. isdigit(At(fmt, m1 + 2))
        BY <2>8, <4>1
      <4> QED BY <2>4, <4>1, <4>2
    <3> QED BY <3>1, <3>2
  <2>9. digits = CHOOSE k \in 0 .. n : P(k)
    BY DEF n
  <2> HIDE DEF P, digits
  <2>10. digits = 1
    BY <2>1, <2>7, <2>8, <2>9
  <2> QED BY <2>5, <2>10
<1> HIDE DEF P, digits
<1>17. m2 = mark + (a + b + 1)
  BY <1>24, <1>14, <1>15, <1>16
<1> HIDE DEF m2
<1>18. m3 = mark + (a + b + c + 1)
  <2>1. At(fmt, m2) = 108 <=> d.long
    BY <1>10, <1>17 DEF h
  <2> QED BY <1>24, <1>17, <2>1
<1> HIDE DEF m3
<1>19. At(fmt, m3) = d.conv
  BY <1>8, <1>18 DEF h
<1>20. (IF zero THEN sum[digits] ELSE 0) = d.width
  BY <1>15, <1>16
<1>21. m3 = mark + a + b + c + 1
  BY <1>24, <1>18
<1> DEFINE w == IF zero THEN sum[digits] ELSE 0
           v == At(fmt, m3)
<1> HIDE DEF w, v
<1>22. Directive(fmt, mark) = [showbase |-> showbase, width |-> w, conv |-> v, mark |-> m3]
  BY <1>1 DEF w, v
<1>23. w = d.width /\ v = d.conv
  BY <1>19, <1>20 DEF w, v
<1> QED BY <1>13, <1>21, <1>22, <1>23 DEF a, b, c

-----------------------------------------------------------------------------
(* The text of a number is its sign and its figures, as it is meant, but   *)
(* for binary numbers of 2 and more.                                       *)
LEMMA NumberIs ==
  ASSUME NEW d, Sayable(d), d.conv \in Numbers, d.conv = 98 => d.arg < 2
  PROVE  /\ Number(d.conv, d.arg) = SignOf(d) \o FiguresOf(d)
         /\ SignOf(d) \in Seq(Int) /\ FiguresOf(d) \in Seq(Int)
         /\ d.arg >= 0 => Number(d.conv, d.arg) = FiguresOf(d) /\ SignOf(d) = <<>>
<1> DEFINE x == d.arg
           sign == SignOf(d)
           figures == FiguresOf(d)
<1>1. 2 \in Bases /\ 10 \in Bases /\ 16 \in Bases
  BY DEF Bases
<1>2. <<>> \in Seq(Int) /\ <<45>> \in Seq(Int)
  OBVIOUS
<1>3. x \in Int
  <2>1. x \in Values(d)
    BY DEF Sayable
  <2>2. Word \in Nat /\ LongWord \in Nat
    BY LibcAssumption
  <2> QED BY <2>1, <2>2 DEF Values
<1>4. CASE x < 0
  <2> DEFINE y == -x
  <2>1. d.conv = 100
    <3> SUFFICES ASSUME d.conv # 100 PROVE FALSE
      OBVIOUS
    <3>1. x \in Values(d) /\ Word \in Nat /\ LongWord \in Nat
      BY LibcAssumption DEF Sayable
    <3> QED BY <1>4, <3>1 DEF Values
  <2>2. y \in Nat /\ y % LongWord = y
    <3> DEFINE size == IF d.long THEN LongWord ELSE Word
    <3>1. size \in Nat /\ LongWord \in Nat /\ LongWord >= 256 /\ size <= LongWord
      BY LibcAssumption
    <3>2. x \in -(size \div 2) .. size \div 2 - 1
      BY <2>1 DEF Sayable, Values
    <3> HIDE DEF size, x
    <3>3. y \in Nat /\ y < LongWord
      BY <1>3, <1>4, <3>1, <3>2
    <3> HIDE DEF y
    <3>4. ASSUME NEW P \in Nat, NEW v \in Nat, v < P PROVE v % P = v
      BY <3>4
    <3> QED BY <3>1, <3>3, <3>4
  <2>3. Number(d.conv, x) = <<45>> \o uinttostring(y % LongWord, 10)
    BY <1>4, <2>1 DEF Number, inttostring
  <2>4. sign = <<45>> /\ figures = Numeral(y, 10)
    BY <1>4, <2>1 DEF SignOf, FiguresOf
  <2> HIDE DEF x, y, sign, figures
  <2>5. uinttostring(y, 10) = Numeral(y, 10) /\ uinttostring(y, 10) \in Seq(Int)
    BY <1>1, <2>2, NumeralIs, NumberTyped
  <2>6. Number(d.conv, x) = sign \o figures /\ sign \in Seq(Int) /\ figures \in Seq(Int)
    BY <1>2, <2>2, <2>3, <2>4, <2>5
  <2>7. ~ (x >= 0)
    BY <1>3, <1>4
  <2> QED BY <2>6, <2>7 DEF x, sign, figures
<1>5. CASE ~ (x < 0)
  <2> DEFINE base == CASE d.conv = 98 -> 2 [] d.conv \in {112, 120} -> 16 [] OTHER -> 10
             other == IF d.conv \in {112, 120} THEN 16 ELSE 10
  <2>1. x \in Nat
    BY <1>3, <1>5
  <2>2. base \in Bases /\ other \in Bases
    BY <1>1
  <2>3. sign = <<>> /\ figures = Numeral(x, base)
    BY <1>5 DEF SignOf, FiguresOf
  <2>4. Number(d.conv, x) = uinttostring(x, other)
    BY <1>5 DEF Number, inttostring, Hexadecimal
  <2>5. uinttostring(x, other) = uinttostring(x, base)
    <3>1. CASE d.conv = 98
      <4>1. x \in 0 .. 9 /\ x \div 2 = 0 /\ x \div 10 = 0 /\ x % 2 = x /\ x % 10 = x
        BY <2>1, <3>1
      <4>2. base = 2 /\ other = 10
        BY <3>1
      <4> HIDE DEF x, base, other
      <4>3. uinttostring(x, 2) = <<Digit(x)>> /\ uinttostring(x, 10) = <<Digit(x)>>
        BY <1>1, <2>1, <4>1, SingleDigit
      <4> QED BY <4>2, <4>3
    <3>2. CASE d.conv # 98
      <4>1. base = other
        BY <3>2
      <4> QED BY <4>1
    <3> QED BY <3>1, <3>2
  <2> HIDE DEF x, base, other, sign, figures
  <2>6. uinttostring(x, base) = Numeral(x, base) /\ uinttostring(x, base) \in Seq(Int)
    BY <2>1, <2>2, NumeralIs, NumberTyped
  <2>7. Number(d.conv, x) = figures /\ figures \in Seq(Int)
    BY <2>3, <2>4, <2>5, <2>6
  <2>8. sign \o figures = figures
    BY <2>3, <2>7, ConcatEmptySeq
  <2> QED BY <1>2, <2>3, <2>7, <2>8 DEF x, sign, figures
<1> QED BY <1>4, <1>5

(* The zeros in front of a number that fits its width, if it has a sign.   *)
LEMMA ZerosAre ==
  ASSUME NEW d, Sayable(d), d.conv \in Numbers, Fits(d),
         NEW r, r.conv = d.conv, r.width = d.width
  PROVE  LET digits == Number(d.conv, d.arg)
             zeros == [i \in 1 .. d.width - SizeOf(d) |-> 48]
         IN /\ zeros \in Seq(Int) /\ digits \in Seq(Int)
            /\ d.width # 0 => Zeros(r, d.arg) = zeros
            /\ SignOf(d) \o zeros \o FiguresOf(d) = zeros \o digits
            /\ d.width = 0 => zeros \o digits = digits
<1> DEFINE digits == Number(d.conv, d.arg)
           sign == SignOf(d)
           figures == FiguresOf(d)
           l == SizeOf(d)
           w == d.width
           zeros == [i \in 1 .. w - l |-> 48]
<1>1. /\ digits = sign \o figures /\ sign \in Seq(Int) /\ figures \in Seq(Int)
      /\ d.arg >= 0 => digits = figures /\ sign = <<>>
  BY NumberIs DEF Fits
<1>2. l = Len(sign) + Len(figures)
  BY DEF SizeOf
<1>3. digits \in Seq(Int) /\ Len(digits) = l /\ l \in Nat
  <2> HIDE DEF digits, sign, figures, l
  <2> QED BY <1>1, <1>2, ConcatProperties
<1>4. w \in Nat /\ w < 10 /\ (w = 0 \/ l = w \/ (l < w /\ d.arg >= 0))
  <2>1. w \in Nat
    BY DEF Sayable
  <2>2. w < 10 /\ (w = 0 \/ l = w \/ (l < w /\ d.arg >= 0))
    BY DEF Fits
  <2> QED BY <2>1, <2>2
<1>5. Zeros(r, d.arg) = [i \in 1 .. (w - Len(digits)) % Word |-> 48]
  BY DEF Zeros
<1> HIDE DEF digits, sign, figures, l, w
<1>6. w # 0 => (w - l) % Word = w - l
  <2> SUFFICES ASSUME w # 0 PROVE (w - l) % Word = w - l
    OBVIOUS
  <2>1. ASSUME NEW P \in Nat, NEW x \in Nat, x < P PROVE x % P = x
    BY <2>1
  <2>2. w - l \in Nat /\ w - l < 10
    BY <1>3, <1>4
  <2>3. Word \in Nat /\ w - l < Word
    BY <2>2, LibcAssumption
  <2> QED BY <2>1, <2>2, <2>3
<1>7. zeros \in Seq(Int) /\ (w = 0 \/ l = w => zeros = <<>>)
  <2>1. CASE w = 0 \/ l = w
    <3>1. 1 .. w - l = {}
      BY <1>3, <1>4, <2>1
    <3>2. zeros = <<>>
      BY <3>1
    <3> HIDE DEF zeros
    <3> QED BY <3>2, EmptySeq
  <2>2. CASE ~ (w = 0 \/ l = w)
    <3> DEFINE n == w - l
    <3>1. n \in Nat
      BY <1>3, <1>4, <2>2
    <3> HIDE DEF n
    <3>2. [i \in 1 .. n |-> 48] \in Seq(Int)
      BY <3>1
    <3> QED BY <2>2, <3>2 DEF n
  <2> QED BY <2>1, <2>2
<1> HIDE DEF zeros
<1>8. zeros = <<>> => zeros \o digits = digits
  BY <1>3, ConcatEmptySeq
<1>9. (sign \o zeros) \o figures = zeros \o digits
  <2>1. CASE zeros = <<>>
    <3>1. sign \o zeros = sign
      BY <1>1, <2>1, ConcatEmptySeq
    <3> QED BY <1>1, <1>8, <2>1, <3>1
  <2>2. CASE zeros # <<>>
    <3>1. digits = figures /\ sign = <<>>
      BY <1>1, <1>4, <1>7, <2>2
    <3>2. sign \o zeros = zeros
      BY <1>7, <3>1, ConcatEmptySeq
    <3> QED BY <3>1, <3>2
  <2> QED BY <2>1, <2>2
<1>10. (w # 0 => Zeros(r, d.arg) = zeros) /\ (w = 0 => zeros \o digits = digits)
  BY <1>3, <1>5, <1>6, <1>7, <1>8 DEF zeros
<1> QED BY <1>3, <1>7, <1>9, <1>10 DEF digits, sign, figures, l, w, zeros

(* What a turn of the loop writes of a directive is what it means.         *)
LEMMA MeaningIs ==
  ASSUME NEW d, Sayable(d), Fits(d), d.conv \in Conversions,
         NEW r, r.showbase <=> d.showbase, r.width = d.width, r.conv = d.conv,
         NEW arg, d.conv # 37 => arg = d.arg
  PROVE  /\ d.literal \in Seq(Int) /\ Base(r) \in Seq(Int) /\ Text(r, arg) \in Seq(Int)
         /\ MeaningOf(d) = (d.literal \o Base(r)) \o Text(r, arg)
<1> DEFINE X == IF ~d.showbase THEN <<>>
                ELSE IF d.conv \in {112, 120} THEN <<48, 120>>
                ELSE IF d.conv = 98 THEN <<49, 39, 98>> ELSE <<>>
           Y == CASE d.conv = 37 -> <<37>>
                  [] d.conv = 99 -> <<d.arg>>
                  [] d.conv = 115 -> IF d.arg = NullPointer THEN <<110, 117, 108, 108>>
                                     ELSE d.arg
                  [] OTHER -> SignOf(d) \o [i \in 1 .. d.width - SizeOf(d) |-> 48]
                                \o FiguresOf(d)
<1>1. MeaningOf(d) = (d.literal \o X) \o Y
  BY DEF MeaningOf
<1>2. d.literal \in Seq(Int)
  <2>1. d.literal \in Seq(Nat \ {37})
    BY DEF Sayable
  <2> QED BY <2>1
<1>3. X = Base(r)
  BY DEF Base, Hexadecimal
<1>4. X \in Seq(Int)
  <2>1. /\ <<>> \in Seq(Int) /\ <<48, 120>> \in Seq(Int) /\ <<49, 39, 98>> \in Seq(Int)
    OBVIOUS
  <2>2. X \in {<<>>, <<48, 120>>, <<49, 39, 98>>}
    OBVIOUS
  <2> HIDE DEF X
  <2> QED BY <2>1, <2>2
<1>5. Y = Text(r, arg) /\ Y \in Seq(Int)
  <2>1. CASE d.conv = 37
    <3>1. Y = <<37>> /\ Text(r, arg) = <<37>>
      BY <2>1 DEF Text
    <3> HIDE DEF Y
    <3>2. <<37>> \in Seq(Int)
      OBVIOUS
    <3> QED BY <3>1, <3>2
  <2>2. CASE d.conv = 99
    <3>1. Y = <<d.arg>> /\ Text(r, arg) = <<d.arg>>
      BY <2>2 DEF Text
    <3> DEFINE e == d.arg
    <3>2. e \in Int
      BY <2>2 DEF Sayable
    <3> HIDE DEF Y, e
    <3>3. <<e>> \in Seq(Int)
      BY <3>2
    <3> QED BY <3>1, <3>3 DEF e
  <2>3. CASE d.conv = 115
    <3>1. /\ Y = IF d.arg = NullPointer THEN <<110, 117, 108, 108>> ELSE d.arg
          /\ Text(r, arg) = IF d.arg = NullPointer THEN <<110, 117, 108, 108>> ELSE d.arg
      BY <2>3 DEF Text
    <3>2. <<110, 117, 108, 108>> \in Seq(Int) /\ d.arg \in Seq(Int)
      BY <2>3 DEF Sayable
    <3> HIDE DEF Y
    <3> QED BY <3>1, <3>2
  <2>4. CASE d.conv \in Numbers
    <3> DEFINE digits == Number(d.conv, d.arg)
               zeros == [i \in 1 .. d.width - SizeOf(d) |-> 48]
    <3>1. d.conv # 37 /\ d.conv # 99 /\ d.conv # 115 /\ arg = d.arg
      BY <2>4 DEF Numbers
    <3>2. Y = SignOf(d) \o zeros \o FiguresOf(d)
      BY <3>1
    <3>3. Text(r, arg) = IF d.width = 0 THEN digits ELSE Zeros(r, d.arg) \o digits
      BY <3>1 DEF Text
    <3> HIDE DEF Y
    <3>4. /\ zeros \in Seq(Int) /\ digits \in Seq(Int)
          /\ d.width # 0 => Zeros(r, d.arg) = zeros
          /\ d.width = 0 => zeros \o digits = digits
          /\ SignOf(d) \o zeros \o FiguresOf(d) = zeros \o digits
      BY <2>4, ZerosAre
    <3> HIDE DEF zeros, digits
    <3>5. zeros \o digits \in Seq(Int)
      BY <3>4, ConcatProperties
    <3>6. Text(r, arg) = zeros \o digits
      BY <3>3, <3>4
    <3> QED BY <3>2, <3>4, <3>5, <3>6
  <2> QED BY <2>1, <2>2, <2>3, <2>4 DEF Conversions, Numbers
<1> HIDE DEF X, Y
<1> QED BY <1>1, <1>2, <1>3, <1>4, <1>5

-----------------------------------------------------------------------------
(* The parts a format, its arguments and its meaning are made of, and the  *)
(* first of them together.                                                 *)
Pieces(said) == [i \in DOMAIN said |-> Written_as(said[i])]
Takings(said) == [i \in DOMAIN said |-> Taking(said[i])]
Meanings(said) == [i \in DOMAIN said |-> MeaningOf(said[i])]
Upto(q) == CHOOSE acc : Gathers(acc, q)

(* What is known of the directives of a call.                              *)
Narrow(said) == \A i \in DOMAIN said : said[i].width < 10
Known(said) == \A i \in DOMAIN said : said[i].conv \in Conversions
AllFit(said) == \A i \in DOMAIN said : Fits(said[i])

(* What is gathered from the directives exists.                            *)
LEMMA UptoGathers ==
  ASSUME NEW E, NEW q \in Seq(Seq(E))
  PROVE  Gathers(Upto(q), q)
BY Flattened DEF Upto

(* What the calls of printf are.                                           *)
LEMMA PrintfIs ==
  ASSUME NEW c \in Calls, c.fn = "printf"
  PROVE  /\ Len(c.said) \in Nat /\ DOMAIN c.said = 1 .. Len(c.said)
         /\ c.tail \in Seq(Int) /\ \A k \in 1 .. Len(c.tail) : c.tail[k] # 37
         /\ c.fmt = FlattenSeq(Pieces(c.said)) \o c.tail
         /\ c.args = FlattenSeq(Takings(c.said))
         /\ \A i \in 1 .. Len(c.said) : Sayable(c.said[i])
<1>1. /\ c = Printf(c.said, c.tail)
      /\ c.said = [i \in 1 .. Len(c.said) |-> c.said[i]] /\ Len(c.said) \in Nat
      /\ c.tail \in Seq(Nat \ {37})
      /\ \A i \in DOMAIN c.said : Sayable(c.said[i])
  BY PrintfAssumption
<1>2. c.fmt = FormatOf(c.said, c.tail) /\ c.args = ArgsOf(c.said)
  <2> DEFINE f == FormatOf(c.said, c.tail)
             a == ArgsOf(c.said)
             r == [fn |-> "printf", fmt |-> f, args |-> a, said |-> c.said, tail |-> c.tail]
  <2>1. c = r
    BY <1>1 DEF Printf
  <2>2. r.fmt = f /\ r.args = a
    <3> HIDE DEF f, a
    <3> QED OBVIOUS
  <2> HIDE DEF r
  <2> QED BY <2>1, <2>2
<1>3. c.fmt = FlattenSeq(Pieces(c.said)) \o c.tail /\ c.args = FlattenSeq(Takings(c.said))
  BY <1>2 DEF FormatOf, ArgsOf, Pieces, Takings
<1>4. DOMAIN c.said = 1 .. Len(c.said)
  <2> DEFINE s == c.said
             n == Len(s)
  <2>1. s = [i \in 1 .. n |-> s[i]]
    BY <1>1
  <2> HIDE DEF s, n
  <2>2. DOMAIN s = 1 .. n
    BY <2>1
  <2> QED BY <2>2 DEF s, n
<1>5. c.tail \in Seq(Int) /\ \A k \in 1 .. Len(c.tail) : c.tail[k] # 37
  <2> DEFINE t == c.tail
  <2>1. t \in Seq(Nat \ {37})
    BY <1>1
  <2> HIDE DEF t
  <2>2. t \in Seq(Int) /\ \A k \in 1 .. Len(t) : t[k] # 37
    BY <2>1
  <2> QED BY <2>2 DEF t
<1> QED BY <1>1, <1>3, <1>4, <1>5

(* The directives, one by one, and where they stand in the format.         *)
LEMMA FormatIs ==
  ASSUME NEW c \in Calls, c.fn = "printf", Narrow(c.said)
  PROVE  LET n == Len(c.said)
             at == Upto(Pieces(c.said))
         IN /\ at[0] = <<>> /\ c.fmt \in Seq(Int)
            /\ Len(c.fmt) = Len(at[n]) + Len(c.tail)
            /\ \A k \in 1 .. Len(c.tail) : c.fmt[Len(at[n]) + k] = c.tail[k]
            /\ \A i \in 0 .. n : Len(at[i]) \in Nat
            /\ \A i \in 1 .. n :
                 LET w == Written_as(c.said[i])
                 IN /\ Len(at[i]) = Len(at[i - 1]) + Len(w) /\ Len(at[i]) <= Len(c.fmt)
                    /\ \A k \in 1 .. Len(w) : c.fmt[Len(at[i - 1]) + k] = w[k]
<1> DEFINE n == Len(c.said)
           q == Pieces(c.said)
           at == Upto(q)
<1>1. /\ n \in Nat /\ DOMAIN c.said = 1 .. n
      /\ c.tail \in Seq(Int) /\ c.fmt = FlattenSeq(q) \o c.tail
      /\ \A i \in 1 .. n : Sayable(c.said[i])
  BY PrintfIs
<1> HIDE DEF n
<1>2. \A i \in 1 .. n : q[i] = Written_as(c.said[i]) /\ q[i] \in Seq(Int)
  <2> TAKE i \in 1 .. n
  <2>1. Sayable(c.said[i]) /\ c.said[i].width < 10
    BY <1>1 DEF Narrow
  <2>2. Written_as(c.said[i]) \in Seq(Int)
    BY <2>1, WrittenAt
  <2> QED BY <1>1, <2>2 DEF Pieces
<1>3. q \in Seq(Seq(Int)) /\ Len(q) = n
  <2>1. q = [i \in 1 .. n |-> q[i]]
    BY <1>1 DEF Pieces
  <2> HIDE DEF q
  <2> QED BY <1>1, <1>2, <2>1
<1> HIDE DEF q
<1>4. Gathers(at, q)
  BY <1>3, UptoGathers
<1> HIDE DEF at
<1> DEFINE t == c.tail
           s == c.fmt
<1>5. t \in Seq(Int) /\ s = FlattenSeq(q) \o t
  BY <1>1
<1> HIDE DEF t, s
<1>10. Placed(at, q, t, FlattenSeq(q) \o t, Int)
  BY <1>3, <1>4, <1>5, GatheredAt
<1>6. /\ s \in Seq(Int) /\ Len(s) = Len(at[Len(q)]) + Len(t)
      /\ \A k \in 1 .. Len(t) : s[Len(at[Len(q)]) + k] = t[k]
      /\ \A i \in 1 .. Len(q) :
           /\ Len(at[i]) = Len(at[i - 1]) + Len(q[i]) /\ Len(at[i]) <= Len(s)
           /\ \A k \in 1 .. Len(q[i]) : s[Len(at[i - 1]) + k] = q[i][k]
  BY <1>5, <1>10 DEF Placed
<1>7. \A i \in 0 .. n : Len(at[i]) \in Nat
  <2>1. \A i \in 0 .. Len(q) : at[i] \in Seq(Int)
    BY <1>3, <1>4, GatheredAre
  <2> QED BY <1>3, <2>1, LenProperties
<1>8. at[0] = <<>>
  BY <1>4 DEF Gathers
<1>9. \A i \in 1 .. n :
        LET w == Written_as(c.said[i])
        IN /\ Len(at[i]) = Len(at[i - 1]) + Len(w) /\ Len(at[i]) <= Len(s)
           /\ \A k \in 1 .. Len(w) : s[Len(at[i - 1]) + k] = w[k]
  <2> TAKE i \in 1 .. n
  <2> DEFINE w == Written_as(c.said[i])
  <2>1. q[i] = w /\ i \in 1 .. Len(q)
    BY <1>2, <1>3
  <2>2. /\ Len(at[i]) = Len(at[i - 1]) + Len(q[i]) /\ Len(at[i]) <= Len(s)
        /\ \A k \in 1 .. Len(q[i]) : s[Len(at[i - 1]) + k] = q[i][k]
    BY <1>6, <2>1
  <2> HIDE DEF w
  <2>3. /\ Len(at[i]) = Len(at[i - 1]) + Len(w) /\ Len(at[i]) <= Len(s)
        /\ \A k \in 1 .. Len(w) : s[Len(at[i - 1]) + k] = w[k]
    BY <2>1, <2>2
  <2> QED BY <2>3 DEF w
<1> QED BY <1>3, <1>6, <1>7, <1>8, <1>9 DEF n, at, q, s, t

-----------------------------------------------------------------------------
(* A part of a sequence is what it is element by element.                  *)
LEMMA PartIs ==
  ASSUME NEW s \in Seq(Int), NEW t \in Seq(Int), NEW o \in Nat,
         o + Len(t) <= Len(s), \A k \in 1 .. Len(t) : s[o + k] = t[k]
  PROVE  SubSeq(s, o + 1, o + Len(t)) = t
<1> DEFINE n == Len(t)
           u == SubSeq(s, o + 1, o + n)
<1>1. n \in Nat /\ Len(s) \in Nat /\ t = [k \in 1 .. n |-> t[k]] /\ o + n <= Len(s)
      /\ \A k \in 1 .. n : s[o + k] = t[k]
  OBVIOUS
<1> HIDE DEF n
<1>2. /\ Len(u) = IF o + 1 <= o + n THEN (o + n) - (o + 1) + 1 ELSE 0
      /\ \A k \in 1 .. (o + n) - (o + 1) + 1 : u[k] = s[(o + 1) + k - 1]
      /\ u \in Seq(Int)
  <2> DEFINE p == o + 1
             q == o + n
  <2>1. p \in 1 .. Len(s) + 1 /\ q \in p - 1 .. Len(s)
    BY <1>1
  <2> HIDE DEF p, q
  <2>2. /\ Len(SubSeq(s, p, q)) = IF p <= q THEN q - p + 1 ELSE 0
        /\ \A k \in 1 .. q - p + 1 : SubSeq(s, p, q)[k] = s[p + k - 1]
        /\ SubSeq(s, p, q) \in Seq(Int)
    BY <2>1, SubSeqProperties
  <2> QED BY <2>2 DEF p, q
<1>3. Len(u) = n /\ (o + n) - (o + 1) + 1 = n
  BY <1>1, <1>2
<1> HIDE DEF u
<1>4. \A k \in 1 .. n : u[k] = t[k]
  <2> TAKE k \in 1 .. n
  <2>1. (o + 1) + k - 1 = o + k
    BY <1>1
  <2> QED BY <1>1, <1>2, <1>3, <2>1
<1>5. u = [k \in 1 .. n |-> u[k]]
  BY <1>2, <1>3
<1>6. u = t
  BY <1>1, <1>4, <1>5
<1> QED BY <1>6 DEF u, n

(* Where the first % behind the start is.                                  *)
LEMMA MarkIs ==
  ASSUME start \in Nat, Len(call.fmt) \in Nat, NEW m \in start .. Len(call.fmt),
         call.fmt[m] = 37, \A j \in start .. m - 1 : call.fmt[j] # 37
  PROVE  Mark = m
<1> DEFINE Is(i) == call.fmt[i] = 37 /\ \A j \in start .. i - 1 : call.fmt[j] # 37
<1>1. Mark = CHOOSE i \in start .. Len(call.fmt) : Is(i)
  BY DEF Mark
<1>2. Is(m)
  OBVIOUS
<1>3. ASSUME NEW i \in start .. Len(call.fmt), Is(i) PROVE i = m
  <2>1. CASE i < m
    <3>1. i \in start .. m - 1
      BY <2>1
    <3> QED BY <1>3, <3>1
  <2>2. CASE m < i
    <3>1. m \in start .. i - 1
      BY <2>2
    <3> QED BY <1>3, <3>1
  <2> QED BY <2>1, <2>2
<1> HIDE DEF Is
<1> QED BY <1>1, <1>2, <1>3

(* At the start of a directive the loop finds it, and what is in front.    *)
LEMMA ReadsOn ==
  ASSUME call \in Calls, call.fn = "printf", Narrow(call.said),
         NEW i \in 1 .. Len(call.said),
         start = Len(Upto(Pieces(call.said))[i - 1]) + 1
  PROVE  LET d == call.said[i]
             r == Directive(call.fmt, Mark)
         IN /\ Mark # 0 /\ SubSeq(call.fmt, start, Mark - 1) = d.literal
            /\ r.showbase <=> d.showbase
            /\ r.width = d.width /\ r.conv = d.conv
            /\ r.mark = Len(Upto(Pieces(call.said))[i])
<1> DEFINE n == Len(call.said)
           at == Upto(Pieces(call.said))
           d == call.said[i]
           w == Written_as(d)
           s == call.fmt
           o == Len(at[i - 1])
           l == Opening(d)
           a == Flag(d)
           b == Padding(d)
           c == Size(d)
           M == o + l + 1
<1>1. n \in Nat /\ i \in DOMAIN call.said /\ Sayable(d)
  BY PrintfIs
<1>2. d.width < 10
  BY <1>1 DEF Narrow
<1>3. /\ w \in Seq(Int) /\ Len(w) = l + 1 + a + b + c + 1
      /\ l \in Nat /\ a \in {0, 1} /\ b \in {0, 2} /\ c \in {0, 1}
      /\ \A k \in 1 .. l : w[k] = d.literal[k]
      /\ w[l + 1] = 37
      /\ d.showbase => a = 1 /\ w[l + 1 + a] = 35
      /\ d.width # 0 => b = 2 /\ w[l + 1 + a + 1] = 48 /\ w[l + 1 + a + 2] = 48 + d.width
      /\ d.long => c = 1 /\ w[l + 1 + a + b + 1] = 108
      /\ ~d.showbase => a = 0
      /\ d.width = 0 => b = 0
      /\ ~d.long => c = 0
      /\ w[l + 1 + a + b + c + 1] = d.conv
  BY <1>1, <1>2, WrittenAt
<1>4. /\ s \in Seq(Int) /\ o \in Nat
      /\ Len(at[i]) = o + Len(w) /\ Len(at[i]) <= Len(s)
      /\ \A k \in 1 .. Len(w) : s[o + k] = w[k]
  <2>1. i - 1 \in 0 .. n
    BY <1>1
  <2> QED BY <2>1, FormatIs
<1>5. Len(s) \in Nat
  BY <1>4
<1> DEFINE N == Len(s)
           W == l + 1 + a + b + c + 1
<1>6. /\ N \in Nat /\ Len(at[i]) = o + W /\ o + W <= N
      /\ \A k \in 1 .. W : s[o + k] = w[k]
  BY <1>3, <1>4, <1>5
<1>7. d.literal \in Seq(Nat \ {37}) /\ Len(d.literal) = l
  BY <1>1 DEF Sayable, Opening
<1>18. start = o + 1
  OBVIOUS
<1> HIDE DEF s, o, l, a, b, c, w, N, at
<1>8. /\ l \in Nat /\ a \in Nat /\ b \in Nat /\ c \in Nat /\ o \in Nat /\ N \in Nat
      /\ o + W <= N
  <2>1. a \in Nat /\ b \in Nat /\ c \in Nat
    BY <1>3
  <2>2. l \in Nat /\ o \in Nat /\ N \in Nat
    BY <1>3, <1>4, <1>6
  <2>3. o + W <= N
    BY <1>6
  <2> QED BY <2>1, <2>2, <2>3
<1>9. \A k \in 1 .. l : d.literal[k] # 37 /\ s[o + k] = d.literal[k]
  <2> TAKE k \in 1 .. l
  <2>1. k \in 1 .. W
    BY <1>8
  <2> DEFINE t == d.literal
  <2>2. t \in Seq(Nat \ {37}) /\ k \in 1 .. Len(t)
    BY <1>7
  <2> HIDE DEF t
  <2>3. t[k] # 37
    BY <2>2
  <2> QED BY <1>3, <1>6, <2>1, <2>3 DEF t
<1>10. Mark = M
  <2>1. start \in Nat /\ start = o + 1 /\ M \in start .. N
    BY <1>8, <1>18
  <2>2. s[M] = 37
    <3>1. l + 1 \in 1 .. W /\ M = o + (l + 1)
      BY <1>8
    <3> HIDE DEF M, W
    <3> QED BY <1>3, <1>6, <3>1
  <2>3. ASSUME NEW j \in start .. M - 1 PROVE s[j] # 37
    <3>1. j - o \in 1 .. l /\ j = o + (j - o)
      BY <1>8, <2>1
    <3> QED BY <1>9, <3>1
  <2> HIDE DEF M
  <2> QED BY <1>8, <2>1, <2>2, <2>3, MarkIs DEF s, N
<1>11. SubSeq(s, start, Mark - 1) = d.literal
  <2> DEFINE t == d.literal
  <2>1. s \in Seq(Int) /\ t \in Seq(Int) /\ Len(t) = l
    BY <1>4, <1>7
  <2>2. o + l <= N /\ start = o + 1 /\ Mark - 1 = o + l
    BY <1>8, <1>10, <1>18
  <2> HIDE DEF t
  <2>3. \A k \in 1 .. Len(t) : s[o + k] = t[k]
    BY <1>9, <2>1 DEF t
  <2>4. o + Len(t) <= Len(s) /\ o \in Nat
    BY <1>8, <2>1, <2>2 DEF N
  <2>5. SubSeq(s, o + 1, o + Len(t)) = t
    BY <2>1, <2>3, <2>4, PartIs
  <2> QED BY <2>1, <2>2, <2>5 DEF t
<1>12. \A k \in 1 .. a + b + c + 1 : s[M + k] = w[l + 1 + k]
  <2> TAKE k \in 1 .. a + b + c + 1
  <2>1. M + k = o + (l + 1 + k) /\ l + 1 + k \in 1 .. W
    BY <1>8
  <2> HIDE DEF M, W
  <2> QED BY <1>6, <2>1
<1>13. StandsAt(d, s, M)
  <2>1. M + a + b + c + 1 <= N
    BY <1>8
  <2>2. d.showbase => s[M + 1] = 35
    <3> SUFFICES ASSUME d.showbase PROVE s[M + 1] = 35
      OBVIOUS
    <3>1. 1 \in 1 .. a + b + c + 1 /\ l + 1 + 1 = l + 1 + a
      BY <1>3, <1>8
    <3> QED BY SMTT(30), <1>3, <1>12, <3>1
  <2>3. d.width # 0 => s[M + a + 1] = 48 /\ s[M + a + 2] = 48 + d.width
    <3> SUFFICES ASSUME d.width # 0 PROVE s[M + a + 1] = 48 /\ s[M + a + 2] = 48 + d.width
      OBVIOUS
    <3>1. /\ a + 1 \in 1 .. a + b + c + 1 /\ a + 2 \in 1 .. a + b + c + 1
          /\ M + (a + 1) = M + a + 1 /\ M + (a + 2) = M + a + 2
          /\ l + 1 + (a + 1) = l + 1 + a + 1 /\ l + 1 + (a + 2) = l + 1 + a + 2
      BY <1>3, <1>8
    <3>2. /\ s[M + (a + 1)] = w[l + 1 + (a + 1)]
          /\ s[M + (a + 2)] = w[l + 1 + (a + 2)]
      BY <1>12, <3>1
    <3> HIDE DEF M
    <3>3. w[l + 1 + a + 1] = 48 /\ w[l + 1 + a + 2] = 48 + d.width
      BY <1>3
    <3> QED BY <3>1, <3>2, <3>3
  <2>4. d.long => s[M + a + b + 1] = 108
    <3> SUFFICES ASSUME d.long PROVE s[M + a + b + 1] = 108
      OBVIOUS
    <3>1. /\ a + b + 1 \in 1 .. a + b + c + 1 /\ M + (a + b + 1) = M + a + b + 1
          /\ l + 1 + (a + b + 1) = l + 1 + a + b + 1
      BY <1>3, <1>8
    <3>2. s[M + (a + b + 1)] = w[l + 1 + (a + b + 1)]
      BY <1>12, <3>1
    <3> HIDE DEF M
    <3> QED BY <1>3, <3>1, <3>2
  <2>5. s[M + a + b + c + 1] = d.conv
    <3>1. /\ a + b + c + 1 \in 1 .. a + b + c + 1
          /\ M + (a + b + c + 1) = M + a + b + c + 1
          /\ l + 1 + (a + b + c + 1) = l + 1 + a + b + c + 1
      BY <1>3, <1>8
    <3>2. s[M + (a + b + c + 1)] = w[l + 1 + (a + b + c + 1)]
      BY <1>12, <3>1
    <3> HIDE DEF M
    <3> QED BY <1>3, <3>1, <3>2
  <2> HIDE DEF M
  <2> QED BY <1>3, <2>1, <2>2, <2>3, <2>4, <2>5 DEF StandsAt, a, b, c, N
<1> DEFINE r == Directive(s, M)
<1>14. /\ r.showbase <=> d.showbase
       /\ r.width = d.width /\ r.conv = d.conv
       /\ r.mark = M + a + b + c + 1
  <2>1. M \in Nat /\ s \in Seq(Int)
    BY <1>4, <1>8
  <2> HIDE DEF M
  <2> QED BY <1>1, <1>2, <1>13, <2>1, DirectiveIs DEF a, b, c
<1>15. M + a + b + c + 1 = Len(at[i]) /\ M # 0
  BY <1>6, <1>8
<1> HIDE DEF M, r
<1>16. r.mark = Len(at[i]) /\ Mark # 0
  BY <1>10, <1>14, <1>15
<1>17. r = Directive(s, Mark)
  BY <1>10 DEF r
<1> HIDE DEF d
<1> QED BY <1>11, <1>14, <1>16, <1>17 DEF s, d, at

(* Behind the last directive there is no % any more.                       *)
LEMMA EndsAt ==
  ASSUME call \in Calls, call.fn = "printf", Narrow(call.said),
         start = Len(Upto(Pieces(call.said))[Len(call.said)]) + 1
  PROVE  Mark = 0 /\ SubSeq(call.fmt, start, Len(call.fmt)) = call.tail
<1> DEFINE n == Len(call.said)
           s == call.fmt
           t == call.tail
           o == Len(Upto(Pieces(call.said))[n])
<1>1. n \in Nat /\ t \in Seq(Int) /\ \A k \in 1 .. Len(t) : t[k] # 37
  BY PrintfIs
<1>2. /\ s \in Seq(Int) /\ Len(s) = o + Len(t)
      /\ \A k \in 1 .. Len(t) : s[o + k] = t[k]
      /\ \A k \in 0 .. n : Len(Upto(Pieces(call.said))[k]) \in Nat
  BY FormatIs
<1>3. o \in Nat
  <2>1. n \in 0 .. n
    BY <1>1
  <2> QED BY <1>2, <2>1
<1>4. start = o + 1
  OBVIOUS
<1> HIDE DEF s, t, o
<1>5. Len(t) \in Nat /\ Len(s) \in Nat
  BY <1>1, <1>2
<1>6. ASSUME NEW j \in start .. Len(s) PROVE s[j] # 37
  <2>1. j - o \in 1 .. Len(t) /\ o + (j - o) = j
    BY <1>2, <1>3, <1>4, <1>5
  <2>2. s[o + (j - o)] = t[j - o] /\ t[j - o] # 37
    BY <1>1, <1>2, <2>1
  <2> QED BY <2>1, <2>2
<1>7. Mark = 0
  BY <1>6 DEF Mark, s
<1>8. o + Len(t) <= Len(s)
  BY <1>2, <1>3, <1>5
<1>9. SubSeq(s, o + 1, o + Len(t)) = t
  BY <1>1, <1>2, <1>3, <1>8, PartIs
<1> QED BY <1>2, <1>4, <1>7, <1>9 DEF s, t

-----------------------------------------------------------------------------
(* The arguments, one by one, and where they stand in the va_list.         *)
LEMMA ArgumentsAre ==
  ASSUME NEW c \in Calls, c.fn = "printf"
  PROVE  LET n == Len(c.said)
             at == Upto(Takings(c.said))
         IN /\ at[0] = <<>>
            /\ \A i \in 1 .. n :
                 /\ c.said[i].conv = 37 => Len(at[i]) = Len(at[i - 1])
                 /\ c.said[i].conv # 37 =>
                      /\ Len(at[i]) = Len(at[i - 1]) + 1
                      /\ c.args[Len(at[i - 1]) + 1] = c.said[i].arg
<1> DEFINE n == Len(c.said)
           q == Takings(c.said)
           at == Upto(q)
           E == {c.said[i].arg : i \in 1 .. n}
<1>1. n \in Nat /\ DOMAIN c.said = 1 .. n /\ c.args = FlattenSeq(q)
  BY PrintfIs
<1> HIDE DEF n
<1>2. \A i \in 1 .. n : c.said[i].arg \in E
  OBVIOUS
<1> HIDE DEF E
<1>3. ASSUME NEW i \in 1 .. n
      PROVE  /\ q[i] \in Seq(E)
             /\ c.said[i].conv = 37 => Len(q[i]) = 0
             /\ c.said[i].conv # 37 => Len(q[i]) = 1 /\ q[i][1] = c.said[i].arg
  <2>1. q[i] = Taking(c.said[i])
    BY <1>1 DEF Takings
  <2> DEFINE e == c.said[i].arg
  <2>2. e \in E
    BY <1>2
  <2>3. q[i] = IF c.said[i].conv = 37 THEN <<>> ELSE <<e>>
    BY <2>1 DEF Taking
  <2> HIDE DEF e, q
  <2>4. /\ <<e>> \in Seq(E) /\ Len(<<e>>) = 1 /\ <<e>>[1] = e
        /\ <<>> \in Seq(E) /\ Len(<<>>) = 0
    BY <2>2
  <2> QED BY <2>3, <2>4 DEF e
<1>4. q \in Seq(Seq(E)) /\ Len(q) = n
  <2>1. q = [i \in 1 .. n |-> q[i]]
    BY <1>1 DEF Takings
  <2> HIDE DEF q
  <2> QED BY <1>1, <1>3, <2>1
<1> HIDE DEF q
<1>5. Gathers(at, q)
  BY <1>4, UptoGathers
<1> HIDE DEF at
<1> DEFINE t == <<>>
           s == FlattenSeq(q)
<1>6. t \in Seq(E)
  BY EmptySeq
<1>7. Placed(at, q, t, FlattenSeq(q) \o t, E)
  <2> HIDE DEF t
  <2> QED BY <1>4, <1>5, <1>6, GatheredAt
<1>8. \A i \in 0 .. n : at[i] \in Seq(E)
  <2>1. \A i \in 0 .. Len(q) : at[i] \in Seq(E)
    BY <1>4, <1>5, GatheredAre
  <2> QED BY <1>4, <2>1
<1>9. at[0] = <<>> /\ at[n] = s
  BY <1>4, <1>5 DEF Gathers
<1>10. s \in Seq(E)
  <2>1. n \in 0 .. n
    BY <1>1
  <2> HIDE DEF s
  <2> QED BY <1>8, <1>9, <2>1
<1>11. s \o t = s
  <2> HIDE DEF s
  <2> QED BY <1>10, ConcatEmptySeq
<1>12. Placed(at, q, t, s, E)
  <2> HIDE DEF t
  <2> QED BY <1>7, <1>11
<1> HIDE DEF s, t
<1>13. ASSUME NEW i \in 1 .. n
       PROVE  /\ Len(at[i - 1]) \in Nat
              /\ Len(at[i]) = Len(at[i - 1]) + Len(q[i])
              /\ \A k \in 1 .. Len(q[i]) : s[Len(at[i - 1]) + k] = q[i][k]
  <2>1. i \in 1 .. Len(q) /\ i - 1 \in 0 .. n
    BY <1>1, <1>4
  <2>2. Len(at[i - 1]) \in Nat
    BY <1>8, <2>1, LenProperties
  <2> QED BY <1>12, <2>1, <2>2 DEF Placed
<1>14. ASSUME NEW i \in 1 .. n
       PROVE  /\ c.said[i].conv = 37 => Len(at[i]) = Len(at[i - 1])
              /\ c.said[i].conv # 37 => /\ Len(at[i]) = Len(at[i - 1]) + 1
                                        /\ s[Len(at[i - 1]) + 1] = c.said[i].arg
  <2>1. CASE c.said[i].conv = 37
    <3>1. Len(q[i]) = 0
      BY <1>3, <2>1
    <3> DEFINE x == Len(at[i - 1])
    <3>2. x \in Nat /\ Len(at[i]) = x + Len(q[i])
      BY <1>13
    <3> HIDE DEF x
    <3>3. Len(at[i]) = x
      BY <3>1, <3>2
    <3> QED BY <2>1, <3>3 DEF x
  <2>2. CASE c.said[i].conv # 37
    <3>1. Len(q[i]) = 1 /\ q[i][1] = c.said[i].arg /\ 1 \in 1 .. Len(q[i])
      BY <1>3, <2>2
    <3> QED BY <1>13, <2>2, <3>1
  <2> QED BY <2>1, <2>2
<1> QED BY <1>1, <1>9, <1>14 DEF n, at, q, s

(* What the directives mean, one by one.                                   *)
LEMMA MeaningsAre ==
  ASSUME NEW c \in Calls, c.fn = "printf",
         Known(c.said), AllFit(c.said)
  PROVE  LET n == Len(c.said)
             at == Upto(Meanings(c.said))
         IN /\ at[0] = <<>> /\ at[n] = FlattenSeq(Meanings(c.said))
            /\ \A i \in 0 .. n : at[i] \in Seq(Int)
            /\ \A i \in 1 .. n : at[i] = at[i - 1] \o MeaningOf(c.said[i])
<1> DEFINE n == Len(c.said)
           q == Meanings(c.said)
           at == Upto(q)
<1>1. /\ n \in Nat /\ DOMAIN c.said = 1 .. n
      /\ \A i \in 1 .. n : Sayable(c.said[i])
  BY PrintfIs
<1> HIDE DEF n
<1>2. ASSUME NEW i \in 1 .. n
      PROVE  q[i] = MeaningOf(c.said[i]) /\ q[i] \in Seq(Int)
  <2> DEFINE d == c.said[i]
             r == [showbase |-> d.showbase, width |-> d.width, conv |-> d.conv]
             x == d.literal
             y == Base(r)
             z == Text(r, d.arg)
  <2>1. Sayable(d) /\ Fits(d) /\ d.conv \in Conversions
    BY <1>1 DEF Known, AllFit
  <2>2. r.showbase = d.showbase /\ r.width = d.width /\ r.conv = d.conv
    OBVIOUS
  <2> HIDE DEF r, d
  <2>3. /\ x \in Seq(Int) /\ y \in Seq(Int) /\ z \in Seq(Int)
        /\ MeaningOf(d) = (x \o y) \o z
    BY <2>1, <2>2, MeaningIs
  <2> HIDE DEF x, y, z
  <2>4. x \o y \in Seq(Int)
    BY <2>3, ConcatProperties
  <2>5. (x \o y) \o z \in Seq(Int)
    BY <2>3, <2>4, ConcatProperties
  <2>6. q[i] = MeaningOf(d)
    BY <1>1 DEF Meanings, d
  <2> HIDE DEF q
  <2> QED BY <2>3, <2>5, <2>6 DEF d
<1>3. q \in Seq(Seq(Int)) /\ Len(q) = n
  <2>1. q = [i \in 1 .. n |-> q[i]]
    BY <1>1 DEF Meanings
  <2> HIDE DEF q
  <2> QED BY <1>1, <1>2, <2>1
<1> HIDE DEF q
<1>4. Gathers(at, q)
  BY <1>3, UptoGathers
<1> HIDE DEF at
<1>5. \A i \in 0 .. n : at[i] \in Seq(Int)
  <2>1. \A i \in 0 .. Len(q) : at[i] \in Seq(Int)
    BY <1>3, <1>4, GatheredAre
  <2> QED BY <1>3, <2>1
<1>6. /\ at[0] = <<>> /\ at[n] = FlattenSeq(q)
      /\ \A i \in 1 .. n : at[i] = at[i - 1] \o q[i]
  BY <1>3, <1>4 DEF Gathers
<1>7. \A i \in 1 .. n : at[i] = at[i - 1] \o MeaningOf(c.said[i])
  BY <1>2, <1>6
<1> QED BY <1>5, <1>6, <1>7 DEF n, at, q

(* The order in which three texts are joined to a first is of no matter.    *)
Regroups(w, x, y, z) == ((w \o x) \o y) \o z = w \o ((x \o y) \o z)

(* Joining is associative, twice.                                          *)
LEMMA OneByOne ==
  ASSUME NEW w \in Seq(Int), NEW x \in Seq(Int), NEW y \in Seq(Int), NEW z \in Seq(Int)
  PROVE  Regroups(w, x, y, z)
<1>1. w \o x \in Seq(Int) /\ x \o y \in Seq(Int)
  BY ConcatProperties
<1>2. (w \o x) \o y = w \o (x \o y)
  BY SMTT(30), ConcatAssociative
<1> DEFINE u == x \o y
<1>3. u \in Seq(Int)
  BY <1>1
<1> HIDE DEF u
<1>4. (w \o u) \o z = w \o (u \o z)
  BY SMTT(30), <1>3, ConcatAssociative
<1> QED BY <1>2, <1>4 DEF u, Regroups

-----------------------------------------------------------------------------
(* Between two turns of the loop, a number of directives have been read to *)
(* their ends and none of the next: the arguments taken and the text       *)
(* printed and written are theirs.                                         *)
FormatInv ==
  call.fn = "printf" /\ Narrow(call.said) =>
    /\ pc = "format" =>
         \E i \in 0 .. Len(call.said) :
           /\ start = Len(Upto(Pieces(call.said))[i]) + 1
           /\ \A j \in 1 .. i : call.said[j].conv \in Conversions
           /\ Known(call.said) /\ AllFit(call.said) =>
                /\ taken = Len(Upto(Takings(call.said))[i])
                /\ screen = Upto(Meanings(call.said))[i]
                /\ str = Upto(Meanings(call.said))[i]
    /\ pc = "done" =>
         /\ Known(call.said)
         /\ AllFit(call.said) =>
              /\ screen = FlattenSeq(Meanings(call.said)) \o call.tail
              /\ str = FlattenSeq(Meanings(call.said)) \o call.tail

(* At the first turn no directive has been read.                           *)
LEMMA FormatStarts == LibcInit => FormatInv
<1> SUFFICES ASSUME LibcInit, call.fn = "printf", Narrow(call.said) PROVE FormatInv
  BY DEF FormatInv
<1>1. /\ call \in Calls /\ pc = "format" /\ start = 1 /\ taken = 0
      /\ screen = <<>> /\ str = <<>>
  BY DEF LibcInit
<1>2. Len(call.said) \in Nat
  BY <1>1, PrintfIs
<1>3. Upto(Pieces(call.said))[0] = <<>>
  BY <1>1, FormatIs
<1>4. Upto(Takings(call.said))[0] = <<>>
  BY <1>1, ArgumentsAre
<1>5. Known(call.said) /\ AllFit(call.said) => Upto(Meanings(call.said))[0] = <<>>
  BY <1>1, MeaningsAre
<1>6. 0 \in 0 .. Len(call.said) /\ Len(<<>>) = 0
  BY <1>2
<1>7. /\ start = Len(Upto(Pieces(call.said))[0]) + 1
      /\ \A j \in 1 .. 0 : call.said[j].conv \in Conversions
      /\ Known(call.said) /\ AllFit(call.said) =>
           /\ taken = Len(Upto(Takings(call.said))[0])
           /\ screen = Upto(Meanings(call.said))[0]
           /\ str = Upto(Meanings(call.said))[0]
  BY <1>1, <1>3, <1>4, <1>5, <1>6
<1> QED BY <1>1, <1>6, <1>7 DEF FormatInv

-----------------------------------------------------------------------------
(* A turn of the loop reads one directive more.                            *)
LEMMA FormatTurns ==
  ASSUME call \in Calls, FormatInv, Iterate
  PROVE  FormatInv'
<1> SUFFICES ASSUME call.fn = "printf", Narrow(call.said) PROVE FormatInv'
  BY DEF FormatInv, Iterate
<1> DEFINE said == call.said
           n == Len(said)
           at == Upto(Pieces(said))
           argsat == Upto(Takings(said))
           meant == Upto(Meanings(said))
<1>1. PICK i \in 0 .. n :
        /\ start = Len(at[i]) + 1
        /\ \A j \in 1 .. i : said[j].conv \in Conversions
        /\ Known(said) /\ AllFit(said) =>
             taken = Len(argsat[i]) /\ screen = meant[i] /\ str = meant[i]
  BY DEF FormatInv, Iterate
<1>2. n \in Nat /\ DOMAIN said = 1 .. n /\ \A j \in 1 .. n : Sayable(said[j])
  BY PrintfIs
<1>3. i # n
  BY <1>1, EndsAt DEF Iterate
<1> DEFINE m == i + 1
           d == said[m]
           r == Directive(call.fmt, Mark)
           arg == IF r.conv = 37 THEN <<>> ELSE call.args[taken + 1]
           literal == SubSeq(call.fmt, start, Mark - 1)
<1>4. m \in 1 .. n /\ m \in 0 .. n /\ m - 1 = i
  BY <1>2, <1>3
<1>5. /\ literal = d.literal
      /\ r.showbase <=> d.showbase
      /\ r.width = d.width /\ r.conv = d.conv
      /\ r.mark = Len(at[m])
  <2> HIDE DEF m
  <2>1. start = Len(at[m - 1]) + 1
    BY <1>1, <1>4
  <2> QED BY <1>4, <2>1, ReadsOn
<1>6. /\ r.conv \in Conversions
      /\ screen' = screen \o literal \o Base(r) \o Text(r, arg)
      /\ str' = str \o literal \o Base(r) \o Text(r, arg)
      /\ taken' = IF r.conv = 37 THEN taken ELSE taken + 1
      /\ start' = r.mark + 1
      /\ pc' = "format" /\ call' = call
  BY DEF Iterate
<1> HIDE DEF r, literal
<1>7. start' = Len(at[m]) + 1
  BY <1>5, <1>6
<1>8. \A j \in 1 .. m : said[j].conv \in Conversions
  <2> TAKE j \in 1 .. m
  <2>1. CASE j = m
    BY <1>5, <1>6, <2>1
  <2>2. CASE j # m
    <3>1. j \in 1 .. i
      BY <2>2
    <3> QED BY <1>1, <3>1
  <2> QED BY <2>1, <2>2
<1> HIDE DEF m
<1>9. ASSUME Known(said), AllFit(said)
      PROVE  taken' = Len(argsat[m]) /\ screen' = meant[m] /\ str' = meant[m]
  <2>1. taken = Len(argsat[m - 1]) /\ screen = meant[m - 1] /\ str = meant[m - 1]
    BY <1>1, <1>4, <1>9
  <2>2. /\ d.conv = 37 => Len(argsat[m]) = Len(argsat[m - 1])
        /\ d.conv # 37 => /\ Len(argsat[m]) = Len(argsat[m - 1]) + 1
                          /\ call.args[Len(argsat[m - 1]) + 1] = d.arg
    BY <1>4, ArgumentsAre
  <2>3. taken' = Len(argsat[m])
    BY <1>5, <1>6, <2>1, <2>2
  <2>4. d.conv # 37 => arg = d.arg
    BY <1>5, <2>1, <2>2
  <2>5. /\ \A j \in 0 .. n : meant[j] \in Seq(Int)
        /\ meant[m] = meant[m - 1] \o MeaningOf(d)
    BY <1>4, <1>9, MeaningsAre
  <2>6. m - 1 \in 0 .. n
    BY <1>1, <1>4
  <2> DEFINE x == d.literal
             y == Base(r)
             z == Text(r, arg)
             w == meant[m - 1]
  <2>7. Sayable(d) /\ Fits(d) /\ d.conv \in Conversions
    BY <1>2, <1>4, <1>9 DEF Known, AllFit
  <2>8. w \in Seq(Int)
    BY <2>5, <2>6
  <2> HIDE DEF arg, d, w
  <2>9. /\ x \in Seq(Int) /\ y \in Seq(Int) /\ z \in Seq(Int)
        /\ MeaningOf(d) = (x \o y) \o z
    BY <1>5, <2>4, <2>7, MeaningIs
  <2>10. screen' = ((w \o x) \o y) \o z /\ str' = ((w \o x) \o y) \o z
    BY <1>5, <1>6, <2>1 DEF w
  <2> HIDE DEF x, y, z
  <2>11. ((w \o x) \o y) \o z = w \o ((x \o y) \o z)
    <3>1. Regroups(w, x, y, z)
      BY <2>8, <2>9, OneByOne
    <3> QED BY <3>1 DEF Regroups
  <2>12. meant[m] = w \o ((x \o y) \o z)
    BY <2>5, <2>9 DEF w
  <2> QED BY <2>3, <2>10, <2>11, <2>12
<1>10. pc' = "format" /\ call' = call
  BY <1>6
<1> HIDE DEF at, argsat, meant, n
<1>11. \E j \in 0 .. n :
         /\ start' = Len(at[j]) + 1
         /\ \A k \in 1 .. j : said[k].conv \in Conversions
         /\ Known(said) /\ AllFit(said) =>
              taken' = Len(argsat[j]) /\ screen' = meant[j] /\ str' = meant[j]
  BY <1>4, <1>7, <1>8, <1>9
<1> QED BY <1>10, <1>11 DEF FormatInv, at, argsat, meant, n

(* The text behind the last directive ends the call.                       *)
LEMMA FormatEnds ==
  ASSUME call \in Calls, FormatInv, Rest
  PROVE  FormatInv'
<1> SUFFICES ASSUME call.fn = "printf", Narrow(call.said) PROVE FormatInv'
  BY DEF FormatInv, Rest
<1> DEFINE said == call.said
           n == Len(said)
           at == Upto(Pieces(said))
           meant == Upto(Meanings(said))
<1>1. PICK i \in 0 .. n :
        /\ start = Len(at[i]) + 1
        /\ \A j \in 1 .. i : said[j].conv \in Conversions
        /\ Known(said) /\ AllFit(said) => screen = meant[i] /\ str = meant[i]
  BY DEF FormatInv, Rest
<1>2. n \in Nat /\ DOMAIN said = 1 .. n
  BY PrintfIs
<1>3. i = n
  <2> SUFFICES ASSUME i # n PROVE FALSE
    OBVIOUS
  <2> DEFINE m == i + 1
  <2>1. m \in 1 .. n /\ m - 1 = i
    BY <1>2
  <2> HIDE DEF m
  <2>2. start = Len(at[m - 1]) + 1
    BY <1>1, <2>1
  <2>3. Mark # 0
    BY <2>1, <2>2, ReadsOn
  <2> QED BY <2>3 DEF Rest
<1>4. SubSeq(call.fmt, start, Len(call.fmt)) = call.tail
  BY <1>1, <1>3, EndsAt
<1>5. /\ screen' = screen \o call.tail /\ str' = str \o call.tail
      /\ pc' = "done" /\ call' = call
  BY <1>4 DEF Rest
<1>6. Known(said)
  BY <1>1, <1>2, <1>3 DEF Known
<1>7. ASSUME AllFit(said)
      PROVE  /\ screen' = FlattenSeq(Meanings(said)) \o call.tail
             /\ str' = FlattenSeq(Meanings(said)) \o call.tail
  <2>1. meant[n] = FlattenSeq(Meanings(said))
    BY <1>6, <1>7, MeaningsAre
  <2> QED BY <1>1, <1>3, <1>5, <1>6, <1>7, <2>1
<1> QED BY <1>5, <1>6, <1>7 DEF FormatInv

(* The invariant of the turns of the loop of printf.                       *)
LEMMA FormatInvHolds == LibcSpec => []FormatInv
<1>1. LibcInit => FormatInv
  BY FormatStarts
<1>2. LibcInv /\ FormatInv /\ [LibcNext]_libcvars => FormatInv'
  <2> SUFFICES ASSUME LibcInv, FormatInv, [LibcNext]_libcvars PROVE FormatInv'
    OBVIOUS
  <2>0. call \in Calls
    BY DEF LibcInv
  <2>1. CASE Iterate
    BY <2>0, <2>1, FormatTurns
  <2>2. CASE Panic
    BY <2>2 DEF FormatInv, Panic
  <2>3. CASE Rest
    BY <2>0, <2>3, FormatEnds
  <2>4. CASE pc = "call" /\ (Number_to_text \/ Copy \/ IntCommand)
    <3>1. call.fn # "printf" /\ call' = call
      BY <2>4 DEF LibcInv, Number_to_text, Copy, IntCommand, Give
    <3> QED BY <3>1 DEF FormatInv
  <2>5. CASE UNCHANGED libcvars
    BY <2>5 DEF FormatInv, libcvars
  <2> QED BY <2>1, <2>2, <2>3, <2>4, <2>5 DEF LibcNext
<1> QED BY <1>1, <1>2, LibcInvHolds, PTL DEF LibcSpec

(* When the format is read to its end, everything meant has been printed.  *)
LEMMA FormatRight == FormatInv => FormattedAsMeant
<1> SUFFICES ASSUME FormatInv, pc = "done", call.fn = "printf",
                    \A i \in DOMAIN call.said : Fits(call.said[i])
             PROVE  LET meaning == FlattenSeq(Meanings(call.said)) \o call.tail
                    IN screen = meaning /\ str = meaning
  BY DEF FormattedAsMeant, Meanings
<1>1. Narrow(call.said) /\ AllFit(call.said)
  BY DEF Narrow, AllFit, Fits
<1> QED BY <1>1 DEF FormatInv

(* A format of any number of directives is printed by vprintf, and written *)
(* by vsprintf, as its directives mean: every argument at its own place,   *)
(* the characters, the strings and the numerals of the numbers in their    *)
(* bases, for every value and size of int.  Fits excepts four cases that   *)
(* come out otherwise: %b of 2 or more, printed in decimal; zeros to fill a*)
(* negative number, printed before its sign; a number longer than its      *)
(* width; and a width of several digits.                                   *)
THEOREM FormatsMeanWhatTheySay == LibcSpec => []FormattedAsMeant
  BY FormatInvHolds, FormatRight, PTL
=============================================================================
