-------------------------------- MODULE Lists --------------------------------
(* The circular doubly linked lists of include/utils/list.h.  A node is a  *)
(* struct list_head: the head of a list or the member of an entry, which   *)
(* stands for the entry (container_of is a fixed offset).  The memory of   *)
(* the nodes is a record of the functions next and prev; a C function is   *)
(* an operator on it, its assignments to a field in the order of the code. *)
EXTENDS Naturals, SequencesExt

CONSTANTS Heads,           \* the heads of lists
          Entries,         \* the entries
          LIST_POISON1, LIST_POISON2

ASSUME ListsAssumption ==
  /\ Heads \cap Entries = {}
  /\ {LIST_POISON1, LIST_POISON2} \cap (Heads \cup Entries) = {}
  /\ IsFiniteSet(Entries)

Nodes == Heads \cup Entries
Pointers == Nodes \cup {LIST_POISON1, LIST_POISON2}

VARIABLES mem,    \* the fields of every node
          live,   \* the nodes whose fields mean something: a head that has
                  \* been initialised, an entry linked or by itself
          walk    \* the list_for_each loop under way

vars == <<mem, live, walk>>
-----------------------------------------------------------------------------
INIT_LIST_HEAD(m, list) ==
  [next |-> [m.next EXCEPT ![list] = list], prev |-> [m.prev EXCEPT ![list] = list]]

(* Mutant of list_add_between: the successor is not told.                  *)
list_add_betweenMutant(m, new, prev, next) ==
  [next |-> [m.next EXCEPT ![new] = next, ![prev] = new],
   prev |-> [m.prev EXCEPT ![new] = prev]]

list_add_between(m, new, prev, next) ==
  [next |-> [m.next EXCEPT ![new] = next, ![prev] = new],
   prev |-> [m.prev EXCEPT ![next] = new, ![new] = prev]]

list_add(m, new, head) == list_add_between(m, new, head, m.next[head])
list_add_tail(m, new, head) == list_add_between(m, new, m.prev[head], head)

list_del_between(m, prev, next) ==
  [next |-> [m.next EXCEPT ![prev] = next], prev |-> [m.prev EXCEPT ![next] = prev]]
list_del_entry(m, entry) == list_del_between(m, m.prev[entry], m.next[entry])

list_del(m, entry) ==
  LET d == list_del_entry(m, entry)
  IN [next |-> [d.next EXCEPT ![entry] = LIST_POISON1],
      prev |-> [d.prev EXCEPT ![entry] = LIST_POISON2]]
list_del_init(m, entry) == INIT_LIST_HEAD(list_del_entry(m, entry), entry)

(* old->prev is read after the successor of old has been told of new: for  *)
(* an empty old, whose successor is itself, that is what makes new empty.  *)
list_replace(m, old, new) ==
  LET told == [m.prev EXCEPT ![m.next[old]] = new]
  IN [next |-> [m.next EXCEPT ![new] = m.next[old], ![told[old]] = new],
      prev |-> [told EXCEPT ![new] = told[old]]]
list_replace_init(m, old, new) == INIT_LIST_HEAD(list_replace(m, old, new), old)

list_move(m, list, head) == list_add(list_del_entry(m, list), list, head)
list_move_tail(m, list, head) == list_add_tail(list_del_entry(m, list), list, head)

list_is_last(m, list, head) == m.next[list] = head
list_empty(m, head) == m.next[head] = head
list_empty_careful(m, head) == m.next[head] = head /\ m.prev[head] = head
list_is_singular(m, head) == ~list_empty(m, head) /\ m.next[head] = m.prev[head]

list_rotate_left(m, head) ==
  IF list_empty(m, head) THEN m ELSE list_move_tail(m, m.next[head], head)

list_cut_between(m, list, head, entry) ==
  LET first == m.next[head]
      rest  == m.next[entry]
  IN [next |-> [m.next EXCEPT ![list] = first, ![entry] = list, ![head] = rest],
      prev |-> [m.prev EXCEPT ![first] = list, ![list] = entry, ![rest] = head]]

(* The two early returns of list_cut_position: nothing is cut, and list is *)
(* left as it was.                                                         *)
CutsNothing(m, head, entry) ==
  \/ list_empty(m, head)
  \/ list_is_singular(m, head) /\ m.next[head] # entry /\ head # entry

list_cut_position(m, list, head, entry) ==
  IF CutsNothing(m, head, entry) THEN m
  ELSE IF entry = head THEN INIT_LIST_HEAD(m, list)
  ELSE list_cut_between(m, list, head, entry)

list_splice_between(m, list, prev, next) ==
  LET first == m.next[list]
      last  == m.prev[list]
  IN [next |-> [m.next EXCEPT ![prev] = first, ![last] = next],
      prev |-> [m.prev EXCEPT ![first] = prev, ![next] = last]]

list_splice(m, list, head) ==
  IF list_empty(m, list) THEN m
  ELSE list_splice_between(m, list, head, m.next[head])

(* Mutant of list_splice_tail: joined at the front.                        *)
list_splice_tailMutant(m, list, head) ==
  IF list_empty(m, list) THEN m
  ELSE list_splice_between(m, list, head, m.next[head])

list_splice_tail(m, list, head) ==
  IF list_empty(m, list) THEN m
  ELSE list_splice_between(m, list, m.prev[head], head)

list_splice_init(m, list, head) ==
  IF list_empty(m, list) THEN m ELSE INIT_LIST_HEAD(list_splice(m, list, head), list)

list_splice_tail_init(m, list, head) ==
  IF list_empty(m, list) THEN m
  ELSE INIT_LIST_HEAD(list_splice_tail(m, list, head), list)
-----------------------------------------------------------------------------
(* The entries met from a node on in one direction, up to the head.        *)
Chain(m, dir, from) ==
  LET f[k \in Nat] == IF k = 0 THEN from
                      ELSE IF f[k - 1] \in Entries THEN m[dir][f[k - 1]] ELSE f[k - 1]
      met == {k \in 0 .. Cardinality(Entries) : f[k] \in Entries}
  IN [k \in 1 .. Cardinality(met) |-> f[k - 1]]

(* What the entries of the list at head are.                               *)
Members(head) == LET c == Chain(mem, "next", mem.next[head])
                 IN {c[k] : k \in DOMAIN c}

(* No list holds this node: it can be added to one, or made a new head.    *)
Loose(n) == n \notin live \/ mem.next[n] = n

(* Two heads of two lists: neither is met from the other.                  *)
Apart(list, head) ==
  /\ list # head /\ {list, head} \subseteq live
  /\ list \notin {mem.next[head], mem.prev[head]}

NoWalk == [dir |-> "none"]
Call(m, l) == walk = NoWalk /\ mem' = m /\ live' = l /\ UNCHANGED walk

-----------------------------------------------------------------------------
(* The calls, for every argument their comments allow.                     *)
InitListHead(h) == h \notin live /\ Call(INIT_LIST_HEAD(mem, h), live \cup {h})

ListAdd(new, head) ==
  Loose(new) /\ head \in live /\ Call(list_add(mem, new, head), live \cup {new})
ListAddTail(new, head) ==
  Loose(new) /\ head \in live /\ Call(list_add_tail(mem, new, head), live \cup {new})

ListDel(entry) == entry \in live /\ Call(list_del(mem, entry), live \ {entry})
ListDelInit(entry) == entry \in live /\ Call(list_del_init(mem, entry), live)

(* Of two entries, or of two heads: the second takes over the list of the  *)
(* first, which is left pointing into it, or is initialised.               *)
MayReplace(old, new) ==
  /\ old # new /\ old \in live /\ Loose(new)
  /\ old \in Heads <=> new \in Heads
ListReplace(old, new) ==
  /\ MayReplace(old, new)
  /\ Call(list_replace(mem, old, new), (live \ {old}) \cup {new})
ListReplaceInit(old, new) ==
  /\ MayReplace(old, new)
  /\ Call(list_replace_init(mem, old, new), live \cup {new})

ListMove(entry, head) ==
  {entry, head} \subseteq live /\ Call(list_move(mem, entry, head), live)
ListMoveTail(entry, head) ==
  {entry, head} \subseteq live /\ Call(list_move_tail(mem, entry, head), live)
ListRotateLeft(head) == head \in live /\ Call(list_rotate_left(mem, head), live)

(* list is "an empty list or a list you do not care about losing": here one*)
(* without entries.                                                        *)
ListCutPosition(list, head, entry) ==
  /\ list # head /\ head \in live /\ Loose(list)
  /\ entry \in live \ {list} /\ entry \in Members(head) \cup {head}
  /\ Call(list_cut_position(mem, list, head, entry),
          IF CutsNothing(mem, head, entry) THEN live ELSE live \cup {list})

(* Without _init a list that had entries is left pointing at them.         *)
AfterSplice(list) == IF list_empty(mem, list) THEN live ELSE live \ {list}
ListSplice(list, head) ==
  Apart(list, head) /\ Call(list_splice(mem, list, head), AfterSplice(list))
ListSpliceTail(list, head) ==
  Apart(list, head) /\ Call(list_splice_tail(mem, list, head), AfterSplice(list))
ListSpliceInit(list, head) ==
  Apart(list, head) /\ Call(list_splice_init(mem, list, head), live)
ListSpliceTailInit(list, head) ==
  Apart(list, head) /\ Call(list_splice_tail_init(mem, list, head), live)
-----------------------------------------------------------------------------
(* The loops.  list_for_each goes along next and its _prev and _reverse    *)
(* forms along prev; they begin after the head, _continue after an entry   *)
(* and _from at one; the _safe forms keep the following node in n.  seen   *)
(* is what the body has been given, due what was in the list at the start. *)

(* Mutant of Start: n is not moved past pos.                               *)
StartMutant(dir, safe, first, head) ==
  /\ walk = NoWalk /\ head \in live
  /\ walk' = [dir |-> dir, safe |-> safe, head |-> head, pos |-> first,
              n |-> first, seen |-> <<>>, due |-> Chain(mem, dir, first)]
  /\ UNCHANGED <<mem, live>>

Start(dir, safe, first, head) ==
  /\ walk = NoWalk /\ head \in live
  /\ walk' = [dir |-> dir, safe |-> safe, head |-> head, pos |-> first,
              n |-> IF safe THEN mem[dir][first] ELSE first,
              seen |-> <<>>, due |-> Chain(mem, dir, first)]
  /\ UNCHANGED <<mem, live>>

ForEach(dir, safe, head) == head \in live /\ Start(dir, safe, mem[dir][head], head)
ForEachContinue(dir, safe, pos, head) ==
  head \in live /\ pos \in Members(head) /\ Start(dir, safe, mem[dir][pos], head)
ForEachFrom(safe, pos, head) ==
  head \in live /\ pos \in Members(head) /\ Start("next", safe, pos, head)

(* The rest of the loop after a body that left the memory m.               *)
Advance(m, n, due) ==
  walk' = [walk EXCEPT
    !.seen = Append(@, walk.pos), !.due = due,
    !.pos = IF walk.safe THEN n ELSE m[walk.dir][walk.pos],
    !.n   = IF walk.safe THEN m[walk.dir][n] ELSE m[walk.dir][walk.pos]]

InBody == walk # NoWalk /\ walk.pos \in Entries \cap live

(* A body that only looks.                                                 *)
Look == InBody /\ Advance(mem, walk.n, walk.due) /\ UNCHANGED <<mem, live>>

(* A body that takes pos out of the list, which the safe loops allow.      *)
TakeOut(m, l) ==
  /\ InBody /\ walk.safe
  /\ mem' = m /\ live' = l /\ Advance(m, walk.n, walk.due)
DelPos == TakeOut(list_del(mem, walk.pos), live \ {walk.pos})
DelInitPos == TakeOut(list_del_init(mem, walk.pos), live)
MovePos(head) ==
  InBody /\ head \in live \ {walk.head} /\ TakeOut(list_move(mem, walk.pos, head), live)
MoveTailPos(head) ==
  InBody /\ head \in live \ {walk.head} /\ TakeOut(list_move_tail(mem, walk.pos, head), live)

(* A body that takes out the node after pos and so calls                   *)
(* list_safe_reset_next before the iteration ends.                         *)
DelNextAndReset ==
  /\ InBody /\ walk.safe /\ walk.dir = "next"
  /\ walk.n \in Entries \cap live
  /\ LET m == list_del(mem, walk.n)
     IN /\ mem' = m /\ live' = live \ {walk.n}
        /\ Advance(m, m.next[walk.pos],
                   RemoveAt(walk.due, CHOOSE i \in DOMAIN walk.due : walk.due[i] = walk.n))

(* The loop ends at the head, or the body breaks out of it.                *)
Leave == walk # NoWalk /\ walk' = NoWalk /\ UNCHANGED <<mem, live>>
-----------------------------------------------------------------------------
Init ==
  /\ mem = [next |-> [n \in Nodes |-> IF n \in Heads THEN n ELSE LIST_POISON1],
            prev |-> [n \in Nodes |-> IF n \in Heads THEN n ELSE LIST_POISON2]]
  /\ live = Heads
  /\ walk = NoWalk

Next ==
  \/ \E h \in Heads : InitListHead(h) \/ ListRotateLeft(h)
  \/ \E e \in Entries : ListDel(e) \/ ListDelInit(e)
  \/ \E e \in Entries, h \in Heads :
       ListAdd(e, h) \/ ListAddTail(e, h) \/ ListMove(e, h) \/ ListMoveTail(e, h)
  \/ \E old, new \in Nodes : ListReplace(old, new) \/ ListReplaceInit(old, new)
  \/ \E list, head \in Heads :
       \/ \E entry \in Nodes : ListCutPosition(list, head, entry)
       \/ ListSplice(list, head) \/ ListSpliceTail(list, head)
       \/ ListSpliceInit(list, head) \/ ListSpliceTailInit(list, head)
  \/ \E head \in Heads, safe \in BOOLEAN :
       \/ \E dir \in {"next", "prev"} :
            \/ ForEach(dir, safe, head)
            \/ \E pos \in Entries : ForEachContinue(dir, safe, pos, head)
       \/ \E pos \in Entries : ForEachFrom(safe, pos, head)
  \/ Look \/ DelPos \/ DelInitPos \/ DelNextAndReset \/ Leave
  \/ \E head \in Heads : MovePos(head) \/ MoveTailPos(head)

Spec == Init /\ [][Next]_vars
=============================================================================
