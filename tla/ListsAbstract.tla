---------------------------- MODULE ListsAbstract ----------------------------
(* What the list calls promise: every head owns a sequence of entries, and *)
(* an entry is in one of them at most.                                     *)
EXTENDS SequencesExt

CONSTANTS Heads, Entries

VARIABLE lists

In(e, h) == e \in ToSet(lists[h])
Free(e) == \A h \in Heads : ~In(e, h)
Position(e, list) == CHOOSE i \in DOMAIN list : list[i] = e
Without(e) == [h \in Heads |-> IF In(e, h)
  THEN RemoveAt(lists[h], Position(e, lists[h])) ELSE lists[h]]
Empty == [h \in Heads |-> <<>>]

(* A stack's push and a queue's.                                           *)
Add(new, head) == Free(new) /\ lists' = [lists EXCEPT ![head] = <<new>> \o @]
AddTail(new, head) == Free(new) /\ lists' = [lists EXCEPT ![head] = Append(@, new)]

(* Beside an entry that is in a list.                                      *)
AddBefore(new, next) ==
  /\ Free(new) /\ ~Free(next)
  /\ lists' = [h \in Heads |-> IF In(next, h)
                THEN InsertAt(lists[h], Position(next, lists[h]), new) ELSE lists[h]]
AddAfter(new, before) ==
  /\ Free(new) /\ ~Free(before)
  /\ lists' = [h \in Heads |-> IF In(before, h)
                THEN InsertAt(lists[h], Position(before, lists[h]) + 1, new)
                ELSE lists[h]]

Del(entry) == lists' = Without(entry)

(* Replacing a head hands its entries over to the other, which has none.   *)
Replace(old, new) ==
  IF old \in Heads
  THEN lists[new] = <<>> /\ lists' = [lists EXCEPT ![new] = lists[old], ![old] = <<>>]
  ELSE Free(new) /\ lists' = [h \in Heads |-> ReplaceAll(lists[h], old, new)]

Move(entry, head) ==
  lists' = [Without(entry) EXCEPT ![head] = <<entry>> \o @]
MoveTail(entry, head) ==
  lists' = [Without(entry) EXCEPT ![head] = Append(@, entry)]

RotateLeft(head) ==
  lists' = [lists EXCEPT ![head] = IF @ = <<>> THEN @ ELSE Append(Tail(@), Head(@))]

(* The entries up to entry go to list; none do when entry is the head.     *)
Cut(list, head, entry) ==
  LET n == IF entry = head THEN 0
           ELSE Position(entry, lists[head])
  IN /\ lists[list] = <<>>
     /\ lists' = [lists EXCEPT ![list] = SubSeq(lists[head], 1, n),
                               ![head] = SubSeq(@, n + 1, Len(@))]

Splice(list, head) ==
  lists' = [lists EXCEPT ![head] = lists[list] \o @, ![list] = <<>>]
SpliceTail(list, head) ==
  lists' = [lists EXCEPT ![head] = @ \o lists[list], ![list] = <<>>]
=============================================================================
