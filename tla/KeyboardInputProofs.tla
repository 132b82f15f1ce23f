------------------------ MODULE KeyboardInputProofs -------------------------
(***************************************************************************)
(* Proofs about the keyboard and input_get_char, for every keyboard, every *)
(* number of presses and every length of the queue.  The inductive         *)
(* invariant follows the number of a press from the controller's queue     *)
(* through the slot and the local of input_get_char to what was returned:  *)
(* the numbers grow along the way.                                         *)
(***************************************************************************)
EXTENDS KeyboardInputProps, SequenceTheorems, TLAPS

(* The presses in the queue grow, and are later than the one in the slot.  *)
QueueGrows ==
  /\ \A i \in DOMAIN queue :
       queue[i].press > 0 => /\ queue[i].press > driver_kbd_inputc.press
                             /\ queue[i].press <= Len(typed)
  /\ \A i, j \in DOMAIN queue :
       i < j /\ queue[i].press > 0 /\ queue[j].press > 0
         => queue[i].press < queue[j].press
  /\ driver_kbd_inputc.press <= Len(typed)

(* Every make code is of a press. *)
MakesArePresses ==
  \A i \in DOMAIN queue : queue[i].code < Break => queue[i].press > 0

(* What was returned is not later than the slot, and the character in hand *)
(* has not been returned.                                                  *)
HandIsNew ==
  /\ \A i \in DOMAIN got : got[i].press <= driver_kbd_inputc.press
  /\ pc = "clear" =>
       /\ c.press <= driver_kbd_inputc.press
       /\ \A i \in DOMAIN got : got[i].press < c.press

IInv ==
  TypeOK /\ QueueGrows /\ MakesArePresses /\ FlagIsTrue /\ HandIsNew /\ InOrder

(* What every step but those of the user, the handler and the reader's     *)
(* last two leaves as it was.                                              *)
Moves == UNCHANGED <<user, queue, driver, slot, reader>>

-----------------------------------------------------------------------------
LEMMA FoundTyped == ASSUME NEW code \in 0 .. 127
                    PROVE  Found(code) \subseteq Entries
  BY DEF Found, Entries, Key, Label, Keys, Modifiers, Locks, RowCount, Outside

LEMMA CharTyped == ASSUME NEW label \in -1 .. 88, NEW upper \in BOOLEAN
                   PROVE  Char(label, upper) \in Chars
  BY DEF Char, Chars

LEMMA CodeTyped == ASSUME NEW s \in CodesQueued
                   PROVE  s.code \in 0 .. 255 /\ s.press \in 0 .. MaxPresses
<1>1. s.code \in Keyboard \cup {k + Break : k \in Keyboard} \cup {ACK}
  BY DEF CodesQueued
<1>p. s.press \in 0 .. MaxPresses
  BY DEF CodesQueued
<1>2. \A k \in Keyboard : k \in Nat /\ 1 <= k /\ k <= 88
  <2>1. Keyboard \subseteq 1 .. 88
    BY KeyboardAssumption DEF MakeCodes
  <2> QED
    BY <2>1
<1>3. CASE s.code \in Keyboard
  BY <1>2, <1>3, <1>p
<1>4. CASE s.code \in {k + Break : k \in Keyboard}
  BY <1>2, <1>4, <1>p DEF Break
<1>5. CASE s.code = ACK
  BY <1>5, <1>p DEF ACK
<1> QED
  BY <1>1, <1>3, <1>4, <1>5

LEMMA AcksTyped ==
  /\ Acks \in Seq(CodesQueued) /\ Len(Acks) = 2
  /\ \A i \in 1..2 : Acks[i].press = 0 /\ ~(Acks[i].code < Break)
<1>1. Code(ACK, 0) \in CodesQueued
  BY KeyboardAssumption DEF Code, CodesQueued
<1>2. Acks \in Seq(CodesQueued)
  BY <1>1 DEF Acks
<1> QED
  BY <1>2 DEF Acks, Code, ACK, Break

LEMMA KeystrokeTyped == ASSUME NEW k \in Keystrokes
                        PROVE  k.press \in Nat /\ k.char \in Chars
  BY KeyboardAssumption DEF Keystrokes

(* The numbers of the presses are numbers. *)
LEMMA PressesTyped ==
  ASSUME TypeOK
  PROVE  /\ \A i \in DOMAIN queue : queue[i].press \in Nat /\ queue[i].code \in Nat
         /\ \A i \in DOMAIN got : got[i].press \in Nat
         /\ driver_kbd_inputc.press \in Nat /\ c.press \in Nat
         /\ Len(typed) \in Nat /\ Len(queue) \in Nat /\ Len(got) \in Nat
         /\ DOMAIN queue = 1 .. Len(queue) /\ DOMAIN got = 1 .. Len(got)
<1>1. \A i \in DOMAIN queue : queue[i] \in CodesQueued
  BY DEF TypeOK
<1>2. \A i \in DOMAIN got : got[i] \in Keystrokes
  BY DEF TypeOK
<1>3. driver_kbd_inputc \in Keystrokes /\ c \in Keystrokes
  BY DEF TypeOK
<1>4. \A i \in DOMAIN queue : queue[i].press \in Nat /\ queue[i].code \in Nat
  BY <1>1, CodeTyped, KeyboardAssumption
<1>5. /\ Len(typed) \in Nat /\ Len(queue) \in Nat /\ Len(got) \in Nat
      /\ DOMAIN queue = 1 .. Len(queue) /\ DOMAIN got = 1 .. Len(got)
  BY DEF TypeOK
<1> QED
  BY <1>2, <1>3, <1>4, <1>5, KeystrokeTyped

LEMMA InitIInv == Init => IInv
<1> SUFFICES ASSUME Init PROVE IInv
  OBVIOUS
<1> USE DEF Init
<1>1. TypeOK
  <2>1. None \in Keystrokes
    <3>1. Char(0, FALSE) \in Chars /\ 0 \in 0 .. MaxPresses
      <4>1. 0 \in -1 .. 88 /\ FALSE \in BOOLEAN
        OBVIOUS
      <4>2. Char(0, FALSE) \in Chars
        BY <4>1, CharTyped
      <4>3. 0 \in 0 .. MaxPresses
        BY KeyboardAssumption
      <4> QED
        BY <4>2, <4>3
    <3> QED
      BY <3>1 DEF None, Keystrokes
  <2>2. queue \in Seq(CodesQueued)
    BY AcksTyped
  <2>3. <<>> \in Seq([code : Keyboard, shifted : BOOLEAN])
        /\ <<>> \in Seq(Keystrokes) /\ Len(<<>>) <= MaxPresses
    BY KeyboardAssumption
  <2> QED
    BY <2>1, <2>2, <2>3 DEF TypeOK
<1>2. QueueGrows /\ FlagIsTrue /\ HandIsNew /\ InOrder /\ MakesArePresses
  BY DEF QueueGrows, MakesArePresses, FlagIsTrue, HandIsNew, InOrder, Acks, Code,
         None, ACK, Break
<1> QED
  BY <1>1, <1>2 DEF IInv

-----------------------------------------------------------------------------
(* The invariant through the steps, one lemma per actor.                   *)

LEMMA MoveKeeps ==
  ASSUME IInv, Moves, pc' \in {"app", "int81", "test", "hlt", "halted", "read"},
         pc' = "read" => driver_kbd_inputavailable
  PROVE  IInv'
<1> USE DEF Moves, user, driver, slot, reader
<1>1. TypeOK'
  BY DEF IInv, TypeOK
<1>2. FlagIsTrue' /\ HandIsNew' /\ InOrder'
  BY DEF IInv, FlagIsTrue, HandIsNew, InOrder
<1>3. QueueGrows' /\ MakesArePresses'
  BY DEF IInv, QueueGrows, MakesArePresses
<1> QED
  BY <1>1, <1>2, <1>3 DEF IInv

LEMMA PressKeeps ==
  ASSUME IInv, NEW code \in Keyboard, Press(code)
  PROVE  IInv'
<1> USE DEF Press, driver, slot, reader
<1>0. Len(typed) \in Nat /\ code \in MakeCodes
  BY KeyboardAssumption DEF IInv, TypeOK
<1>1. TypeOK'
  <2>1. Code(code, Len(typed) + 1) \in CodesQueued
    BY <1>0, KeyboardAssumption DEF Code, CodesQueued
  <2>2. queue' \in Seq(CodesQueued)
    BY <2>1 DEF IInv, TypeOK
  <2>3. typed' \in Seq([code : Keyboard, shifted : BOOLEAN]) /\ Len(typed') <= MaxPresses
    BY KeyboardAssumption, <1>0 DEF IInv, TypeOK
  <2> QED
    BY <2>2, <2>3 DEF IInv, TypeOK
<1>2. FlagIsTrue' /\ HandIsNew' /\ InOrder'
  BY DEF IInv, FlagIsTrue, HandIsNew, InOrder
<1>3. QueueGrows'
  <2>1. TypeOK /\ QueueGrows /\ typed \in Seq([code : Keyboard, shifted : BOOLEAN])
        /\ queue \in Seq(CodesQueued)
    BY DEF IInv, TypeOK
  <2>2. /\ Len(typed') = Len(typed) + 1
        /\ DOMAIN queue' = 1 .. Len(queue) + 1
        /\ \A i \in DOMAIN queue : queue'[i] = queue[i]
        /\ queue'[Len(queue) + 1].press = Len(typed) + 1
    BY <2>1 DEF Code
  <2> QED
    BY <2>1, <2>2, PressesTyped DEF QueueGrows
<1>4. MakesArePresses'
  BY <1>0 DEF IInv, TypeOK, MakesArePresses, Code
<1> QED
  BY <1>1, <1>2, <1>3, <1>4 DEF IInv

LEMMA ReleaseKeeps ==
  ASSUME IInv, NEW code \in Keyboard, Release(code)
  PROVE  IInv'
<1> USE DEF Release, driver, slot, reader
<1>0. code \in MakeCodes
  BY KeyboardAssumption
<1>1. TypeOK'
  <2>1. Code(code + Break, 0) \in CodesQueued
    BY <1>0, KeyboardAssumption DEF Code, CodesQueued
  <2> QED
    BY <2>1 DEF IInv, TypeOK
<1>2. FlagIsTrue' /\ HandIsNew' /\ InOrder'
  BY DEF IInv, FlagIsTrue, HandIsNew, InOrder
<1>3. QueueGrows'
  <2>1. TypeOK /\ QueueGrows /\ queue \in Seq(CodesQueued)
    BY DEF IInv, TypeOK
  <2>2. /\ DOMAIN queue' = 1 .. Len(queue) + 1
        /\ \A i \in DOMAIN queue : queue'[i] = queue[i]
        /\ queue'[Len(queue) + 1].press = 0
    BY <2>1 DEF Code
  <2> QED
    BY <2>1, <2>2, PressesTyped DEF QueueGrows
<1>4. MakesArePresses'
  BY <1>0 DEF IInv, TypeOK, MakesArePresses, Code, Break, MakeCodes
<1> QED
  BY <1>1, <1>2, <1>3, <1>4 DEF IInv

(* Taking a scan code, with two answers of the keyboard behind or none.    *)
LEMMA TailGrows ==
  ASSUME IInv, queue # <<>>, queue' \in {Tail(queue), Tail(queue) \o Acks},
         UNCHANGED typed,
         \/ UNCHANGED driver_kbd_inputc
         \/ driver_kbd_inputc'.press = Head(queue).press /\ Head(queue).press > 0
  PROVE  QueueGrows' /\ MakesArePresses' /\ queue' \in Seq(CodesQueued)
<1>1. /\ Acks \in Seq(CodesQueued) /\ Len(Acks) = 2
      /\ \A i \in 1..2 : Acks[i].press = 0 /\ ~(Acks[i].code < Break)
  BY AcksTyped
<1>2. queue \in Seq(CodesQueued) /\ Len(typed) \in Nat
  BY DEF IInv, TypeOK
<1>3. queue' \in Seq(CodesQueued)
  <2>1. Tail(queue) \in Seq(CodesQueued)
    BY <1>2
  <2>2. Tail(queue) \o Acks \in Seq(CodesQueued)
    BY <2>1, <1>1, ConcatProperties
  <2> QED
    BY <2>1, <2>2
<1>4. \A i \in DOMAIN queue' :
        \/ i + 1 \in DOMAIN queue /\ queue'[i] = queue[i + 1]
        \/ queue'[i].press = 0 /\ ~(queue'[i].code < Break)
  <2>1. CASE queue' = Tail(queue)
    BY <2>1, <1>2
  <2>2. CASE queue' = Tail(queue) \o Acks
    <3> DEFINE t == Tail(queue)
    <3>1. /\ t \in Seq(CodesQueued) /\ Len(t) = Len(queue) - 1
          /\ \A i \in 1 .. Len(t) : i + 1 \in DOMAIN queue /\ t[i] = queue[i + 1]
      BY <1>2
    <3> HIDE DEF t
    <3>2. /\ DOMAIN queue' = 1 .. Len(t) + 2
          /\ \A i \in 1 .. Len(t) : queue'[i] = t[i]
          /\ queue'[Len(t) + 1] = Acks[1] /\ queue'[Len(t) + 2] = Acks[2]
      <4>1. queue' = t \o Acks
        BY <2>2 DEF t
      <4>2. Len(t) \in Nat
        BY <3>1
      <4>3. /\ Len(queue') = Len(t) + 2
            /\ \A i \in 1 .. Len(t) : queue'[i] = t[i]
            /\ \A i \in 1 .. 2 : queue'[Len(t) + i] = Acks[i]
        <5>1. /\ Len(t \o Acks) = Len(t) + Len(Acks)
              /\ \A i \in 1 .. Len(t) + Len(Acks) :
                   (t \o Acks)[i] = IF i <= Len(t) THEN t[i] ELSE Acks[i - Len(t)]
          BY <3>1, <1>1, ConcatProperties
        <5> QED
          BY <5>1, <4>1, <4>2, <1>1
      <4>4. DOMAIN queue' = 1 .. Len(queue')
        BY <1>3
      <4> QED
        BY <4>2, <4>3, <4>4
    <3>3. \A i \in DOMAIN queue' : i \in 1 .. Len(t) \/ i = Len(t) + 1 \/ i = Len(t) + 2
      BY <3>1, <3>2
    <3> QED
      BY <3>1, <3>2, <3>3, <1>1
  <2> QED
    BY <2>1, <2>2
<1>5. 1 \in DOMAIN queue /\ Head(queue) = queue[1]
  BY <1>2
<1>6. \A i \in DOMAIN queue : i \in Nat \ {0} /\ queue[i].press \in Nat
  BY <1>2, PressesTyped DEF IInv
<1>7. driver_kbd_inputc.press \in Nat
  BY PressesTyped DEF IInv
<1>8. \A i \in DOMAIN queue' : i \in Nat \ {0}
  BY <1>3
<1>9. QueueGrows'
  <2> DEFINE p == Head(queue).press
  <2>1. p \in Nat /\ p <= Len(typed)
    BY <1>2, <1>5, <1>6 DEF IInv, QueueGrows
  <2>2. driver_kbd_inputc'.press \in Nat /\ driver_kbd_inputc'.press <= Len(typed')
    BY <2>1, <1>7 DEF IInv, QueueGrows
  <2>3. \A i \in DOMAIN queue' : queue'[i].press > 0 =>
          /\ i + 1 \in DOMAIN queue /\ i + 1 > 1 /\ queue'[i] = queue[i + 1]
    BY <1>4, <1>8
  <2>4. \A i \in DOMAIN queue' : queue'[i].press > 0 =>
          /\ queue'[i].press > driver_kbd_inputc'.press
          /\ queue'[i].press <= Len(typed')
    <3> SUFFICES ASSUME NEW i \in DOMAIN queue', queue'[i].press > 0
                 PROVE  /\ queue'[i].press > driver_kbd_inputc'.press
                        /\ queue'[i].press <= Len(typed')
      OBVIOUS
    <3>1. /\ queue[i + 1].press > driver_kbd_inputc.press
          /\ queue[i + 1].press <= Len(typed)
      BY <2>3 DEF IInv, QueueGrows
    <3>2. p > 0 => queue[i + 1].press > p
      BY <2>3, <1>5, <1>8 DEF IInv, QueueGrows
    <3> QED
      BY <3>1, <3>2, <2>3
  <2>5. \A i, j \in DOMAIN queue' :
          i < j /\ queue'[i].press > 0 /\ queue'[j].press > 0
            => queue'[i].press < queue'[j].press
    <3>1. \A i, j \in DOMAIN queue' : i < j => i + 1 < j + 1
      BY <1>8
    <3> QED
      BY <2>3, <3>1 DEF IInv, QueueGrows
  <2> QED
    BY <2>2, <2>4, <2>5 DEF QueueGrows
<1>10. MakesArePresses'
  BY <1>2, <1>4, <1>5, <1>6 DEF IInv, MakesArePresses
<1> QED
  BY <1>3, <1>9, <1>10

(* What a scan code does to the driver. *)
Handled ==
  LET code == Head(queue).code IN
  IF code >= Break
  THEN \E entry \in Found(code - Break) : BreakKey(entry)
  ELSE \E entry \in Found(code) :
         ModifierKey(entry) \/ LedKey(entry) \/ CharacterKey(entry)

LEMMA HandlerStores ==
  ASSUME IInv, isr_keyboard_int
  PROVE  /\ held' \subseteq Modifiers /\ locks' \subseteq Locks
         /\ queue' \in {Tail(queue), Tail(queue) \o Acks}
         /\ \/ UNCHANGED slot
            \/ /\ driver_kbd_inputavailable'
               /\ driver_kbd_inputc' \in Keystrokes
               /\ driver_kbd_inputc'.press = Head(queue).press
               /\ Head(queue).press > driver_kbd_inputc.press
<1>1. queue \in Seq(CodesQueued) /\ queue # <<>> /\ held \subseteq Modifiers
      /\ locks \subseteq Locks
  BY DEF IInv, TypeOK, isr_keyboard_int
<1>2. Head(queue) \in CodesQueued /\ Head(queue) = queue[1] /\ 1 \in DOMAIN queue
  BY <1>1
<1>3. Head(queue).code \in 0..255 /\ Head(queue).press \in 0 .. MaxPresses
  BY <1>2, CodeTyped
<1>4. CASE Head(queue).code >= Break
  BY <1>4, <1>1 DEF isr_keyboard_int, BreakKey
<1>5. CASE ~(Head(queue).code >= Break)
  <2>1. PICK entry \in Found(Head(queue).code) :
          ModifierKey(entry) \/ LedKey(entry) \/ CharacterKey(entry)
    BY <1>5 DEF isr_keyboard_int
  <2>2. entry \in Entries
    BY <2>1, <1>3, <1>5, FoundTyped DEF Break
  <2>3. CASE ModifierKey(entry)
    BY <2>3, <1>1 DEF ModifierKey
  <2>4. CASE LedKey(entry)
    BY <2>4, <1>1 DEF LedKey
  <2>5. CASE CharacterKey(entry)
    <3>1. Head(queue).press > 0
      BY <1>2, <1>3, <1>5 DEF IInv, MakesArePresses, Break
    <3>2. Head(queue).press > driver_kbd_inputc.press
      BY <3>1, <1>2 DEF IInv, QueueGrows
    <3>3. Char(entry.label, Upper) \in Chars
      BY <2>2, CharTyped DEF Entries, Upper
    <3> QED
      BY <2>5, <3>2, <3>3, <1>1, <1>3 DEF CharacterKey, Keystrokes, driver
  <2> QED
    BY <2>1, <2>3, <2>4, <2>5
<1> QED
  BY <1>4, <1>5

LEMMA HandlerKeeps ==
  ASSUME IInv, isr_keyboard_int
  PROVE  IInv'
<1>1. /\ held' \subseteq Modifiers /\ locks' \subseteq Locks
      /\ queue' \in {Tail(queue), Tail(queue) \o Acks}
      /\ \/ UNCHANGED slot
         \/ /\ driver_kbd_inputavailable'
            /\ driver_kbd_inputc' \in Keystrokes
            /\ driver_kbd_inputc'.press = Head(queue).press
            /\ Head(queue).press > driver_kbd_inputc.press
  BY HandlerStores
<1>2. /\ UNCHANGED <<patient, down, typed, c, got>> /\ queue # <<>>
      /\ pc' = Woken
  BY DEF isr_keyboard_int, user, reader
<1>3. driver_kbd_inputc.press \in Nat /\ queue \in Seq(CodesQueued)
  BY PressesTyped DEF IInv, TypeOK
<1>4. Head(queue).press \in Nat
  <2>1. Head(queue) = queue[1] /\ 1 \in DOMAIN queue
    BY <1>2, <1>3
  <2> QED
    BY <2>1, PressesTyped DEF IInv
<1>5. QueueGrows' /\ MakesArePresses' /\ queue' \in Seq(CodesQueued)
  BY <1>1, <1>2, <1>3, <1>4, TailGrows DEF slot
<1>6. TypeOK'
  BY <1>1, <1>2, <1>5 DEF IInv, TypeOK, slot, Woken
<1>7. \A i \in DOMAIN got : got[i].press \in Nat
  BY PressesTyped DEF IInv
<1>8. FlagIsTrue'
  <2>1. pc' \in {"read", "clear"} => pc \in {"read", "clear"}
    BY <1>2 DEF Woken
  <2> QED
    BY <2>1, <1>1, <1>2, <1>3, <1>4, <1>7 DEF IInv, FlagIsTrue, HandIsNew, slot
<1>9. HandIsNew'
  <2>1. pc' = "clear" => pc = "clear"
    BY <1>2 DEF Woken
  <2>2. c.press \in Nat
    BY PressesTyped DEF IInv
  <2> QED
    BY <2>1, <2>2, <1>1, <1>2, <1>3, <1>4, <1>7 DEF IInv, HandIsNew, slot
<1>10. InOrder'
  BY <1>2 DEF IInv, InOrder
<1> QED
  BY <1>5, <1>6, <1>8, <1>9, <1>10 DEF IInv

LEMMA ReadCharKeeps ==
  ASSUME IInv, ReadChar
  PROVE  IInv'
<1> USE DEF ReadChar, Goto, user, driver, slot
<1>1. TypeOK'
  BY DEF IInv, TypeOK
<1>2. FlagIsTrue' /\ HandIsNew' /\ InOrder'
  BY KeyboardAssumption DEF IInv, TypeOK, FlagIsTrue, HandIsNew, InOrder, Keystrokes
<1>3. QueueGrows' /\ MakesArePresses'
  BY DEF IInv, QueueGrows, MakesArePresses
<1> QED
  BY <1>1, <1>2, <1>3 DEF IInv

LEMMA ClearAvailableKeeps ==
  ASSUME IInv, ClearAvailable
  PROVE  IInv'
<1> USE DEF ClearAvailable, Goto, user, driver
<1>1. TypeOK'
  <2>1. got' \in Seq(Keystrokes)
    BY DEF IInv, TypeOK
  <2> QED
    BY <2>1 DEF IInv, TypeOK
<1>2. /\ \A i \in DOMAIN got : got[i].press < c.press
      /\ c.press <= driver_kbd_inputc.press
      /\ got \in Seq(Keystrokes) /\ c \in Keystrokes
  BY DEF IInv, TypeOK, HandIsNew
<1>3. DOMAIN got' = 1 .. Len(got) + 1
      /\ \A i \in DOMAIN got : got'[i] = got[i]
      /\ got'[Len(got) + 1] = c
  BY <1>2
<1>4. FlagIsTrue' /\ HandIsNew'
  BY <1>2, <1>3 DEF IInv, FlagIsTrue, HandIsNew
<1>5. InOrder'
  BY <1>2, <1>3 DEF IInv, InOrder
<1>6. QueueGrows' /\ MakesArePresses'
  BY DEF IInv, QueueGrows, MakesArePresses
<1> QED
  BY <1>1, <1>4, <1>5, <1>6 DEF IInv

LEMMA NextIInv == IInv /\ [Next]_vars => IInv'
<1> SUFFICES ASSUME IInv, [Next]_vars PROVE IInv'
  OBVIOUS
<1> USE DEF Goto, Moves
<1>1. CASE User
  BY <1>1, PressKeeps, ReleaseKeeps DEF User
<1>2. CASE isr_keyboard_int
  BY <1>2, HandlerKeeps
<1>3. CASE ClockInterrupt
  BY <1>3, MoveKeeps DEF ClockInterrupt, Woken
<1>4. CASE input_get_char \/ sti \/ TestUnavailable \/ hlt
  BY <1>4, MoveKeeps DEF input_get_char, sti, TestUnavailable, hlt
<1>5. CASE TestAvailable
  BY <1>5, MoveKeeps DEF TestAvailable
<1>6. CASE ReadChar
  BY <1>6, ReadCharKeeps
<1>7. CASE ClearAvailable
  BY <1>7, ClearAvailableKeeps
<1>8. CASE UNCHANGED vars
  BY <1>8 DEF vars, user, driver, slot, reader, IInv, TypeOK, QueueGrows,
              MakesArePresses, FlagIsTrue, HandIsNew, InOrder
<1> QED
  BY <1>1, <1>2, <1>3, <1>4, <1>5, <1>6, <1>7, <1>8 DEF Next, Reader

-----------------------------------------------------------------------------
(* Every behaviour keeps the invariant: the types, the truth of the flag,  *)
(* and getc returning keystrokes in order and once.                        *)
THEOREM Invariance == Spec => []IInv
  BY InitIInv, NextIInv, PTL DEF Spec

(* Every variable keeps its type. *)
THEOREM TypeCorrect == Spec => []TypeOK
<1>1. IInv => TypeOK
  BY DEF IInv
<1> QED
  BY <1>1, Invariance, PTL

(* getc returns keystrokes in the order of the presses, each at most once, *)
(* however the handler's runs fall between its steps.                      *)
THEOREM ReturnedInOrder == Spec => []InOrder
<1>1. IInv => InOrder
  BY DEF IInv
<1> QED
  BY <1>1, Invariance, PTL

(* The flag promises an unreturned keystroke, and holds until it is read.  *)
THEOREM FlagHolds == Spec => []FlagIsTrue
<1>1. IInv => FlagIsTrue
  BY DEF IInv
<1> QED
  BY <1>1, Invariance, PTL

-----------------------------------------------------------------------------
(* The channel, step by step. *)

Pending ==
  driver_kbd_inputavailable
  /\ ~(pc = "clear" /\ c.press = driver_kbd_inputc.press)

Mapped == <<driver_kbd_inputc, Pending, Taken>>

LEMMA ChannelStep ==
  IInv /\ [Next]_vars =>
    \/ UNCHANGED Mapped
    \/ /\ driver_kbd_inputc'.press > driver_kbd_inputc.press
       /\ Pending' /\ UNCHANGED Taken
    \/ /\ Pending /\ ~Pending'
       /\ Taken' = Append(Taken, driver_kbd_inputc)
       /\ UNCHANGED driver_kbd_inputc
    \/ /\ Pending /\ ~Pending' /\ UNCHANGED <<driver_kbd_inputc, Taken>>
<1> SUFFICES ASSUME IInv, [Next]_vars
             PROVE  \/ UNCHANGED Mapped
                    \/ /\ driver_kbd_inputc'.press > driver_kbd_inputc.press
                       /\ Pending' /\ UNCHANGED Taken
                    \/ /\ Pending /\ ~Pending'
                       /\ Taken' = Append(Taken, driver_kbd_inputc)
                       /\ UNCHANGED driver_kbd_inputc
                    \/ /\ Pending /\ ~Pending'
                       /\ UNCHANGED <<driver_kbd_inputc, Taken>>
  OBVIOUS
<1> USE DEF Mapped, Pending, Taken
<1>1. CASE User
  BY <1>1 DEF User, Press, Release, driver, slot, reader
<1>2. CASE isr_keyboard_int
  <2>1. /\ UNCHANGED <<c, got>>
        /\ pc' = "clear" <=> pc = "clear"
    BY <1>2 DEF isr_keyboard_int, reader, Woken
  <2>2. CASE UNCHANGED slot
    BY <2>1, <2>2 DEF slot
  <2>3. CASE /\ driver_kbd_inputavailable'
             /\ driver_kbd_inputc'.press = Head(queue).press
             /\ Head(queue).press > driver_kbd_inputc.press
    <3>1. pc = "clear" => c.press <= driver_kbd_inputc.press
      BY DEF IInv, HandIsNew
    <3>2. c.press \in Nat /\ driver_kbd_inputc.press \in Nat
      BY PressesTyped DEF IInv
    <3>3. Head(queue).press \in Nat
      <4>1. Head(queue) = queue[1] /\ 1 \in DOMAIN queue
        BY <1>2 DEF isr_keyboard_int, IInv, TypeOK
      <4> QED
        BY <4>1, PressesTyped DEF IInv
    <3>4. pc = "clear" => c'.press # driver_kbd_inputc'.press
      BY <2>1, <2>3, <3>1, <3>2, <3>3
    <3> QED
      BY <2>1, <2>3, <3>4
  <2> QED
    BY <1>2, <2>2, <2>3, HandlerStores
<1>3. CASE ClockInterrupt
  BY <1>3 DEF ClockInterrupt, Woken, slot, reader
<1>4. CASE input_get_char \/ sti \/ TestAvailable \/ TestUnavailable \/ hlt
  BY <1>4 DEF input_get_char, sti, TestAvailable, TestUnavailable, hlt, Goto,
              slot, reader
<1>5. CASE ReadChar
  <2>1. driver_kbd_inputavailable
    BY <1>5 DEF IInv, FlagIsTrue, ReadChar, Goto
  <2> QED
    BY <1>5, <2>1 DEF ReadChar, Goto, slot
<1>6. CASE ClearAvailable
  BY <1>6 DEF ClearAvailable, Goto
<1>7. CASE UNCHANGED vars
  BY <1>7 DEF vars, slot, reader
<1> QED
  BY <1>1, <1>2, <1>3, <1>4, <1>5, <1>6, <1>7 DEF Next, Reader

(* getc, its software interrupt and the keyboard's handler implement the   *)
(* lossy channel: nothing is repeated, reordered, invented or changed.     *)
THEOREM Refinement == Spec => ImplementsChannel
<1>1. Init => Channel!Init
  BY DEF Init, Channel!Init, None, Taken
<1>2. IInv /\ [Next]_vars =>
        [Channel!Next]_<<driver_kbd_inputc, Pending, Taken>>
  BY ChannelStep
  DEF Channel!Next, Channel!Put, Channel!Take, Channel!Lose, Mapped, Pending
<1> QED
  BY <1>1, <1>2, Invariance, PTL DEF Spec, ImplementsChannel, Channel!Spec, Pending

-----------------------------------------------------------------------------
(* What getc returns is what was meant.  The driver sees Shift as late as  *)
(* its scan code, so the invariant compares the user's Shift at a press    *)
(* with the one the driver will have when it comes to that press.          *)
Pressing(s) == s.code \in ShiftKeys
Releasing(s) == s.code \in {k + Break : k \in ShiftKeys}

(* The driver's Shift when it will have handled the first n codes.         *)
ShiftAfter(n) ==
  \/ /\ "shift" \in held
     /\ \A k \in 1 .. n : ~Releasing(queue[k])
  \/ \E j \in 1 .. n : /\ Pressing(queue[j])
                       /\ \A k \in j + 1 .. n : ~Releasing(queue[k])

(* A keystroke is of a press, and the character meant by it.               *)
Means(k) ==
  /\ k.press \in DOMAIN typed
  /\ k.char = Char(typed[k.press].code, typed[k.press].shifted)

(* The answers of keyboard_init come before all other codes.               *)
FirstAnswers(i) == held = {} /\ \A j \in 1 .. i : queue[j].code = ACK

QueueMeans ==
  \A i \in DOMAIN queue :
    \/ queue[i].code = ACK /\ FirstAnswers(i)
    \/ /\ queue[i].press \in DOMAIN typed
       /\ queue[i].code = typed[queue[i].press].code
       /\ typed[queue[i].press].shifted <=> ShiftAfter(i - 1)
    \/ \E n \in DOMAIN typed : queue[i].code = typed[n].code + Break

DownTyped == \A code \in down : \E n \in DOMAIN typed : typed[n].code = code

Meaning ==
  OnlyPlainKeys =>
    /\ locks = {} /\ DownTyped /\ QueueMeans
    /\ down \cap ShiftKeys # {} <=> ShiftAfter(Len(queue))
    /\ driver_kbd_inputc.press > 0 => Means(driver_kbd_inputc)
    /\ pc = "clear" => Means(c)
    /\ \A i \in DOMAIN got : Means(got[i])

LEMMA MeaningSuffices == Meaning => CharIsMeant
  BY DEF Meaning, CharIsMeant, Means

LEMMA ShiftKeysAre == ShiftKeys = {42, 54}
  BY DEF ShiftKeys, MakeCodes, Key

LEMMA InitMeaning == Init => Meaning
  BY ShiftKeysAre DEF Init, Meaning, DownTyped, QueueMeans, FirstAnswers, ShiftAfter, Acks, Code, ACK,
     Pressing, Releasing, Break, None

(* The reader's steps hand on the character they find.                     *)
LEMMA ReaderMeaning ==
  ASSUME IInv, Meaning, Reader \/ ClockInterrupt \/ UNCHANGED vars
  PROVE  Meaning'
<1>1. UNCHANGED <<user, queue, driver, driver_kbd_inputc>>
  BY DEF Reader, ClockInterrupt, vars, slot, input_get_char, sti, TestAvailable,
     TestUnavailable, hlt, ReadChar, ClearAvailable, Goto
<1>2. OnlyPlainKeys' => OnlyPlainKeys
  BY <1>1 DEF OnlyPlainKeys, user
<1>3. OnlyPlainKeys' =>
        /\ (locks = {} /\ DownTyped)' /\ QueueMeans'
        /\ (down \cap ShiftKeys # {} <=> ShiftAfter(Len(queue)))'
        /\ (driver_kbd_inputc.press > 0 => Means(driver_kbd_inputc))'
  BY <1>1, <1>2 DEF Meaning, DownTyped, QueueMeans, FirstAnswers, ShiftAfter, Pressing,
     Releasing, Means, user, driver
<1>4. pc' = "clear" =>
        \/ pc = "clear" /\ c' = c
        \/ c' = driver_kbd_inputc /\ driver_kbd_inputc.press > 0
  BY DEF Reader, ClockInterrupt, vars, reader, input_get_char, sti, TestAvailable,
     TestUnavailable, hlt, ReadChar, ClearAvailable, Goto, Woken, IInv, FlagIsTrue
<1>5. got' = got \/ (pc = "clear" /\ got' = Append(got, c))
  BY DEF Reader, ClockInterrupt, vars, reader, input_get_char, sti, TestAvailable,
     TestUnavailable, hlt, ReadChar, ClearAvailable, Goto
<1>6. ASSUME OnlyPlainKeys' PROVE (pc = "clear" => Means(c))'
  BY <1>1, <1>2, <1>4, <1>6 DEF Meaning, Means, user
<1>7. ASSUME OnlyPlainKeys' PROVE (\A i \in DOMAIN got : Means(got[i]))'
  <2>1. CASE got' = got
    BY <1>1, <1>2, <1>7, <2>1 DEF Meaning, Means, user
  <2>2. CASE pc = "clear" /\ got' = Append(got, c)
    <3>1. got \in Seq(Keystrokes) /\ c \in Keystrokes
      BY DEF IInv, TypeOK
    <3>2. \A i \in DOMAIN got' : got'[i] = c \/ (i \in DOMAIN got /\ got'[i] = got[i])
      BY <2>2, <3>1
    <3> QED
      BY <1>1, <1>2, <1>7, <2>2, <3>2 DEF Meaning, Means, user
  <2> QED
    BY <1>5, <2>1, <2>2
<1> QED
  BY <1>3, <1>6, <1>7 DEF Meaning

(* A code that comes behind the others.                                    *)
LEMMA AppendShift ==
  ASSUME queue \in Seq(CodesQueued), NEW L \in Nat, L = Len(queue), NEW s, queue' = Append(queue, s), UNCHANGED held
  PROVE  /\ Len(queue') = L + 1 /\ queue'[L + 1] = s
         /\ DOMAIN queue = 1 .. L /\ DOMAIN queue' = 1 .. L + 1
         /\ \A k \in 1 .. L : queue'[k] = queue[k]
         /\ \A n \in 0 .. L : ShiftAfter(n)' <=> ShiftAfter(n)
         /\ ShiftAfter(L + 1)' <=> Pressing(s) \/ (ShiftAfter(L) /\ ~Releasing(s))
<1>1. /\ Len(queue') = L + 1 /\ queue'[L + 1] = s
      /\ DOMAIN queue = 1 .. L /\ DOMAIN queue' = 1 .. L + 1
      /\ \A k \in 1 .. L : queue'[k] = queue[k]
  OBVIOUS
<1>2. ASSUME NEW n \in 0 .. L PROVE ShiftAfter(n)' <=> ShiftAfter(n)
  <2>1. \A k \in 1 .. n : queue'[k] = queue[k]
    BY <1>1
  <2>2. \A j \in 1 .. n : \A k \in j + 1 .. n : queue'[k] = queue[k]
    BY <1>1
  <2> QED
    BY <2>1, <2>2 DEF ShiftAfter, Pressing, Releasing
<1>3. ShiftAfter(L + 1)' <=> Pressing(s) \/ (ShiftAfter(L) /\ ~Releasing(s))
  <2>1. (\A k \in 1 .. L + 1 : ~Releasing(queue'[k])) <=>
          (\A k \in 1 .. L : ~Releasing(queue[k])) /\ ~Releasing(s)
    BY <1>1 DEF Releasing
  <2>2. ASSUME NEW j \in 1 .. L
        PROVE  (\A k \in j + 1 .. L + 1 : ~Releasing(queue'[k])) <=>
                 (\A k \in j + 1 .. L : ~Releasing(queue[k])) /\ ~Releasing(s)
    BY <1>1 DEF Releasing
  <2>3. \A k \in (L + 1) + 1 .. L + 1 : FALSE
    BY <1>1
  <2>4. (\E j \in 1 .. L + 1 : /\ Pressing(queue'[j])
                               /\ \A k \in j + 1 .. L + 1 : ~Releasing(queue'[k])) <=>
          \/ Pressing(s)
          \/ \E j \in 1 .. L : /\ Pressing(queue[j])
                               /\ \A k \in j + 1 .. L : ~Releasing(queue[k])
                               /\ ~Releasing(s)
    BY <1>1, <2>2, <2>3 DEF Pressing
  <2> QED
    BY <2>1, <2>4 DEF ShiftAfter
<1> QED
  BY <1>1, <1>2, <1>3

LEMMA PressMeaning ==
  ASSUME IInv, Meaning, NEW code \in Keyboard, Press(code), OnlyPlainKeys'
  PROVE  Meaning'
<1> DEFINE s == Code(code, Len(typed) + 1)
           t == [code |-> code, shifted |-> down \cap ShiftKeys # {}]
<1>0. PICK L \in Nat : L = Len(queue)
  BY DEF IInv, TypeOK
<1>1. /\ queue' = Append(queue, s) /\ typed' = Append(typed, t)
      /\ down' = down \cup {code} /\ UNCHANGED <<driver, slot, pc, reader>>
  BY DEF Press
<1>2. /\ queue \in Seq(CodesQueued) /\ typed \in Seq([code : Keyboard, shifted : BOOLEAN])
      /\ code \in MakeCodes /\ Len(queue) \in Nat
  BY KeyboardAssumption DEF IInv, TypeOK
<1>3. /\ \A n \in DOMAIN typed : n \in DOMAIN typed' /\ typed'[n] = typed[n]
      /\ Len(typed) + 1 \in DOMAIN typed' /\ typed'[Len(typed) + 1] = t
  <2> HIDE DEF t
  <2> QED BY <1>1, <1>2
<1>4. OnlyPlainKeys
  BY <1>3 DEF OnlyPlainKeys
<1>5. ~Releasing(s) /\ (Pressing(s) <=> code \in ShiftKeys)
  BY <1>2, ShiftKeysAre DEF Releasing, Pressing, Code, Break, MakeCodes
<1>6. /\ Len(queue') = L + 1 /\ queue'[L + 1] = s
      /\ DOMAIN queue = 1 .. L /\ DOMAIN queue' = 1 .. L + 1
      /\ \A k \in 1 .. L : queue'[k] = queue[k]
      /\ \A n \in 0 .. L : ShiftAfter(n)' <=> ShiftAfter(n)
      /\ ShiftAfter(L + 1)' <=> Pressing(s) \/ (ShiftAfter(L) /\ ~Releasing(s))
  <2> HIDE DEF s
  <2> QED BY <1>0, <1>1, <1>2, AppendShift DEF driver
<1>7. DownTyped' /\ locks' = {}
  BY <1>1, <1>3, <1>4 DEF Meaning, DownTyped, driver
<1>8. (down \cap ShiftKeys # {} <=> ShiftAfter(Len(queue)))'
  BY <1>0, <1>1, <1>4, <1>5, <1>6 DEF Meaning
<1>9. QueueMeans'
  <2>1. SUFFICES ASSUME NEW i \in DOMAIN queue'
        PROVE  \/ queue'[i].code = ACK /\ FirstAnswers(i)'
               \/ /\ queue'[i].press \in DOMAIN typed'
                  /\ queue'[i].code = typed'[queue'[i].press].code
                  /\ typed'[queue'[i].press].shifted <=> ShiftAfter(i - 1)'
               \/ \E n \in DOMAIN typed' : queue'[i].code = typed'[n].code + Break
    BY DEF QueueMeans
  <2>2. CASE i = L + 1
    <3>1. typed'[s.press] = t /\ s.press \in DOMAIN typed' /\ s.code = code
      BY <1>3 DEF Code
    <3>2. ShiftAfter(i - 1)' <=> ShiftAfter(L)
      BY <1>6, <2>2
    <3>3. t.shifted <=> ShiftAfter(L)
      BY <1>0, <1>4 DEF Meaning
    <3> QED
      BY <1>6, <2>2, <3>1, <3>2, <3>3
  <2>3. CASE i \in DOMAIN queue
    <3>1. i \in 1 .. L /\ i - 1 \in 0 .. L /\ queue'[i] = queue[i]
      BY <1>6, <2>3
    <3>2. FirstAnswers(i) => FirstAnswers(i)'
      <4>1. \A j \in 1 .. i : queue'[j] = queue[j]
        BY <1>6, <3>1
      <4> QED
        BY <1>1, <4>1 DEF FirstAnswers, driver
    <3> QED
      BY <1>3, <1>4, <1>6, <2>3, <3>1, <3>2 DEF Meaning, QueueMeans
  <2> QED
    BY <1>6, <2>2, <2>3
<1>10. \A k : Means(k) => Means(k)'
  BY <1>3 DEF Means
<1> QED
  BY <1>1, <1>4, <1>7, <1>8, <1>9, <1>10 DEF Meaning, slot, reader

LEMMA ReleaseMeaning ==
  ASSUME IInv, Meaning, NEW code \in Keyboard, Release(code), OnlyPlainKeys'
  PROVE  Meaning'
<1> DEFINE s == Code(code + Break, 0)
<1>0. PICK L \in Nat : L = Len(queue)
  BY DEF IInv, TypeOK
<1>1. /\ queue' = Append(queue, s) /\ code \in down /\ down' = down \ {code}
      /\ UNCHANGED <<typed, driver, slot, pc, reader>> /\ queue \in Seq(CodesQueued)
  BY DEF Release, IInv, TypeOK
<1>2. OnlyPlainKeys /\ code \in MakeCodes /\ DownTyped
  BY <1>1, KeyboardAssumption DEF OnlyPlainKeys, Meaning
<1>3. ~Pressing(s) /\ (Releasing(s) <=> code \in ShiftKeys)
  BY <1>2, ShiftKeysAre DEF Releasing, Pressing, Code, Break, MakeCodes
<1>4. /\ Len(queue') = L + 1 /\ queue'[L + 1] = s
      /\ DOMAIN queue = 1 .. L /\ DOMAIN queue' = 1 .. L + 1
      /\ \A k \in 1 .. L : queue'[k] = queue[k]
      /\ \A n \in 0 .. L : ShiftAfter(n)' <=> ShiftAfter(n)
      /\ ShiftAfter(L + 1)' <=> Pressing(s) \/ (ShiftAfter(L) /\ ~Releasing(s))
  <2> HIDE DEF s
  <2> QED BY <1>0, <1>1, AppendShift DEF driver
<1>5. (down \cap ShiftKeys # {} <=> ShiftAfter(Len(queue)))'
  <2>1. code \in ShiftKeys => down' \cap ShiftKeys = {}
    BY <1>1, <1>2 DEF DownTyped, OnlyPlainKeys
  <2>2. code \notin ShiftKeys => (down' \cap ShiftKeys # {} <=> ShiftAfter(L))
    BY <1>0, <1>1, <1>2 DEF Meaning
  <2>3. ShiftAfter(L + 1)' <=> down' \cap ShiftKeys # {}
    BY <1>3, <1>4, <2>1, <2>2
  <2> QED
    BY <1>4, <2>3
<1>6. QueueMeans'
  <2>1. SUFFICES ASSUME NEW i \in DOMAIN queue'
        PROVE  \/ queue'[i].code = ACK /\ FirstAnswers(i)'
               \/ /\ queue'[i].press \in DOMAIN typed'
                  /\ queue'[i].code = typed'[queue'[i].press].code
                  /\ typed'[queue'[i].press].shifted <=> ShiftAfter(i - 1)'
               \/ \E n \in DOMAIN typed' : queue'[i].code = typed'[n].code + Break
    BY DEF QueueMeans
  <2>2. CASE i = L + 1
    BY <1>1, <1>2, <1>4, <2>2 DEF DownTyped, Code
  <2>3. CASE i \in DOMAIN queue
    <3>1. i \in 1 .. L /\ i - 1 \in 0 .. L /\ queue'[i] = queue[i]
      BY <1>4, <2>3
    <3>2. FirstAnswers(i) => FirstAnswers(i)'
      <4>1. \A j \in 1 .. i : queue'[j] = queue[j]
        BY <1>4, <3>1
      <4> QED
        BY <1>1, <4>1 DEF FirstAnswers, driver
    <3> QED
      BY <1>1, <1>2, <1>4, <2>3, <3>1, <3>2 DEF Meaning, QueueMeans
  <2> QED
    BY <1>4, <2>2, <2>3
<1> QED
  BY <1>1, <1>2, <1>5, <1>6 DEF Meaning, DownTyped, Means, driver, slot, reader

(* The first code is handled.                                              *)
LEMMA TailShift ==
  ASSUME NEW L \in Nat, \A k \in 1 .. L : queue'[k] = queue[k + 1],
         "shift" \in held' <=> Pressing(queue[1]) \/ ("shift" \in held /\ ~Releasing(queue[1]))
  PROVE  \A n \in 0 .. L : ShiftAfter(n)' <=> ShiftAfter(n + 1)
<1> SUFFICES ASSUME NEW n \in 0 .. L PROVE ShiftAfter(n)' <=> ShiftAfter(n + 1)
  OBVIOUS
<1> DEFINE Clear(j) == \A k \in j + 1 .. n : ~Releasing(queue'[k])
           ClearBefore(j) == \A k \in j + 1 .. n + 1 : ~Releasing(queue[k])
<1>1. \A j \in 0 .. n : Clear(j) <=> ClearBefore(j + 1)
  <2>1. SUFFICES ASSUME NEW j \in 0 .. n PROVE Clear(j) <=> ClearBefore(j + 1)
    OBVIOUS
  <2>2. ASSUME Clear(j), NEW k \in j + 2 .. n + 1 PROVE ~Releasing(queue[k])
    <3>1. k - 1 \in j + 1 .. n /\ k - 1 \in 1 .. L /\ (k - 1) + 1 = k
      OBVIOUS
    <3>2. queue'[k - 1] = queue[k]
      BY <3>1
    <3> QED
      BY <2>2, <3>1, <3>2 DEF Releasing
  <2>3. ASSUME ClearBefore(j + 1), NEW k \in j + 1 .. n PROVE ~Releasing(queue'[k])
    BY <2>3 DEF Releasing
  <2> QED
    BY <2>2, <2>3
<1>2. ClearBefore(0) <=> ~Releasing(queue[1]) /\ ClearBefore(1)
  OBVIOUS
<1>3. ShiftAfter(n)' <=> \/ "shift" \in held' /\ Clear(0)
                         \/ \E j \in 1 .. n : Pressing(queue'[j]) /\ Clear(j)
  BY DEF ShiftAfter, Releasing, Pressing
<1>4. ShiftAfter(n + 1) <=> \/ "shift" \in held /\ ClearBefore(0)
                            \/ \E j \in 1 .. n + 1 : Pressing(queue[j]) /\ ClearBefore(j)
  BY DEF ShiftAfter
<1> HIDE DEF Clear, ClearBefore
<1>5. (\E j \in 1 .. n + 1 : Pressing(queue[j]) /\ ClearBefore(j)) <=>
        \/ Pressing(queue[1]) /\ ClearBefore(1)
        \/ \E j \in 1 .. n : Pressing(queue'[j]) /\ Clear(j)
  <2>1. ASSUME NEW j \in 1 .. n + 1, j # 1, Pressing(queue[j]), ClearBefore(j)
        PROVE  \E i \in 1 .. n : Pressing(queue'[i]) /\ Clear(i)
    <3>1. j - 1 \in 1 .. n /\ j - 1 \in 1 .. L /\ j - 1 \in 0 .. n /\ (j - 1) + 1 = j
      BY <2>1
    <3> QED
      BY <2>1, <3>1, <1>1 DEF Pressing
  <2>2. ASSUME NEW j \in 1 .. n, Pressing(queue'[j]), Clear(j)
        PROVE  Pressing(queue[j + 1]) /\ ClearBefore(j + 1) /\ j + 1 \in 1 .. n + 1
    BY <2>2, <1>1 DEF Pressing
  <2> QED
    BY <2>1, <2>2
<1>6. Clear(0) <=> ClearBefore(1)
  BY <1>1
<1> QED
  BY <1>2, <1>3, <1>4, <1>5, <1>6

(* Of a plain key the table has its own row.                               *)
LEMMA FoundPlain ==
  ASSUME NEW code \in MakeCodes, Label(code) = code
  PROVE  Found(code) = {[key |-> Key(code), label |-> code]}
BY DEF Found, Label, MakeCodes, RowCount

LEMMA KeyIsShift ==
  ASSUME NEW code \in MakeCodes
  PROVE  Key(code) = "shift" <=> code \in ShiftKeys
BY DEF ShiftKeys

(* What the handler does with the first code, when only plain keys are used*)
LEMMA HandlerMeaning ==
  ASSUME IInv, Meaning, isr_keyboard_int, OnlyPlainKeys
  PROVE  /\ queue' = Tail(queue) /\ locks' = {}
         /\ "shift" \in held' <=>
              Pressing(queue[1]) \/ ("shift" \in held /\ ~Releasing(queue[1]))
         /\ queue[1].code = ACK => held' = {}
         /\ \/ UNCHANGED slot
            \/ Means(driver_kbd_inputc')
<1> DEFINE h == queue[1]
<1>1. /\ queue \in Seq(CodesQueued) /\ 1 \in DOMAIN queue /\ h = Head(queue)
      /\ typed \in Seq([code : Keyboard, shifted : BOOLEAN])
  BY DEF IInv, TypeOK, isr_keyboard_int
<1>2. \A n \in DOMAIN typed : /\ typed[n].code \in MakeCodes /\ typed[n].shifted \in BOOLEAN
                              /\ Label(typed[n].code) = typed[n].code
                              /\ Key(typed[n].code) \notin Locks
  <2> DEFINE P == [code : Keyboard, shifted : BOOLEAN]
  <2>1. \A n \in DOMAIN typed : typed[n] \in P
    <3>1. typed \in Seq(P)
      BY <1>1
    <3> HIDE DEF P
    <3> QED
      BY <3>1
  <2>2. Keyboard \subseteq MakeCodes
    BY KeyboardAssumption
  <2> QED
    BY <2>1, <2>2 DEF OnlyPlainKeys
<1>3. locks = {} /\ QueueMeans
  BY DEF Meaning
<1> HIDE DEF h
<1>4. CASE h.code = ACK
  <2>1. held = {}
    <3>1. \A n \in DOMAIN typed : ACK # typed[n].code /\ ACK # typed[n].code + Break
      BY <1>2 DEF ACK, Break, MakeCodes
    <3>2. FirstAnswers(1)
      BY <1>1, <1>3, <1>4, <3>1 DEF QueueMeans, h
    <3> QED
      BY <3>2 DEF FirstAnswers
  <2>2. ~Pressing(h)
    BY <1>4, ShiftKeysAre DEF Pressing, ACK
  <2>3. /\ queue' = Tail(queue) /\ held' = {} /\ UNCHANGED <<locks, slot>>
    BY <1>1, <1>4, <2>1 DEF isr_keyboard_int, BreakKey, ACK, Break
  <2> QED
    BY <1>3, <2>1, <2>2, <2>3 DEF h
<1>5. CASE \E n \in DOMAIN typed : h.code = typed[n].code + Break
  <2>1. PICK n \in DOMAIN typed : h.code = typed[n].code + Break
    BY <1>5
  <2> DEFINE code == typed[n].code
  <2>2. code \in MakeCodes /\ h.code - Break = code /\ h.code >= Break /\ h.code # ACK
    BY <1>2, <2>1 DEF MakeCodes, Break, ACK
  <2>3. PICK entry \in Found(code) : BreakKey(entry)
    BY <1>1, <2>2 DEF isr_keyboard_int
  <2>4. entry.key = Key(code)
    BY <1>2, <2>2, <2>3, FoundPlain
  <2>5. ~Pressing(h) /\ (Releasing(h) <=> code \in ShiftKeys)
    BY <2>1, <2>2, ShiftKeysAre DEF Pressing, Releasing, Break, MakeCodes
  <2> QED
    BY <1>3, <2>2, <2>3, <2>4, <2>5, KeyIsShift DEF BreakKey, h
<1>6. CASE /\ h.press \in DOMAIN typed /\ h.code = typed[h.press].code
           /\ typed[h.press].shifted <=> ShiftAfter(1 - 1)
  <2> DEFINE code == h.code
  <2>1. code \in MakeCodes /\ ~(code >= Break) /\ code # ACK /\ Label(code) = code
        /\ Key(code) \notin Locks
    BY <1>2, <1>6 DEF MakeCodes, Break, ACK
  <2>2. PICK entry \in Found(code) : ModifierKey(entry) \/ LedKey(entry) \/ CharacterKey(entry)
    BY <1>1, <2>1 DEF isr_keyboard_int
  <2>3. entry.key = Key(code) /\ entry.label = code
    BY <2>1, <2>2, FoundPlain
  <2>4. ~Releasing(h) /\ (Pressing(h) <=> code \in ShiftKeys)
    BY <2>1, ShiftKeysAre DEF Pressing, Releasing, Break, MakeCodes
  <2>5. CASE ModifierKey(entry)
    BY <1>3, <2>1, <2>3, <2>4, <2>5, KeyIsShift DEF ModifierKey, h
  <2>6. CASE CharacterKey(entry)
    <3>1. typed[h.press].shifted <=> "shift" \in held
      BY <1>6 DEF ShiftAfter
    <3>2. Upper = typed[h.press].shifted
      BY <1>2, <1>3, <1>6, <3>1 DEF Upper
    <3>3. Means(driver_kbd_inputc')
      BY <1>1, <1>6, <2>3, <2>6, <3>2 DEF CharacterKey, Means
    <3>4. code \notin ShiftKeys
      BY <2>1, <2>3, <2>6, KeyIsShift DEF CharacterKey
    <3> QED
      BY <1>3, <2>1, <2>4, <2>6, <3>3, <3>4 DEF CharacterKey, driver, h
  <2>7. ~LedKey(entry)
    BY <2>1, <2>3 DEF LedKey
  <2> QED
    BY <2>2, <2>5, <2>6, <2>7
<1> QED
  BY <1>1, <1>3, <1>4, <1>5, <1>6 DEF QueueMeans, h

LEMMA HandlerKeepsMeaning ==
  ASSUME IInv, Meaning, isr_keyboard_int, OnlyPlainKeys'
  PROVE  Meaning'
<1>1. /\ UNCHANGED <<patient, down, typed, c, got>> /\ pc' = Woken /\ queue # <<>>
      /\ queue \in Seq(CodesQueued)
  BY DEF isr_keyboard_int, user, reader, IInv, TypeOK
<1>2. OnlyPlainKeys
  BY <1>1 DEF OnlyPlainKeys
<1>3. /\ queue' = Tail(queue) /\ locks' = {}
      /\ "shift" \in held' <=>
           Pressing(queue[1]) \/ ("shift" \in held /\ ~Releasing(queue[1]))
      /\ queue[1].code = ACK => held' = {}
      /\ \/ UNCHANGED slot
         \/ Means(driver_kbd_inputc')
  BY <1>2, HandlerMeaning
<1>4. PICK L \in Nat : Len(queue) = L + 1
  <2>1. Len(queue) \in Nat /\ Len(queue) # 0
    BY <1>1
  <2> QED
    BY <2>1
<1>5. /\ Len(queue') = L /\ DOMAIN queue' = 1 .. L /\ DOMAIN queue = 1 .. L + 1
      /\ \A k \in 1 .. L : queue'[k] = queue[k + 1]
  BY <1>1, <1>3, <1>4
<1>6. \A n \in 0 .. L : ShiftAfter(n)' <=> ShiftAfter(n + 1)
  BY <1>3, <1>5, TailShift
<1>7. (down \cap ShiftKeys # {} <=> ShiftAfter(Len(queue)))'
  <2>1. ShiftAfter(L)' <=> ShiftAfter(L + 1)
    BY <1>6
  <2>2. down \cap ShiftKeys # {} <=> ShiftAfter(L + 1)
    BY <1>2, <1>4 DEF Meaning
  <2> QED
    BY <1>1, <1>5, <2>1, <2>2
<1>8. QueueMeans'
  <2>1. SUFFICES ASSUME NEW i \in DOMAIN queue'
        PROVE  \/ queue'[i].code = ACK /\ FirstAnswers(i)'
               \/ /\ queue'[i].press \in DOMAIN typed'
                  /\ queue'[i].code = typed'[queue'[i].press].code
                  /\ typed'[queue'[i].press].shifted <=> ShiftAfter(i - 1)'
               \/ \E n \in DOMAIN typed' : queue'[i].code = typed'[n].code + Break
    BY DEF QueueMeans
  <2>2. /\ i \in 1 .. L /\ i - 1 \in 0 .. L /\ i + 1 \in DOMAIN queue
        /\ (i + 1) - 1 = i /\ (i - 1) + 1 = i
    BY <1>5
  <2>3. ShiftAfter(i - 1)' <=> ShiftAfter(i)
    BY <1>6, <2>2
  <2>4. queue'[i] = queue[i + 1]
    BY <1>5, <2>2
  <2>5. FirstAnswers(i + 1) => FirstAnswers(i)'
    <3>1. SUFFICES ASSUME FirstAnswers(i + 1) PROVE FirstAnswers(i)'
      OBVIOUS
    <3>2. queue[1].code = ACK /\ \A j \in 1 .. i : queue'[j].code = ACK
      BY <1>5, <2>2, <3>1 DEF FirstAnswers
    <3> QED
      BY <1>3, <3>2 DEF FirstAnswers
  <2>6. \/ queue[i + 1].code = ACK /\ FirstAnswers(i + 1)
        \/ /\ queue[i + 1].press \in DOMAIN typed
           /\ queue[i + 1].code = typed[queue[i + 1].press].code
           /\ typed[queue[i + 1].press].shifted <=> ShiftAfter(i)
        \/ \E n \in DOMAIN typed : queue[i + 1].code = typed[n].code + Break
    BY <1>2, <2>2 DEF Meaning, QueueMeans
  <2> QED
    BY <1>1, <2>3, <2>4, <2>5, <2>6
<1>9. (driver_kbd_inputc.press > 0 => Means(driver_kbd_inputc))'
  BY <1>1, <1>2, <1>3 DEF Meaning, Means, slot
<1> QED
  BY <1>1, <1>2, <1>3, <1>7, <1>8, <1>9 DEF Meaning, DownTyped, Means, Woken

(* The character of a press is the one meant by the Shift held at it,      *)
(* however late its code is read and whatever is typed meanwhile.          *)
THEOREM CharactersAreMeant == Spec => []CharIsMeant
<1>1. IInv /\ Meaning /\ [Next]_vars => Meaning'
  <2>1. SUFFICES ASSUME IInv, Meaning, [Next]_vars, OnlyPlainKeys' PROVE Meaning'
    BY DEF Meaning
  <2> QED
    BY <2>1, ReaderMeaning, PressMeaning, ReleaseMeaning, HandlerKeepsMeaning DEF Next, User
<1> QED
  BY <1>1, InitMeaning, MeaningSuffices, InitIInv, NextIInv, PTL DEF Spec
=============================================================================
