-------------------------------- MODULE Heap --------------------------------
(***************************************************************************)
(* The first-fit allocator of libc/stdlib/alloc.c over the node list that  *)
(* common/sys/heap.c creates.  One call runs at a time (the heap is only   *)
(* used from the main context), and its loops over the list are modelled   *)
(* one iteration per step, with the same cursors as the code.              *)
(***************************************************************************)
EXTENDS Integers

CONSTANTS
  HeapBeginning,   (* &heap_addr_begin, the linker's symbol                *)
  HEAP_MAX_SIZE,   (* bytes of the arena                                   *)
  Word,            (* 2^32: size_t and pointers wrap here                  *)
  Sizes,           (* sizes a client asks of malloc and realloc            *)
  CallocArgs       (* <<nmemb, size>> pairs a client asks of calloc        *)

(* sizeof(heap_node_t): a pointer, a size_t and a bool padded to a word.   *)
Header == 12

NULL == 0

ASSUME HeapAssumption ==
  /\ HeapBeginning \in Nat \ {0}
  /\ HEAP_MAX_SIZE \in Nat
  /\ HEAP_MAX_SIZE >= Header
  /\ Word \in Nat
  /\ HeapBeginning + HEAP_MAX_SIZE <= Word
  /\ Sizes \subseteq Nat
  /\ \A s \in Sizes : s < Word
  /\ CallocArgs \subseteq Nat \X Nat

HeapEnd == HeapBeginning + HEAP_MAX_SIZE

(* The bytes a client may mean to get from one call.                       *)
Requests == Sizes \cup {a[1] * a[2] : a \in CallocArgs}

(* A pointer the heap never hands out: "probably corrupted", says realloc. *)
Corrupted == HeapEnd + 1

VARIABLES
  nodes,   (* [address of a node -> [next, size, used]]: heap_list         *)
  live,    (* [pointer the client owns -> bytes it asked for]              *)
  freed,   (* the pointer the client freed in its last calls, or NULL      *)
  pc,      (* the function that runs                                       *)
  caller,  (* who called it: the client or realloc                         *)
  ptr,     (* its parameter ptr                                            *)
  size,    (* its parameter size                                           *)
  want,    (* the bytes the client means to get, before any wrap           *)
  cur,     (* current_node                                                 *)
  prev,    (* previous_node of free                                        *)
  result   (* what malloc returned to realloc                              *)

locals == <<caller, ptr, size, want, cur, prev, result>>
vars == <<nodes, live, freed, pc, locals>>

-----------------------------------------------------------------------------
(* Address arithmetic on a node list ns.                                   *)

Mem(n) == n + Header                       \* node + 1
EndOf(ns, n) == Mem(n) + ns[n].size

With(p, s) == [q \in DOMAIN live \cup {p} |-> IF q = p THEN s ELSE live[q]]
Without(p) == [q \in DOMAIN live \ {p} |-> live[q]]

(* (current_node->next - next_node - 1) * sizeof(heap_node_t), where the   *)
(* two nodes are d bytes apart.  When d is no multiple of the node size    *)
(* the C subtraction is undefined: the exact division compilers emit drops *)
(* the two low bits of d, a truncating division drops d % Header.          *)
SizesFromPointers(d) ==
  { 4 * (d \div 4) - Header, Header * (d \div Header) - Header }

(* Mutant of RemainderSizes: the header of the tail node is forgotten.     *)
RemainderSizesMutant(n, s) == { HeapEnd - (Mem(n) + s) }

(* The sizes the second half of node n may get when s bytes are cut off.   *)
RemainderSizes(n, s) ==
  LET rest == Mem(n) + s
  IN  IF nodes[n].next = NULL
        THEN { HeapEnd - Mem(rest) }
        ELSE SizesFromPointers(nodes[n].next - rest)

(* Node n keeps s bytes; the rest becomes a free node of r bytes.          *)
Split(n, s, r) ==
  LET rest == Mem(n) + s
  IN  [m \in DOMAIN nodes \cup {rest} |->
        IF m = n THEN [next |-> rest, size |-> s, used |-> TRUE]
        ELSE IF m = rest
          THEN [next |-> nodes[n].next, size |-> r, used |-> FALSE]
          ELSE nodes[m]]

(* Node n takes over node m, which follows it.                             *)
Absorb(ns, n, m) ==
  [k \in DOMAIN ns \ {m} |->
    IF k = n THEN [next |-> ns[m].next,
                   size |-> ns[n].size + Header + ns[m].size,
                   used |-> ns[n].used]
    ELSE ns[k]]

MergeNext(ns, n) ==
  IF ns[n].next # NULL /\ ~ ns[ns[n].next].used
    THEN Absorb(ns, n, ns[n].next) ELSE ns

(* Mutant of MergePrevious: the backward merge is left out.                *)
MergePreviousMutant(ns, p, n) == ns

MergePrevious(ns, p, n) ==
  IF p # NULL /\ ~ ns[p].used THEN Absorb(ns, p, n) ELSE ns

(* The list after free has released node n, whose predecessor is p.        *)
Released(p, n) ==
  MergePrevious(MergeNext([nodes EXCEPT ![n].used = FALSE], n), p, n)

-----------------------------------------------------------------------------
(* heap_init. *)
Init ==
  /\ nodes = [n \in {HeapBeginning} |->
                [next |-> NULL, size |-> HEAP_MAX_SIZE - Header,
                 used |-> FALSE]]
  /\ live = [p \in {} |-> 0]
  /\ freed = NULL
  /\ pc = "idle"
  /\ caller = "client"
  /\ ptr = NULL /\ size = 0 /\ want = 0
  /\ cur = NULL /\ prev = NULL /\ result = NULL

(* The client enters function f with the parameters p and s.               *)
Enter(f, p, s, w) ==
  /\ pc = "idle"
  /\ pc' = f
  /\ ptr' = p /\ size' = s /\ want' = w
  /\ cur' = HeapBeginning
  /\ freed' = IF f = "free" THEN freed ELSE NULL
  /\ UNCHANGED <<nodes, live, caller, prev, result>>

(* Control goes back to the client, who now owns the blocks l.             *)
Return(l) ==
  /\ pc' = "idle"
  /\ live' = l
  /\ caller' = "client"
  /\ ptr' = NULL /\ size' = 0 /\ want' = 0
  /\ cur' = NULL /\ prev' = NULL /\ result' = NULL

(* panic() prints and calls hang_forever().                                *)
Panic == pc' = "panic" /\ UNCHANGED <<nodes, live, freed, locals>>

CallMalloc == \E s \in Sizes : Enter("malloc", NULL, s, s)

(* calloc hands nmemb * size, a 32-bit product, to malloc.                 *)
CallCalloc ==
  \E a \in CallocArgs :
    Enter("malloc", NULL, (a[1] * a[2]) % Word, a[1] * a[2])

CallRealloc ==
  \E p \in DOMAIN live \cup {NULL, Corrupted}, s \in Sizes :
    Enter(IF p = NULL THEN "malloc" ELSE "realloc", p, s, s)

(* A correct client frees what it owns or NULL; a wrong one frees again    *)
(* what it has just freed, or a corrupted pointer.                         *)
CallFree ==
  \E p \in DOMAIN live \cup {NULL, freed, Corrupted} : Enter("free", p, 0, 0)

-----------------------------------------------------------------------------
(* malloc. *)

(* Mutant of Suits: the header is counted as usable room.                  *)
SuitsMutant(n) == ~ nodes[n].used /\ nodes[n].size + Header >= size

Suits(n) == ~ nodes[n].used /\ nodes[n].size >= size

(* malloc returns p: to the client, or to realloc, which goes on to copy   *)
(* out of the node it had found.                                           *)
MallocReturns(p) ==
  IF caller = "client"
    THEN /\ Return(IF p = NULL THEN live ELSE With(p, want))
         /\ UNCHANGED freed
    ELSE /\ pc' = "copy"
         /\ result' = p
         /\ cur' = ptr - Header
         /\ UNCHANGED <<live, freed, caller, ptr, size, want, prev>>

MallocSkip ==
  /\ pc = "malloc" /\ ~ Suits(cur) /\ nodes[cur].next # NULL
  /\ cur' = nodes[cur].next
  /\ UNCHANGED <<nodes, live, freed, pc, caller, ptr, size, want, prev,
                 result>>

MallocFail ==
  /\ pc = "malloc" /\ ~ Suits(cur) /\ nodes[cur].next = NULL
  /\ MallocReturns(NULL)
  /\ UNCHANGED nodes

MallocWhole ==
  /\ pc = "malloc" /\ Suits(cur)
  /\ nodes[cur].size <= size + Header
  /\ nodes' = [nodes EXCEPT ![cur].used = TRUE]
  /\ MallocReturns(Mem(cur))

MallocSplit ==
  /\ pc = "malloc" /\ Suits(cur)
  /\ nodes[cur].size > size + Header
  /\ \E r \in RemainderSizes(cur, size) : nodes' = Split(cur, size, r)
  /\ MallocReturns(Mem(cur))

-----------------------------------------------------------------------------
(* realloc. *)

ReallocSkip ==
  /\ pc = "realloc" /\ Mem(cur) # ptr /\ nodes[cur].next # NULL
  /\ cur' = nodes[cur].next
  /\ UNCHANGED <<nodes, live, freed, pc, caller, ptr, size, want, prev,
                 result>>

(* No node holds ptr: NULL comes back and nothing changes.                 *)
ReallocMiss ==
  /\ pc = "realloc" /\ Mem(cur) # ptr /\ nodes[cur].next = NULL
  /\ Return(live)
  /\ UNCHANGED <<nodes, freed>>

(* Mutant of ReallocKeep: the node's own header is counted as room.        *)
ReallocKeepMutant ==
  /\ pc = "realloc" /\ Mem(cur) = ptr
  /\ size <= nodes[cur].size + Header
  /\ Return(With(ptr, want))
  /\ UNCHANGED <<nodes, freed>>

(* The node is large enough already: the same pointer comes back.          *)
ReallocKeep ==
  /\ pc = "realloc" /\ Mem(cur) = ptr
  /\ size <= nodes[cur].size
  /\ Return(With(ptr, want))
  /\ UNCHANGED <<nodes, freed>>

(* A larger node is needed: realloc calls malloc.                          *)
ReallocGrow ==
  /\ pc = "realloc" /\ Mem(cur) = ptr
  /\ size > nodes[cur].size
  /\ pc' = "malloc" /\ caller' = "realloc"
  /\ cur' = HeapBeginning
  /\ UNCHANGED <<nodes, live, freed, ptr, size, want, prev, result>>

(* Mutant of ReallocCopy: the old block is not freed.                      *)
ReallocCopyMutant ==
  /\ pc = "copy" /\ result # NULL
  /\ Return([q \in (DOMAIN live \ {ptr}) \cup {result} |->
              IF q = result THEN want ELSE live[q]])
  /\ UNCHANGED <<nodes, freed>>

(* realloc copies the old node's bytes, then frees it; memcpy asserts that *)
(* its destination is not NULL.                                            *)
ReallocCopy ==
  /\ pc = "copy" /\ result # NULL
  /\ pc' = "free"
  /\ cur' = HeapBeginning
  /\ UNCHANGED <<nodes, live, freed, caller, ptr, size, want, prev, result>>

ReallocCopyPanic == pc = "copy" /\ result = NULL /\ Panic

-----------------------------------------------------------------------------
(* free. *)

(* Mutant of FreeSkip: the cursor is not advanced.                         *)
FreeSkipMutant ==
  /\ pc = "free" /\ Mem(cur) # ptr /\ nodes[cur].next # NULL
  /\ prev' = cur
  /\ UNCHANGED <<nodes, live, freed, pc, caller, ptr, size, want, cur,
                 result>>

FreeSkip ==
  /\ pc = "free" /\ Mem(cur) # ptr /\ nodes[cur].next # NULL
  /\ prev' = cur /\ cur' = nodes[cur].next
  /\ UNCHANGED <<nodes, live, freed, pc, caller, ptr, size, want, result>>

(* No node holds ptr: free returns and nothing is said.                    *)
FreeMiss ==
  /\ pc = "free" /\ Mem(cur) # ptr /\ nodes[cur].next = NULL
  /\ Return(live)
  /\ UNCHANGED <<nodes, freed>>

FreeHit ==
  /\ pc = "free" /\ Mem(cur) = ptr /\ nodes[cur].used
  /\ nodes' = Released(prev, cur)
  /\ freed' = ptr
  /\ Return(IF caller = "client" THEN Without(ptr)
            ELSE [q \in (DOMAIN live \ {ptr}) \cup {result} |->
                    IF q = result THEN want ELSE live[q]])

FreePanic ==
  /\ pc = "free" /\ Mem(cur) = ptr /\ ~ nodes[cur].used
  /\ Panic

(* hang_forever: cli and hlt, for ever.                                    *)
HangForever == pc = "panic" /\ UNCHANGED vars

-----------------------------------------------------------------------------
Call == CallMalloc \/ CallCalloc \/ CallRealloc \/ CallFree

Run ==
  \/ MallocSkip \/ MallocFail \/ MallocWhole \/ MallocSplit
  \/ ReallocSkip \/ ReallocMiss \/ ReallocKeep \/ ReallocGrow
  \/ ReallocCopy \/ ReallocCopyPanic
  \/ FreeSkip \/ FreeMiss \/ FreeHit \/ FreePanic

Next == Call \/ Run \/ HangForever

(* A call that has been entered keeps running: the code between entry and  *)
(* return has no wait of any kind.                                         *)
Spec == Init /\ [][Next]_vars /\ WF_vars(Run)
=============================================================================
