----------------------------- MODULE MCLibrary -----------------------------
(* The library for TLC: lists and hlists of a few nodes, short formats of  *)
(* every directive, every number of a few bits in every base, and every    *)
(* copy in a small memory.                                                 *)
EXTENDS ListsProps, HlistsProps, LibcProps

CONSTANT Widths

Args(conv, long) ==
  CASE conv = 37  -> {<<>>}
    [] conv = 99  -> {97, 37}
    [] conv = 115 -> {NullPointer, <<>>, <<37, 100>>}
    [] conv = 100 -> LET w == IF long THEN LongWord ELSE Word
                     IN {-(w \div 2), -1, 0, w \div 2 - 1}
    [] OTHER -> {0, 10, (IF long THEN LongWord ELSE Word) - 1}

Directives(literals, widths) ==
  UNION {{[literal |-> l, showbase |-> b, width |-> w, long |-> g, conv |-> c,
           arg |-> a] : a \in Args(c, g), l \in literals, b \in BOOLEAN, w \in widths} :
         c \in Conversions, g \in BOOLEAN}

PrintfCalls ==
  {Printf(<<d>>, t) : d \in Directives({<<>>, <<97>>}, Widths), t \in {<<>>, <<98>>}}
  \cup {Printf(<<d, e>>, <<>>) : d \in Directives({<<97>>}, {0}),
                                 e \in Directives({<<>>}, {0, 3})}
  \cup {Printf(<<[literal |-> <<97>>, showbase |-> FALSE, width |-> 0, long |-> FALSE,
                  conv |-> 122, arg |-> <<>>]>>, <<>>)}

NumberCalls == [fn : {"inttostring"}, nb : -(LongWord \div 2) .. LongWord \div 2 - 1,
                base : 2 .. 16]

IntCalls ==
  UNION {{[fn |-> "do_int", arg |-> s, meant |-> n] : s \in Written(n)} : n \in 0 .. 255}
  \cup {[fn |-> "do_int", arg |-> s, meant |-> -1] :
          s \in {<<97, 98>>, <<49, 50, 97>>, <<48, 120, 49, 50, 103>>, <<49, 120>>,
                 <<51, 48, 48>>, <<48, 120, 122, 122>>}}

CopyCalls ==
  {c \in [fn : {"memcpy", "memcpyrev"}, mem : {[a \in 0 .. 6 |-> a]},
          dest : 0 .. 6, src : 0 .. 6, n : 0 .. 4] :
     c.dest + c.n <= 7 /\ c.src + c.n <= 7}

NoCall == [fn |-> "none"]
AllCalls == {NoCall} \cup PrintfCalls \cup NumberCalls \cup IntCalls \cup CopyCalls
-----------------------------------------------------------------------------
(* The three families share no memory, so that interleaving them shows     *)
(* nothing new: a behaviour uses one of them while the others are as they  *)
(* were at the start.                                                      *)
MCInit == Init /\ HInit /\ LibcInit
UsesLists == call = NoCall /\ HInit /\ Next /\ UNCHANGED <<hvars, libcvars>>
UsesHlists == call = NoCall /\ Init /\ HNext /\ UNCHANGED <<vars, libcvars>>
UsesLibc == LibcNext /\ UNCHANGED <<vars, hvars>>

MCSpec == MCInit /\ [][UsesLists \/ UsesHlists \/ UsesLibc]_<<vars, hvars, libcvars>>

Symmetry == Permutations(Heads) \cup Permutations(Entries)
              \cup Permutations(HHeads) \cup Permutations(HNodes)
=============================================================================
