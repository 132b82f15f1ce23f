----------------------------- MODULE HeapProofs -----------------------------
(***************************************************************************)
(* The node list of the heap stays intact, and the client's blocks stay    *)
(* backed and apart, for every arena, word, and set of requests.           *)
(***************************************************************************)
EXTENDS HeapProps, TLAPS

-----------------------------------------------------------------------------
(* Lemmas on node lists.                                                   *)

(* An intact list never points to a node below the arena.                  *)
LEMMA NodesNotNull ==
  ASSUME NEW ns, WellFormed(ns), NEW n \in DOMAIN ns
  PROVE  n # NULL /\ n \in Nat
BY HeapAssumption DEF WellFormed, Typed, InArena, NULL

(* next leads upwards.                                                     *)
LEMMA NextAbove ==
  ASSUME NEW ns, WellFormed(ns), NEW n \in DOMAIN ns, ns[n].next # NULL
  PROVE  /\ ns[n].next \in DOMAIN ns
         /\ n < ns[n].next
         /\ n \in Nat /\ ns[n].next \in Nat
         /\ ns[n].next # HeapBeginning
BY HeapAssumption
   DEF WellFormed, Typed, InArena, Linked, EndOf, Mem, Header

(* Nodes lie above the whole of every lower node.                          *)
LEMMA NodesApart ==
  ASSUME NEW ns, WellFormed(ns), NEW m \in DOMAIN ns, NEW n \in DOMAIN ns,
         m < n
  PROVE  EndOf(ns, m) <= n
<1>1. ns[m].next # NULL /\ ns[m].next <= n
  BY DEF WellFormed, Complete
<1>2. EndOf(ns, m) <= ns[m].next
  BY <1>1 DEF WellFormed, Linked
<1>. QED
  BY <1>1, <1>2, HeapAssumption
     DEF WellFormed, Typed, EndOf, Mem, Header, NULL

(* A node that takes over its successor leaves the list intact.            *)
LEMMA AbsorbIntact ==
  ASSUME NEW ns, WellFormed(ns), NEW n \in DOMAIN ns, ns[n].next # NULL
  PROVE  /\ WellFormed(Absorb(ns, n, ns[n].next))
         /\ DOMAIN Absorb(ns, n, ns[n].next) = DOMAIN ns \ {ns[n].next}
<1> DEFINE m == ns[n].next
           as == Absorb(ns, n, m)
<1>1. /\ m \in DOMAIN ns /\ EndOf(ns, n) <= m /\ n < m
      /\ n \in Nat /\ m \in Nat /\ m # HeapBeginning
  BY HeapAssumption DEF WellFormed, Typed, InArena, Linked, EndOf, Mem, Header
<1>2. DOMAIN as = DOMAIN ns \ {m}
  BY DEF Absorb
<1>3. as[n] = [next |-> ns[m].next, size |-> ns[n].size + Header + ns[m].size,
               used |-> ns[n].used]
  BY <1>1 DEF Absorb
<1>4. \A k \in DOMAIN as : k # n => as[k] = ns[k]
  BY DEF Absorb
<1>5. Typed(as)
  BY <1>1, <1>2, <1>3, <1>4 DEF WellFormed, Typed, Header
<1>6. EndOf(as, n) <= EndOf(ns, m)
  BY <1>1, <1>3 DEF WellFormed, Typed, EndOf, Mem, Header
<1>7. InArena(as)
  <2>1. EndOf(ns, m) <= HeapEnd /\ HeapBeginning <= n
    BY <1>1 DEF WellFormed, InArena
  <2>2. EndOf(as, n) <= HeapEnd
    BY <2>1, <1>6, <1>3, <1>1, HeapAssumption
       DEF WellFormed, Typed, EndOf, Mem, Header, HeapEnd
  <2>. QED
    BY <2>1, <2>2, <1>2, <1>4 DEF WellFormed, InArena, EndOf
<1>8. Linked(as)
  <2>1. HeapBeginning \in DOMAIN as
    BY <1>1, <1>2 DEF WellFormed, Linked
  <2>2. ASSUME NEW k \in DOMAIN as, as[k].next # NULL
        PROVE  as[k].next \in DOMAIN as /\ EndOf(as, k) <= as[k].next
    <3>1. CASE k = n
      <4>1. as[k].next = ns[m].next
        BY <3>1, <1>3
      <4>2. ns[m].next \in DOMAIN ns /\ EndOf(ns, m) <= ns[m].next
        BY <4>1, <2>2, <1>1 DEF WellFormed, Linked
      <4>3. ns[m].next # m
        BY <4>2, <1>1 DEF WellFormed, Typed, EndOf, Mem, Header
      <4>4. EndOf(as, n) <= ns[m].next
        BY <4>2, <1>6, <1>3, <1>1 DEF WellFormed, Typed, EndOf, Mem, Header
      <4>. QED
        BY <3>1, <4>1, <4>2, <4>3, <4>4, <1>2
    <3>2. CASE k # n
      <4>1. as[k] = ns[k] /\ k \in DOMAIN ns
        BY <3>2, <1>2, <1>4
      <4>2. ns[k].next \in DOMAIN ns /\ EndOf(ns, k) <= ns[k].next
        BY <4>1, <2>2 DEF WellFormed, Linked
      <4>3. ns[k].next # m
        <5>1. SUFFICES ASSUME ns[k].next = m PROVE FALSE
          OBVIOUS
        <5>2. k < m
          BY <4>1, <4>2, <5>1, <1>1 DEF WellFormed, Typed, EndOf, Mem, Header
        <5>3. CASE k < n
          BY <5>1, <5>3, <4>1, <1>1 DEF WellFormed, Complete, Typed
        <5>4. CASE n < k
          BY <5>2, <5>4, <4>1, <1>1, NodesApart, <1>3
             DEF WellFormed, Complete, Typed
        <5>. QED
          BY <5>3, <5>4, <3>2, <4>1, <1>1 DEF WellFormed, Typed
      <4>. QED
        BY <4>1, <4>2, <4>3, <1>2 DEF EndOf
    <3>. QED
      BY <3>1, <3>2
  <2>. QED
    BY <2>1, <2>2 DEF Linked
<1>9. Complete(as)
  <2>1. SUFFICES ASSUME NEW k \in DOMAIN as, NEW l \in DOMAIN as, k < l
                 PROVE  as[k].next # NULL /\ as[k].next <= l
    BY DEF Complete
  <2>2. k \in DOMAIN ns /\ l \in DOMAIN ns /\ l # m
    BY <1>2
  <2>3. ns[k].next # NULL /\ ns[k].next <= l
    BY <2>1, <2>2 DEF WellFormed, Complete
  <2>4. CASE k # n
    BY <2>3, <2>4, <1>4
  <2>5. CASE k = n
    <3>1. m < l
      BY <2>2, <2>3, <2>5, <1>1 DEF WellFormed, Typed
    <3>2. ns[m].next # NULL /\ ns[m].next <= l
      BY <3>1, <2>2, <1>1 DEF WellFormed, Complete
    <3>. QED
      BY <3>2, <2>5, <1>3
  <2>. QED
    BY <2>4, <2>5
<1>. QED
  BY <1>2, <1>5, <1>7, <1>8, <1>9 DEF WellFormed, Absorb

(* Marking one node leaves the list intact.                                *)
LEMMA MarkIntact ==
  ASSUME NEW ns, WellFormed(ns), NEW n \in DOMAIN ns, NEW u \in BOOLEAN
  PROVE  /\ WellFormed([ns EXCEPT ![n].used = u])
         /\ DOMAIN [ns EXCEPT ![n].used = u] = DOMAIN ns
         /\ \A k \in DOMAIN ns :
              /\ [ns EXCEPT ![n].used = u][k].next = ns[k].next
              /\ [ns EXCEPT ![n].used = u][k].size = ns[k].size
              /\ k # n => [ns EXCEPT ![n].used = u][k] = ns[k]
         /\ [ns EXCEPT ![n].used = u][n].used = u
<1> DEFINE us == [ns EXCEPT ![n].used = u]
<1>1. DOMAIN us = DOMAIN ns
  OBVIOUS
<1>2. us[n] = [next |-> ns[n].next, size |-> ns[n].size, used |-> u]
  BY DEF WellFormed, Typed
<1>3. \A k \in DOMAIN ns : k # n => us[k] = ns[k]
  OBVIOUS
<1>4. \A k \in DOMAIN ns : us[k].next = ns[k].next /\ us[k].size = ns[k].size
  BY <1>2, <1>3
<1>5. Typed(us)
  BY <1>1, <1>2, <1>3 DEF WellFormed, Typed
<1>6. InArena(us) /\ Linked(us) /\ Complete(us)
  BY <1>1, <1>4 DEF WellFormed, InArena, Linked, Complete, EndOf
<1>7. us = [k \in DOMAIN us |-> us[k]]
  OBVIOUS
<1> HIDE DEF us
<1>8. WellFormed(us)
  BY <1>5, <1>6, <1>7 DEF WellFormed
<1>. QED
  BY <1>1, <1>2, <1>3, <1>4, <1>8 DEF us

(* Whatever the pointer subtraction yields, the size written into the rest *)
(* of a split node stays below the next node.                              *)
LEMMA RemainderFits ==
  ASSUME NEW d \in Nat, d > Header, NEW r \in SizesFromPointers(d)
  PROVE  r \in Nat /\ Header + r <= d
BY SMT DEF SizesFromPointers, Header

(* Cutting a free node in two leaves the list intact.                      *)
LEMMA SplitIntact ==
  ASSUME WellFormed(nodes), NEW n \in DOMAIN nodes, NEW s \in Nat,
         nodes[n].size > s + Header, NEW r \in RemainderSizes(n, s)
  PROVE  /\ WellFormed(Split(n, s, r))
         /\ Mem(n) + s \notin DOMAIN nodes
         /\ DOMAIN Split(n, s, r) = DOMAIN nodes \cup {Mem(n) + s}
<1> DEFINE e == Mem(n) + s
           ss == Split(n, s, r)
<1>1. /\ n \in Nat /\ e \in Nat /\ n < e /\ e = n + Header + s
      /\ e + Header < EndOf(nodes, n)
  BY DEF WellFormed, Typed, EndOf, Mem, Header
<1>2. \A k \in DOMAIN nodes : n < k => e + Header < k
  BY <1>1, NodesApart DEF WellFormed, Typed, EndOf, Mem, Header
<1>3. e \notin DOMAIN nodes
  BY <1>1, <1>2 DEF Header
<1>4. DOMAIN ss = DOMAIN nodes \cup {e}
  BY DEF Split
<1>5. /\ ss[n] = [next |-> e, size |-> s, used |-> TRUE]
      /\ ss[e] = [next |-> nodes[n].next, size |-> r, used |-> FALSE]
      /\ \A k \in DOMAIN nodes : k # n => ss[k] = nodes[k]
  BY <1>1, <1>3 DEF Split
<1>6. /\ r \in Nat
      /\ e + Header + r <= HeapEnd
      /\ nodes[n].next # NULL => e + Header + r <= nodes[n].next
  <2>1. CASE nodes[n].next = NULL
    <3>1. r = HeapEnd - Mem(e)
      BY <2>1 DEF RemainderSizes
    <3>2. EndOf(nodes, n) <= HeapEnd
      BY DEF WellFormed, InArena
    <3>. QED
      BY <2>1, <3>1, <3>2, <1>1, HeapAssumption
         DEF WellFormed, Typed, EndOf, Mem, Header, HeapEnd
  <2>2. CASE nodes[n].next # NULL
    <3> DEFINE x == nodes[n].next
    <3>1. x \in DOMAIN nodes /\ EndOf(nodes, n) <= x /\ x \in Nat
      BY <2>2 DEF WellFormed, Linked, Typed
    <3>2. x - e \in Nat /\ x - e > Header
      BY <3>1, <1>1 DEF WellFormed, Typed, EndOf, Mem, Header
    <3>3. r \in SizesFromPointers(x - e)
      BY <2>2 DEF RemainderSizes
    <3>4. r \in Nat /\ Header + r <= x - e
      BY <3>2, <3>3, RemainderFits
    <3>5. x <= HeapEnd
      BY <3>1, HeapAssumption
         DEF WellFormed, InArena, Typed, EndOf, Mem, Header, HeapEnd
    <3>. QED
      BY <3>1, <3>4, <3>5, <1>1, HeapAssumption DEF Header, HeapEnd
  <2>. QED
    BY <2>1, <2>2
<1>7. ss = [k \in DOMAIN ss |-> ss[k]]
  BY DEF Split
<1> HIDE DEF e, ss
<1>8. Typed(ss)
  <2>1. DOMAIN ss \subseteq Nat
    BY <1>1, <1>4 DEF WellFormed, Typed
  <2>2. ASSUME NEW k \in DOMAIN ss
        PROVE  /\ ss[k] = [next |-> ss[k].next, size |-> ss[k].size,
                           used |-> ss[k].used]
               /\ ss[k].next \in Nat /\ ss[k].size \in Nat
               /\ ss[k].used \in BOOLEAN
    <3>1. CASE k = n
      BY <3>1, <1>1, <1>5
    <3>2. CASE k = e
      BY <3>2, <1>5, <1>6 DEF WellFormed, Typed
    <3>3. CASE k # n /\ k # e
      BY <3>3, <1>4, <1>5 DEF WellFormed, Typed
    <3>. QED
      BY <3>1, <3>2, <3>3
  <2>. QED
    BY <2>1, <2>2 DEF Typed
<1>9. InArena(ss)
  <2>1. HeapBeginning <= n /\ HeapBeginning <= e
    BY <1>1, HeapAssumption DEF WellFormed, InArena
  <2>2. EndOf(ss, e) <= HeapEnd
    BY <1>5, <1>6, <1>1 DEF EndOf, Mem, Header
  <2>3. EndOf(ss, n) <= HeapEnd
    BY <1>5, <1>6, <1>1, HeapAssumption DEF EndOf, Mem, Header, HeapEnd
  <2>. QED
    BY <2>1, <2>2, <2>3, <1>4, <1>5 DEF WellFormed, InArena, EndOf
<1>10. Linked(ss)
  <2>1. HeapBeginning \in DOMAIN ss
    BY <1>4 DEF WellFormed, Linked
  <2>2. EndOf(ss, n) <= ss[n].next /\ ss[n].next \in DOMAIN ss
    BY <1>5, <1>4, <1>1 DEF EndOf, Mem, Header
  <2>3. ss[e].next # NULL =>
          ss[e].next \in DOMAIN ss /\ EndOf(ss, e) <= ss[e].next
    BY <1>5, <1>4, <1>6, <1>1 DEF WellFormed, Linked, EndOf, Mem, Header
  <2>. QED
    BY <2>1, <2>2, <2>3, <1>4, <1>5 DEF WellFormed, Linked, EndOf
<1>11. Complete(ss)
  <2>1. SUFFICES ASSUME NEW k \in DOMAIN ss, NEW l \in DOMAIN ss, k < l
                 PROVE  ss[k].next # NULL /\ ss[k].next <= l
    BY DEF Complete
  <2>2. CASE k = n
    BY <2>1, <2>2, <1>1, <1>2, <1>4, <1>5 DEF Header, NULL, WellFormed, Typed
  <2>3. CASE k = e
    <3>1. n < l /\ l \in DOMAIN nodes
      BY <2>1, <2>3, <1>1, <1>4 DEF WellFormed, Typed
    <3>. QED
      BY <3>1, <2>3, <1>5 DEF WellFormed, Complete
  <2>4. CASE k # n /\ k # e
    <3>1. k \in DOMAIN nodes /\ ss[k] = nodes[k]
      BY <2>4, <1>4, <1>5
    <3>2. CASE l # e
      BY <3>1, <3>2, <2>1, <1>4 DEF WellFormed, Complete
    <3>3. CASE l = e
      <4>1. k < n
        BY <3>1, <3>3, <2>1, <2>4, <1>1, <1>2 DEF WellFormed, Typed, Header
      <4>2. nodes[k].next # NULL /\ nodes[k].next <= n
        BY <4>1, <3>1 DEF WellFormed, Complete
      <4>. QED
        BY <4>2, <3>1, <3>3, <1>1 DEF WellFormed, Typed
    <3>. QED
      BY <3>2, <3>3
  <2>. QED
    BY <2>2, <2>3, <2>4
<1>12. WellFormed(ss)
  BY <1>7, <1>8, <1>9, <1>10, <1>11 DEF WellFormed
<1>. QED
  BY <1>3, <1>4, <1>12 DEF e, ss

(* What free does to a used node n whose predecessor is p: the list stays  *)
(* intact and merged, and no other used node changes.                      *)
LEMMA ReleasedIntact ==
  ASSUME WellFormed(nodes), Coalesced(nodes),
         NEW n \in DOMAIN nodes, nodes[n].used,
         NEW p, IF p = NULL THEN n = HeapBeginning
                ELSE p \in DOMAIN nodes /\ nodes[p].next = n
  PROVE  /\ WellFormed(Released(p, n))
         /\ Coalesced(Released(p, n))
         /\ \A k \in DOMAIN nodes : nodes[k].used /\ k # n =>
              k \in DOMAIN Released(p, n) /\ Released(p, n)[k] = nodes[k]
         /\ \A k \in DOMAIN Released(p, n) : Released(p, n)[k].used =>
              k \in DOMAIN nodes /\ nodes[k].used /\ k # n
<1> DEFINE f == [nodes EXCEPT ![n].used = FALSE]
           g == MergeNext(f, n)
           h == MergePrevious(g, p, n)
<1>1. /\ WellFormed(f) /\ DOMAIN f = DOMAIN nodes
      /\ \A k \in DOMAIN nodes : f[k].next = nodes[k].next
      /\ \A k \in DOMAIN nodes : k # n => f[k] = nodes[k]
      /\ f[n].used = FALSE
  BY MarkIntact
<1>2. \A k \in DOMAIN f : k # 0 /\ k \in Nat
  BY <1>1, NodesNotNull DEF NULL
<1> HIDE DEF f
<1>3. /\ WellFormed(g) /\ n \in DOMAIN g /\ g[n].used = FALSE
      /\ DOMAIN g \subseteq DOMAIN nodes
      /\ \A k \in DOMAIN g : k # n => g[k] = nodes[k]
      /\ \A k \in DOMAIN nodes : nodes[k].used /\ k # n => k \in DOMAIN g
      /\ g[n].next # NULL => g[g[n].next].used
      /\ p # NULL => p \in DOMAIN g /\ g[p].next = n
  <2> DEFINE m == f[n].next
  <2>1. CASE m # NULL /\ ~ f[m].used
    <3>1. g = Absorb(f, n, m)
      BY <2>1 DEF MergeNext
    <3>2. WellFormed(g) /\ DOMAIN g = DOMAIN f \ {m}
      <4>1. WellFormed(f) /\ n \in DOMAIN f /\ f[n].next # NULL
        BY <1>1, <2>1
      <4>2. \A ns : WellFormed(ns) => \A k \in DOMAIN ns : ns[k].next # NULL =>
              /\ WellFormed(Absorb(ns, k, ns[k].next))
              /\ DOMAIN Absorb(ns, k, ns[k].next) = DOMAIN ns \ {ns[k].next}
        BY AbsorbIntact
      <4>3. \A k \in DOMAIN f : f[k].next # NULL =>
              /\ WellFormed(Absorb(f, k, f[k].next))
              /\ DOMAIN Absorb(f, k, f[k].next) = DOMAIN f \ {f[k].next}
        BY <4>1, <4>2
      <4>4. /\ WellFormed(Absorb(f, n, f[n].next))
            /\ DOMAIN Absorb(f, n, f[n].next) = DOMAIN f \ {f[n].next}
        BY <4>1, <4>3
      <4>. QED
        BY <4>4, <3>1
    <3>3. m \in DOMAIN f /\ n < m /\ n \in Nat /\ m \in Nat /\ m # n
      BY <1>1, <2>1, NextAbove
    <3>4. /\ g[n] = [next |-> f[m].next,
                     size |-> f[n].size + Header + f[m].size,
                     used |-> f[n].used]
          /\ \A k \in DOMAIN g : k # n => g[k] = f[k]
      BY <3>1, <3>3, <1>1 DEF Absorb
    <3>5. f[m].next # NULL =>
            /\ f[m].next \in DOMAIN nodes /\ nodes[f[m].next].used
            /\ f[m].next # n /\ f[m].next # m
      <4>1. SUFFICES ASSUME f[m].next # NULL
                     PROVE  /\ f[m].next \in DOMAIN nodes
                            /\ nodes[f[m].next].used
                            /\ f[m].next # n /\ f[m].next # m
        OBVIOUS
      <4>2. /\ nodes[m].next = f[m].next
            /\ ~ nodes[m].used
            /\ m \in DOMAIN nodes
        BY <1>1, <2>1, <3>3
      <4>3. f[m].next \in DOMAIN nodes /\ EndOf(nodes, m) <= f[m].next
        BY <4>1, <4>2 DEF WellFormed, Linked
      <4>4. m < f[m].next
        BY <4>2, <4>3, <3>3 DEF WellFormed, Typed, EndOf, Mem, Header
      <4>5. nodes[f[m].next].used
        BY <4>1, <4>2 DEF Coalesced
      <4>. QED
        BY <4>3, <4>4, <4>5, <3>3 DEF WellFormed, Typed
    <3>6. \A k \in DOMAIN nodes : nodes[k].used /\ k # n => k \in DOMAIN g
      BY <3>2, <2>1, <1>1
    <3>7. g[n].next # NULL => g[g[n].next].used
      BY <3>4, <3>5, <3>6, <1>1
    <3>8. p # NULL => p \in DOMAIN g /\ g[p].next = n
      <4>1. SUFFICES ASSUME p # NULL PROVE p \in DOMAIN g /\ g[p].next = n
        OBVIOUS
      <4>2. p \in DOMAIN nodes /\ nodes[p].next = n /\ p < n
        BY <4>1, NodesNotNull, NextAbove
      <4>. QED
        BY <4>2, <3>2, <3>3, <3>4, <1>1 DEF WellFormed, Typed
    <3>. QED
      BY <3>2, <3>3, <3>4, <3>6, <3>7, <3>8, <1>1
  <2>2. CASE ~ (m # NULL /\ ~ f[m].used)
    <3>1. g = f
      BY <2>2 DEF MergeNext
    <3>2. p # NULL => f[p].next = n
      BY <1>1
    <3>. QED
      BY <3>1, <3>2, <2>2, <1>1
  <2>. QED
    BY <2>1, <2>2
<1>4. h = Released(p, n)
  BY DEF Released, f
<1> HIDE DEF g
<1>5. \A k \in DOMAIN g : k # n /\ g[k].next # NULL /\ g[k].next # n
          => g[k].used \/ g[g[k].next].used
  <2>1. SUFFICES ASSUME NEW k \in DOMAIN g, k # n, g[k].next # NULL,
                        g[k].next # n
                 PROVE  g[k].used \/ g[g[k].next].used
    OBVIOUS
  <2>2. k \in DOMAIN nodes /\ g[k] = nodes[k]
    BY <2>1, <1>3
  <2>3. g[k].next \in DOMAIN g
    BY <2>1, <1>3 DEF WellFormed, Linked
  <2>4. g[g[k].next] = nodes[g[k].next]
    BY <2>1, <2>3, <1>3
  <2>. QED
    BY <2>1, <2>2, <2>4 DEF Coalesced
<1>6. p # NULL => \A k \in DOMAIN g : g[k].next = n => k = p
  <2>1. SUFFICES ASSUME p # NULL, NEW k \in DOMAIN g, g[k].next = n
                 PROVE  k = p
    OBVIOUS
  <2>2. p \in DOMAIN g /\ g[p].next = n
    BY <2>1, <1>3
  <2>3. k < n /\ p < n /\ k \in Nat /\ p \in Nat /\ n \in Nat
    BY <2>1, <2>2, <1>3, NodesNotNull, NextAbove
  <2>4. ~ (k < p) /\ ~ (p < k)
    BY <2>1, <2>2, <2>3, <1>3 DEF WellFormed, Complete
  <2>. QED
    BY <2>3, <2>4
<1>7. p = NULL => \A k \in DOMAIN g : g[k].next # n
  BY <1>3, NodesNotNull, NextAbove
<1>8. CASE p # NULL /\ ~ g[p].used
  <2>1. h = Absorb(g, p, n)
    BY <1>8 DEF MergePrevious
  <2>2. g[p].next = n /\ p \in DOMAIN g /\ n # NULL /\ p # n
    BY <1>8, <1>3, NodesNotNull, NextAbove
  <2>3. WellFormed(h) /\ DOMAIN h = DOMAIN g \ {n}
    <3>1. /\ WellFormed(Absorb(g, p, g[p].next))
          /\ DOMAIN Absorb(g, p, g[p].next) = DOMAIN g \ {g[p].next}
      BY <2>2, <1>3, AbsorbIntact
    <3>. QED
      BY <3>1, <2>1, <2>2
  <2>4. /\ h[p] = [next |-> g[n].next, size |-> g[p].size + Header + g[n].size,
                   used |-> g[p].used]
        /\ \A k \in DOMAIN h : k # p => h[k] = g[k]
    BY <2>1, <2>2 DEF Absorb
  <2> HIDE DEF h
  <2>5. Coalesced(h)
    <3>1. SUFFICES ASSUME NEW k \in DOMAIN h, h[k].next # NULL
                   PROVE  h[k].used \/ h[h[k].next].used
      BY DEF Coalesced
    <3>2. h[k].next \in DOMAIN h
      BY <3>1, <2>3 DEF WellFormed, Linked
    <3>3. CASE k = p
      BY <3>1, <3>2, <3>3, <2>2, <2>3, <2>4, <1>3, <1>8
    <3>4. CASE k # p
      <4>1. k \in DOMAIN g /\ h[k] = g[k] /\ k # n /\ g[k].next # n
        BY <3>2, <3>4, <2>3, <2>4
      <4>2. g[k].used \/ g[g[k].next].used
        BY <4>1, <3>1, <1>5
      <4>3. g[k].next = p => ~ g[g[k].next].used
        BY <1>8
      <4>. QED
        BY <4>1, <4>2, <4>3, <3>2, <2>4
    <3>. QED
      BY <3>3, <3>4
  <2>6. \A k \in DOMAIN nodes : nodes[k].used /\ k # n =>
          k \in DOMAIN h /\ h[k] = nodes[k]
    BY <2>2, <2>3, <2>4, <1>3, <1>8
  <2>7. \A k \in DOMAIN h : h[k].used =>
          k \in DOMAIN nodes /\ nodes[k].used /\ k # n
    BY <2>2, <2>3, <2>4, <1>3, <1>8
  <2>. QED
    BY <2>3, <2>5, <2>6, <2>7, <1>4
<1>9. CASE ~ (p # NULL /\ ~ g[p].used)
  <2>1. h = g
    BY <1>9 DEF MergePrevious
  <2>2. Coalesced(g)
    <3>1. SUFFICES ASSUME NEW k \in DOMAIN g, g[k].next # NULL
                   PROVE  g[k].used \/ g[g[k].next].used
      BY DEF Coalesced
    <3>2. CASE k = n
      BY <3>1, <3>2, <1>3
    <3>3. CASE k # n /\ g[k].next # n
      BY <3>1, <3>3, <1>5
    <3>4. CASE k # n /\ g[k].next = n
      BY <3>4, <1>6, <1>7, <1>9
    <3>. QED
      BY <3>2, <3>3, <3>4
  <2>. QED
    BY <2>1, <2>2, <1>3, <1>4
<1>. QED
  BY <1>8, <1>9

-----------------------------------------------------------------------------
(* The inductive invariant.                                                *)

(* No product of calloc wraps: the case the headers speak of.              *)
NoCallocWrap == \A a \in CallocArgs : a[1] * a[2] < Word

LEMMA InitInv == Init => IInv
<1> SUFFICES ASSUME Init PROVE IInv
  OBVIOUS
<1>1. /\ DOMAIN nodes = {HeapBeginning}
      /\ nodes[HeapBeginning] = [next |-> NULL,
                                 size |-> HEAP_MAX_SIZE - Header,
                                 used |-> FALSE]
      /\ nodes = [n \in DOMAIN nodes |-> nodes[n]]
  BY DEF Init
<1>2. HeapBeginning \in Nat /\ HEAP_MAX_SIZE - Header \in Nat
  BY HeapAssumption DEF Header
<1>3. WellFormed(nodes)
  <2>1. Typed(nodes)
    <3> DEFINE z == HEAP_MAX_SIZE - Header
    <3>1. z \in Nat /\ nodes[HeapBeginning] =
                        [next |-> 0, size |-> z, used |-> FALSE]
      BY <1>1, <1>2 DEF NULL
    <3> HIDE DEF z
    <3>2. /\ nodes[HeapBeginning].next = 0 /\ nodes[HeapBeginning].size = z
          /\ nodes[HeapBeginning].used = FALSE
      BY <3>1
    <3>3. \A n \in DOMAIN nodes : n = HeapBeginning
      BY <1>1
    <3>4. [next |-> nodes[HeapBeginning].next, size |-> nodes[HeapBeginning].size,
           used |-> nodes[HeapBeginning].used] = nodes[HeapBeginning]
      BY <3>1, <3>2
    <3>5. DOMAIN nodes \subseteq Nat
      BY <3>3, <1>2
    <3>6. \A n \in DOMAIN nodes :
            nodes[n] = [next |-> nodes[n].next, size |-> nodes[n].size,
                        used |-> nodes[n].used]
      BY <3>3, <3>4
    <3>7. \A n \in DOMAIN nodes : nodes[n].next \in Nat /\ nodes[n].size \in Nat
      BY <3>1, <3>2, <3>3
    <3>8. \A n \in DOMAIN nodes : nodes[n].used \in BOOLEAN
      BY <3>2, <3>3
    <3>. QED
      BY <3>5, <3>6, <3>7, <3>8 DEF Typed
  <2>2. InArena(nodes)
    BY <1>1, <1>2, HeapAssumption DEF InArena, EndOf, Mem, Header, HeapEnd
  <2>3. Linked(nodes) /\ Complete(nodes)
    BY <1>1, <1>2 DEF Linked, Complete
  <2>. QED
    BY <1>1, <2>1, <2>2, <2>3 DEF WellFormed
<1>4. Coalesced(nodes)
  BY <1>1 DEF Coalesced
<1>5. TypeOK
  BY <1>1, <1>2 DEF Init, TypeOK, NULL
<1>6. live = [p \in DOMAIN live |-> live[p]] /\ Backed /\ NoBlockForgotten
  BY <1>1 DEF Init, Backed, NoBlockForgotten
<1>7. SearchFinds /\ FirstFit /\ Control
  BY DEF Init, SearchFinds, FirstFit, Control
<1>. QED
  BY <1>3, <1>4, <1>5, <1>6, <1>7 DEF IInv

(* A return to the client re-establishes the invariant if every block of   *)
(* the client is backed and every used node is the client's.               *)
LEMMA ReturnInv ==
  ASSUME NEW l, Return(l),
         WellFormed(nodes'), Coalesced(nodes'), freed' \in Nat,
         l = [p \in DOMAIN l |-> l[p]],
         \A p \in DOMAIN l :
           /\ p \in Nat /\ l[p] \in Nat
           /\ p - Header \in DOMAIN nodes'
           /\ nodes'[p - Header].used
           /\ l[p] <= nodes'[p - Header].size,
         \A n \in DOMAIN nodes' : nodes'[n].used => Mem(n) \in DOMAIN l
  PROVE  IInv'
<1>1. TypeOK'
  BY DEF Return, TypeOK, NULL, WellFormed, Typed
<1>2. Backed'
  BY DEF Return, Backed
<1>3. NoBlockForgotten'
  BY DEF Return, NoBlockForgotten
<1>4. SearchFinds' /\ FirstFit' /\ Control'
  BY DEF Return, SearchFinds, FirstFit, Control
<1>5. (live = [p \in DOMAIN live |-> live[p]])'
  BY DEF Return
<1>. QED
  BY <1>1, <1>2, <1>3, <1>4, <1>5 DEF IInv

(* The blocks a step leaves alone.                                         *)
LEMMA BlocksKept ==
  ASSUME IInv, pc # "panic", caller = "client" \/ pc \notin {"copy", "free"}
  PROVE  /\ \A p \in DOMAIN live :
              /\ p \in Nat /\ live[p] \in Nat
              /\ p - Header \in DOMAIN nodes
              /\ nodes[p - Header].used
              /\ live[p] <= nodes[p - Header].size
         /\ \A n \in DOMAIN nodes : nodes[n].used => Mem(n) \in DOMAIN live
         /\ live = [p \in DOMAIN live |-> live[p]]
BY DEF IInv, TypeOK, Backed, NoBlockForgotten

(* Entering a function with size = want.                                   *)
LEMMA EnterInv ==
  ASSUME IInv, NEW f \in {"malloc", "realloc", "free"},
         NEW p \in Nat, NEW s \in Nat, Enter(f, p, s, s),
         f # "free" => s \in Requests,
         f = "realloc" => p \in DOMAIN live \/ p = Corrupted
  PROVE  IInv'
<1>1. /\ nodes' = nodes /\ live' = live /\ pc = "idle" /\ pc' = f
      /\ caller' = caller /\ caller = "client"
      /\ prev' = prev /\ prev = NULL
  BY DEF Enter, IInv, Control
<1>2. HeapBeginning \in DOMAIN nodes /\ HeapBeginning \in Nat
  BY HeapAssumption DEF IInv, WellFormed, Linked
<1>3. TypeOK'
  BY <1>1, <1>2 DEF Enter, IInv, TypeOK, NULL, Functions
<1>4. Backed' /\ NoBlockForgotten'
  BY <1>1 DEF IInv, Backed, NoBlockForgotten
<1>5. FirstFit'
  BY <1>1, <1>2 DEF Enter, IInv, FirstFit, WellFormed, InArena, Typed
<1>6. SearchFinds'
  <2>1. \A q \in DOMAIN live : Mem(HeapBeginning) <= q
    BY <1>2 DEF IInv, TypeOK, Backed, WellFormed, InArena, Typed, Mem, Header
  <2>. QED
    BY <1>1, <2>1 DEF Enter, SearchFinds
<1>7. Control'
  BY <1>1, <1>2 DEF Enter, Control
<1>. QED
  BY <1>1, <1>3, <1>4, <1>5, <1>6, <1>7 DEF IInv

(* A product that does not wrap is itself.                                 *)
LEMMA NoWrap == ASSUME NEW a \in Nat, NEW w \in Nat, a < w PROVE a % w = a
BY SMT

LEMMA CallInv == ASSUME NoCallocWrap, IInv, Call PROVE IInv'
<1>1. CASE CallMalloc
  BY <1>1, EnterInv, HeapAssumption DEF CallMalloc, NULL, Requests
<1>2. CASE CallCalloc
  <2>1. PICK a \in CallocArgs :
          Enter("malloc", NULL, (a[1] * a[2]) % Word, a[1] * a[2])
    BY <1>2 DEF CallCalloc
  <2>2. a[1] * a[2] \in Nat /\ a[1] * a[2] < Word
    <3>1. a[1] \in Nat /\ a[2] \in Nat
      BY HeapAssumption
    <3>2. \A x, y \in Nat : x * y \in Nat
      BY SMT
    <3>. QED
      BY <3>1, <3>2 DEF NoCallocWrap
  <2>3. (a[1] * a[2]) % Word = a[1] * a[2]
    BY <2>2, NoWrap, HeapAssumption
  <2>. QED
    BY <2>1, <2>2, <2>3, EnterInv DEF NULL, Requests
<1>3. CASE CallRealloc
  <2>1. PICK p \in DOMAIN live \cup {NULL, Corrupted}, s \in Sizes :
          Enter(IF p = NULL THEN "malloc" ELSE "realloc", p, s, s)
    BY <1>3 DEF CallRealloc
  <2>2. p \in Nat /\ s \in Nat /\ s \in Requests
    BY HeapAssumption DEF Requests, IInv, TypeOK, NULL, Corrupted, HeapEnd
  <2>. QED
    BY <2>1, <2>2, EnterInv
<1>4. CASE CallFree
  <2>1. PICK p \in DOMAIN live \cup {NULL, freed, Corrupted} :
          Enter("free", p, 0, 0)
    BY <1>4 DEF CallFree
  <2>2. p \in Nat
    BY HeapAssumption DEF IInv, TypeOK, NULL, Corrupted, HeapEnd
  <2>. QED
    BY <2>1, <2>2, EnterInv
<1>. QED
  BY <1>1, <1>2, <1>3, <1>4 DEF Call

(* The three walks move the cursor to a node of the list, past nodes that  *)
(* are not the one looked for.                                             *)
LEMMA SkipInv ==
  ASSUME IInv, MallocSkip \/ ReallocSkip \/ FreeSkip
  PROVE  IInv'
<1>1. /\ nodes' = nodes /\ live' = live /\ freed' = freed /\ pc' = pc
      /\ caller' = caller /\ ptr' = ptr /\ size' = size /\ want' = want
      /\ result' = result
      /\ cur' = nodes[cur].next /\ nodes[cur].next # NULL
      /\ pc \in {"malloc", "realloc", "free"}
      /\ prev' = IF pc = "free" THEN cur ELSE prev
      /\ pc \in {"realloc", "free"} => Mem(cur) # ptr
      /\ pc = "malloc" => ~ Suits(cur)
  BY DEF MallocSkip, ReallocSkip, FreeSkip
<1>2. cur \in DOMAIN nodes /\ WellFormed(nodes)
  BY <1>1 DEF IInv, Control
<1>3. /\ cur' \in DOMAIN nodes /\ cur < cur' /\ cur \in Nat /\ cur' \in Nat
      /\ cur # NULL
  BY <1>1, <1>2, NextAbove, NodesNotNull
<1>4. TypeOK'
  BY <1>1, <1>3 DEF IInv, TypeOK
<1>5. Backed' /\ NoBlockForgotten'
  BY <1>1 DEF IInv, Backed, NoBlockForgotten
<1>6. \A n \in DOMAIN nodes : n < cur' => n <= cur
  BY <1>1, <1>2, <1>3 DEF WellFormed, Complete, Typed
<1>7. FirstFit'
  <2>1. SUFFICES ASSUME pc = "malloc", NEW n \in DOMAIN nodes, n < cur'
                 PROVE  ~ Suits(n)
    BY <1>1 DEF FirstFit, Suits
  <2>2. n < cur \/ n = cur
    BY <2>1, <1>2, <1>3, <1>6 DEF WellFormed, Typed
  <2>. QED
    BY <2>1, <2>2, <1>1 DEF IInv, FirstFit
<1>8. SearchFinds'
  <2>1. SUFFICES ASSUME pc \in {"realloc", "free"}, ptr \in DOMAIN live
                 PROVE  Mem(cur') <= ptr
    BY <1>1 DEF SearchFinds, Mem
  <2>2. ptr \in Nat /\ ptr - Header \in DOMAIN nodes /\ Mem(cur) <= ptr
    BY <2>1 DEF IInv, TypeOK, Backed, SearchFinds
  <2>3. cur < ptr - Header
    BY <2>1, <2>2, <1>1, <1>3 DEF Mem, Header
  <2>4. cur' <= ptr - Header
    BY <2>2, <2>3, <1>1, <1>2 DEF WellFormed, Complete
  <2>. QED
    BY <2>2, <2>4, <1>3 DEF Mem, Header
<1>9. Control'
  BY <1>1, <1>2, <1>3 DEF IInv, Control, NewBlock
<1>. QED
  BY <1>1, <1>4, <1>5, <1>7, <1>8, <1>9 DEF IInv

(* malloc takes the node at its cursor, whole or in part, and returns it.  *)
LEMMA TakeInv ==
  ASSUME IInv, pc = "malloc", ~ nodes[cur].used,
         WellFormed(nodes'), Coalesced(nodes'),
         cur \in DOMAIN nodes', nodes'[cur].used, nodes'[cur].size >= size,
         \A k \in DOMAIN nodes : k # cur =>
           k \in DOMAIN nodes' /\ nodes'[k] = nodes[k],
         \A k \in DOMAIN nodes' : nodes'[k].used /\ k # cur =>
           k \in DOMAIN nodes /\ nodes[k].used,
         MallocReturns(Mem(cur))
  PROVE  IInv'
<1>1. /\ cur \in DOMAIN nodes /\ cur \in Nat /\ want = size /\ size \in Nat
      /\ freed \in Nat /\ prev = NULL
  BY DEF IInv, Control, TypeOK
<1>2. /\ \A p \in DOMAIN live :
           /\ p \in Nat /\ live[p] \in Nat
           /\ p - Header \in DOMAIN nodes
           /\ nodes[p - Header].used
           /\ live[p] <= nodes[p - Header].size
      /\ \A n \in DOMAIN nodes : nodes[n].used => Mem(n) \in DOMAIN live
      /\ live = [p \in DOMAIN live |-> live[p]]
  BY BlocksKept
<1>3. /\ Mem(cur) \in Nat /\ Mem(cur) # NULL /\ Mem(cur) - Header = cur
      /\ Mem(cur) \notin DOMAIN live
  BY <1>1, <1>2 DEF Mem, Header, NULL
<1>4. \A p \in DOMAIN live :
        /\ p - Header \in DOMAIN nodes'
        /\ nodes'[p - Header] = nodes[p - Header]
        /\ p - Header # cur
  BY <1>2
<1>5. CASE caller = "client"
  <2> DEFINE l == With(Mem(cur), want)
  <2>1. Return(l) /\ freed' \in Nat
    BY <1>1, <1>3, <1>5 DEF MallocReturns
  <2>2. /\ DOMAIN l = DOMAIN live \cup {Mem(cur)}
        /\ l[Mem(cur)] = want
        /\ \A p \in DOMAIN live : l[p] = live[p]
        /\ l = [p \in DOMAIN l |-> l[p]]
    BY <1>3 DEF With
  <2> HIDE DEF l
  <2>3. \A p \in DOMAIN l :
          /\ p \in Nat /\ l[p] \in Nat
          /\ p - Header \in DOMAIN nodes'
          /\ nodes'[p - Header].used
          /\ l[p] <= nodes'[p - Header].size
    BY <2>2, <1>1, <1>2, <1>3, <1>4
  <2>4. \A n \in DOMAIN nodes' : nodes'[n].used => Mem(n) \in DOMAIN l
    BY <2>2, <1>2
  <2>. QED
    BY <2>1, <2>2, <2>3, <2>4, ReturnInv
<1>6. CASE caller # "client"
  <2>1. /\ pc' = "copy" /\ result' = Mem(cur) /\ cur' = ptr - Header
        /\ live' = live /\ freed' = freed /\ caller' = caller
        /\ ptr' = ptr /\ size' = size /\ want' = want /\ prev' = prev
        /\ caller = "realloc" /\ ptr \in DOMAIN live
    BY <1>6 DEF MallocReturns, IInv, TypeOK, Control
  <2>2. TypeOK'
    BY <2>1, <1>2, <1>3 DEF IInv, TypeOK, WellFormed, Typed, Functions
  <2>3. Backed'
    BY <2>1, <1>2, <1>4 DEF Backed
  <2>4. NoBlockForgotten'
    BY <2>1, <1>2 DEF NoBlockForgotten, Mem
  <2>5. SearchFinds' /\ FirstFit'
    BY <2>1 DEF SearchFinds, FirstFit
  <2>6. NewBlock'
    BY <2>1, <1>1, <1>3 DEF NewBlock
  <2>7. Control'
    BY <2>1, <2>6, <1>1, <1>4 DEF IInv, Control
  <2>. QED
    BY <2>1, <2>2, <2>3, <2>4, <2>5, <2>7, <1>2 DEF IInv
<1>. QED
  BY <1>5, <1>6

LEMMA MallocInv ==
  ASSUME IInv, MallocFail \/ MallocWhole \/ MallocSplit
  PROVE  IInv'
<1>1. /\ pc = "malloc" /\ cur \in DOMAIN nodes /\ WellFormed(nodes)
      /\ Coalesced(nodes) /\ size \in Nat /\ freed \in Nat /\ prev = NULL
  BY DEF MallocFail, MallocWhole, MallocSplit, IInv, Control, TypeOK
<1>2. CASE MallocFail
  <2>1. CASE caller = "client"
    <3>1. Return(live) /\ nodes' = nodes /\ freed' = freed
      BY <1>2, <2>1 DEF MallocFail, MallocReturns
    <3>. QED
      BY <3>1, <2>1, <1>1, BlocksKept, ReturnInv
  <2>2. CASE caller # "client"
    <3>1. /\ pc' = "copy" /\ result' = NULL /\ cur' = ptr - Header
          /\ live' = live /\ freed' = freed /\ caller' = caller
          /\ ptr' = ptr /\ size' = size /\ want' = want /\ prev' = prev
          /\ nodes' = nodes /\ caller = "realloc" /\ ptr \in DOMAIN live
      BY <1>2, <2>2 DEF MallocFail, MallocReturns, IInv, TypeOK, Control
    <3>2. ptr - Header \in Nat
      BY <3>1 DEF IInv, Backed, TypeOK
    <3>3. TypeOK'
      BY <3>1, <3>2 DEF IInv, TypeOK, NULL, Functions
    <3>4. Backed' /\ NoBlockForgotten'
      BY <3>1, <1>1 DEF IInv, Backed, NoBlockForgotten
    <3>5. SearchFinds' /\ FirstFit' /\ Control'
      BY <3>1, <1>1 DEF IInv, SearchFinds, FirstFit, Control
    <3>. QED
      BY <3>1, <3>3, <3>4, <3>5 DEF IInv
  <2>. QED
    BY <2>1, <2>2
<1>3. CASE MallocWhole
  <2>1. /\ nodes' = [nodes EXCEPT ![cur].used = TRUE]
        /\ ~ nodes[cur].used /\ nodes[cur].size >= size
        /\ MallocReturns(Mem(cur))
    BY <1>3 DEF MallocWhole, Suits
  <2> DEFINE us == [nodes EXCEPT ![cur].used = TRUE]
  <2>2. /\ WellFormed(us) /\ DOMAIN us = DOMAIN nodes
        /\ \A k \in DOMAIN nodes : us[k].next = nodes[k].next
        /\ us[cur].size = nodes[cur].size
        /\ \A k \in DOMAIN nodes : k # cur => us[k] = nodes[k]
        /\ us[cur].used
    BY <1>1, MarkIntact
  <2>3. nodes' = us
    BY <2>1
  <2> HIDE DEF us
  <2>4. Coalesced(us)
    <3>1. SUFFICES ASSUME NEW k \in DOMAIN nodes, nodes[k].next # NULL
                   PROVE  us[k].used \/ us[nodes[k].next].used
      BY <2>2 DEF Coalesced
    <3>2. nodes[k].next \in DOMAIN nodes
      BY <3>1, <1>1 DEF WellFormed, Linked
    <3>3. CASE k = cur \/ nodes[k].next = cur
      BY <3>3, <2>2
    <3>4. CASE k # cur /\ nodes[k].next # cur
      BY <3>1, <3>2, <3>4, <2>2, <1>1 DEF Coalesced
    <3>. QED
      BY <3>3, <3>4
  <2>5. /\ \A k \in DOMAIN nodes : k # cur =>
             k \in DOMAIN us /\ us[k] = nodes[k]
        /\ cur \in DOMAIN us /\ us[cur].size >= size
        /\ ~ nodes[cur].used /\ MallocReturns(Mem(cur))
    BY <2>1, <2>2, <1>1
  <2>6. \A k \in DOMAIN us : us[k].used /\ k # cur =>
          k \in DOMAIN nodes /\ nodes[k].used
    BY <2>2
  <2>. QED
    BY <2>2, <2>3, <2>4, <2>5, <2>6, <1>1, TakeInv
<1>4. CASE MallocSplit
  <2>1. /\ ~ nodes[cur].used /\ nodes[cur].size > size + Header
        /\ MallocReturns(Mem(cur))
    BY <1>4 DEF MallocSplit, Suits
  <2>2. PICK r \in RemainderSizes(cur, size) : nodes' = Split(cur, size, r)
    BY <1>4 DEF MallocSplit
  <2> DEFINE e == Mem(cur) + size
  <2>3. /\ WellFormed(nodes') /\ e \notin DOMAIN nodes
        /\ DOMAIN nodes' = DOMAIN nodes \cup {e}
    BY <2>1, <2>2, <1>1, SplitIntact
  <2>4. /\ nodes'[cur] = [next |-> e, size |-> size, used |-> TRUE]
        /\ nodes'[e] = [next |-> nodes[cur].next, size |-> r, used |-> FALSE]
        /\ \A k \in DOMAIN nodes : k # cur => nodes'[k] = nodes[k]
    BY <2>2, <2>3, <1>1 DEF Split
  <2> HIDE DEF e
  <2>5. Coalesced(nodes')
    <3>1. nodes[cur].next # NULL =>
            /\ nodes[cur].next \in DOMAIN nodes
            /\ nodes[cur].next # cur
            /\ nodes[nodes[cur].next].used
      BY <2>1, <1>1, NextAbove DEF Coalesced
    <3>2. ASSUME NEW k \in DOMAIN nodes, k # cur, nodes[k].next # NULL
          PROVE  nodes[k].used \/ nodes'[nodes[k].next].used
      BY <3>2, <2>4, <1>1 DEF Coalesced, WellFormed, Linked
    <3>3. ASSUME NEW k \in DOMAIN nodes', nodes'[k].next # NULL
          PROVE  nodes'[k].used \/ nodes'[nodes'[k].next].used
      <4>1. CASE k = cur
        BY <4>1, <2>4
      <4>2. CASE k = e
        BY <4>2, <3>3, <3>1, <2>4
      <4>3. CASE k # cur /\ k # e
        BY <4>3, <3>2, <3>3, <2>3, <2>4
      <4>. QED
        BY <4>1, <4>2, <4>3
    <3>. QED
      BY <3>3 DEF Coalesced
  <2>6. /\ cur \in DOMAIN nodes' /\ nodes'[cur].used /\ nodes'[cur].size >= size
        /\ \A k \in DOMAIN nodes : k # cur =>
             k \in DOMAIN nodes' /\ nodes'[k] = nodes[k]
    BY <2>3, <2>4, <1>1
  <2>7. \A k \in DOMAIN nodes' : nodes'[k].used /\ k # cur =>
          k \in DOMAIN nodes /\ nodes[k].used
    BY <2>3, <2>4
  <2>. QED
    BY <2>1, <2>3, <2>5, <2>6, <2>7, <1>1, TakeInv
<1>. QED
  BY <1>2, <1>3, <1>4

LEMMA ReallocInv ==
  ASSUME IInv,
         \/ ReallocMiss \/ ReallocKeep \/ ReallocGrow
         \/ ReallocCopy \/ ReallocCopyPanic
  PROVE  IInv'
<1>1. WellFormed(nodes) /\ Coalesced(nodes) /\ size \in Nat /\ freed \in Nat
  BY DEF IInv, TypeOK
<1>2. CASE ReallocMiss
  <2>1. /\ pc = "realloc" /\ caller = "client" /\ Return(live)
        /\ nodes' = nodes /\ freed' = freed
    BY <1>2 DEF ReallocMiss, IInv, Control
  <2>. QED
    BY <2>1, <1>1, BlocksKept, ReturnInv
<1>3. CASE ReallocKeep
  <2> DEFINE l == With(ptr, want)
  <2>1. /\ pc = "realloc" /\ caller = "client" /\ Return(l)
        /\ nodes' = nodes /\ freed' = freed
        /\ cur \in DOMAIN nodes /\ Mem(cur) = ptr
        /\ want = size /\ size <= nodes[cur].size
        /\ ptr \in DOMAIN live \/ ptr = Corrupted
    BY <1>3 DEF ReallocKeep, IInv, Control
  <2>2. ptr \in DOMAIN live
    <3>1. Mem(cur) <= HeapEnd
      BY <2>1, <1>1, HeapAssumption
         DEF WellFormed, Typed, InArena, EndOf, Mem, Header, HeapEnd
    <3>2. Mem(cur) # Corrupted
      BY <3>1, <2>1, <1>1, HeapAssumption
         DEF WellFormed, Typed, Corrupted, HeapEnd, Mem, Header
    <3>. QED
      BY <3>2, <2>1
  <2>3. ptr - Header = cur
    BY <2>1, <1>1 DEF WellFormed, Typed, Mem, Header
  <2>4. /\ DOMAIN l = DOMAIN live /\ l[ptr] = want
        /\ \A p \in DOMAIN live : p # ptr => l[p] = live[p]
        /\ l = [p \in DOMAIN l |-> l[p]]
    BY <2>2 DEF With
  <2> HIDE DEF l
  <2>5. /\ \A p \in DOMAIN live :
             /\ p \in Nat /\ live[p] \in Nat
             /\ p - Header \in DOMAIN nodes
             /\ nodes[p - Header].used
             /\ live[p] <= nodes[p - Header].size
        /\ \A n \in DOMAIN nodes : nodes[n].used => Mem(n) \in DOMAIN live
    BY <2>1, BlocksKept
  <2>6. \A p \in DOMAIN l :
          /\ p \in Nat /\ l[p] \in Nat
          /\ p - Header \in DOMAIN nodes
          /\ nodes[p - Header].used
          /\ l[p] <= nodes[p - Header].size
    BY <2>1, <2>3, <2>4, <2>5, <1>1
  <2>. QED
    BY <2>1, <2>4, <2>5, <2>6, <1>1, ReturnInv
<1>4. CASE ReallocGrow
  <2>1. /\ pc = "realloc" /\ pc' = "malloc" /\ caller' = "realloc"
        /\ cur' = HeapBeginning /\ nodes' = nodes /\ live' = live
        /\ freed' = freed /\ ptr' = ptr /\ size' = size /\ want' = want
        /\ prev' = prev /\ result' = result
        /\ cur \in DOMAIN nodes /\ Mem(cur) = ptr
        /\ size > nodes[cur].size
        /\ ptr \in DOMAIN live \/ ptr = Corrupted
        /\ caller = "client"
    BY <1>4 DEF ReallocGrow, IInv, Control
  <2>2. ptr \in DOMAIN live
    <3>1. Mem(cur) <= HeapEnd
      BY <2>1, <1>1, HeapAssumption
         DEF WellFormed, Typed, InArena, EndOf, Mem, Header, HeapEnd
    <3>2. Mem(cur) # Corrupted
      BY <3>1, <2>1, <1>1, HeapAssumption
         DEF WellFormed, Typed, Corrupted, HeapEnd, Mem, Header
    <3>. QED
      BY <3>2, <2>1
  <2>3. ptr - Header = cur
    BY <2>1, <1>1 DEF WellFormed, Typed, Mem, Header
  <2>4. HeapBeginning \in DOMAIN nodes /\ HeapBeginning \in Nat
    BY <1>1, HeapAssumption DEF WellFormed, Linked
  <2>5. TypeOK' /\ Backed'
    BY <2>1, <2>4 DEF IInv, TypeOK, Backed, Functions
  <2>6. NoBlockForgotten' /\ SearchFinds'
    BY <2>1 DEF IInv, NoBlockForgotten, SearchFinds
  <2>7. FirstFit'
    BY <2>1, <2>4, <1>1 DEF FirstFit, WellFormed, InArena, Typed
  <2>8. Control'
    BY <2>1, <2>2, <2>3, <2>4, <1>1 DEF IInv, Control, WellFormed, Typed
  <2>. QED
    BY <2>1, <2>5, <2>6, <2>7, <2>8 DEF IInv
<1>5. CASE ReallocCopy
  <2>1. /\ pc = "copy" /\ result # NULL /\ pc' = "free"
        /\ cur' = HeapBeginning /\ nodes' = nodes /\ live' = live
        /\ freed' = freed /\ ptr' = ptr /\ size' = size /\ want' = want
        /\ prev' = prev /\ result' = result /\ caller' = caller
        /\ caller = "realloc" /\ ptr \in DOMAIN live
        /\ NewBlock /\ prev = NULL
    BY <1>5 DEF ReallocCopy, IInv, Control
  <2>2. HeapBeginning \in DOMAIN nodes /\ HeapBeginning \in Nat
    BY <1>1, HeapAssumption DEF WellFormed, Linked
  <2>3. TypeOK' /\ Backed'
    BY <2>1, <2>2 DEF IInv, TypeOK, Backed, Functions
  <2>4. NoBlockForgotten' /\ FirstFit'
    BY <2>1 DEF IInv, NoBlockForgotten, FirstFit
  <2>5. SearchFinds'
    <3>1. Mem(HeapBeginning) <= ptr
      BY <2>1, <2>2
         DEF IInv, TypeOK, Backed, WellFormed, InArena, Typed, Mem, Header
    <3>. QED
      BY <3>1, <2>1 DEF SearchFinds
  <2>6. Control'
    BY <2>1, <2>2 DEF IInv, Control, NewBlock
  <2>. QED
    BY <2>1, <2>3, <2>4, <2>5, <2>6 DEF IInv
<1>6. CASE ReallocCopyPanic
  BY <1>6 DEF ReallocCopyPanic, Panic, locals, IInv, TypeOK, Backed,
              NoBlockForgotten, SearchFinds, FirstFit, Control
<1>. QED
  BY <1>2, <1>3, <1>4, <1>5, <1>6

LEMMA FreeInv ==
  ASSUME IInv, FreeMiss \/ FreeHit \/ FreePanic
  PROVE  IInv'
<1>1. /\ pc = "free" /\ cur \in DOMAIN nodes /\ cur \in Nat
      /\ WellFormed(nodes) /\ Coalesced(nodes)
      /\ freed \in Nat /\ ptr \in Nat /\ want \in Nat
      /\ live = [p \in DOMAIN live |-> live[p]]
  BY DEF FreeMiss, FreeHit, FreePanic, IInv, Control, TypeOK
<1>2. /\ \A p \in DOMAIN live :
           /\ p \in Nat /\ live[p] \in Nat
           /\ p - Header \in DOMAIN nodes
           /\ nodes[p - Header].used
           /\ live[p] <= nodes[p - Header].size
      /\ \A n \in DOMAIN nodes : nodes[n].used =>
           Mem(n) \in DOMAIN live \/ (caller = "realloc" /\ Mem(n) = result)
      /\ caller = "realloc" => NewBlock /\ ptr \in DOMAIN live
      /\ caller \in {"client", "realloc"} /\ result \in Nat
  BY <1>1 DEF IInv, TypeOK, Backed, NoBlockForgotten, Control
<1>3. CASE FreeMiss
  <2>1. /\ Return(live) /\ nodes' = nodes /\ freed' = freed
        /\ Mem(cur) # ptr /\ nodes[cur].next = NULL
    BY <1>3 DEF FreeMiss
  <2>2. ptr \notin DOMAIN live
    <3>1. SUFFICES ASSUME ptr \in DOMAIN live PROVE FALSE
      OBVIOUS
    <3>2. ptr - Header \in DOMAIN nodes /\ Mem(cur) <= ptr
      BY <3>1, <1>1, <1>2 DEF IInv, SearchFinds
    <3>3. cur < ptr - Header
      BY <3>2, <2>1, <1>1 DEF Mem, Header
    <3>. QED
      BY <3>2, <3>3, <2>1, <1>1 DEF WellFormed, Complete
  <2>3. caller = "client"
    BY <2>2, <1>2
  <2>. QED
    BY <2>1, <2>3, <1>1, BlocksKept, ReturnInv
<1>4. CASE FreeHit
  <2>1. /\ Mem(cur) = ptr /\ nodes[cur].used /\ nodes' = Released(prev, cur)
        /\ freed' = ptr
    BY <1>4 DEF FreeHit
  <2>2. IF prev = NULL THEN cur = HeapBeginning
        ELSE prev \in DOMAIN nodes /\ nodes[prev].next = cur
    BY <1>1 DEF IInv, Control
  <2>3. /\ WellFormed(nodes') /\ Coalesced(nodes')
        /\ \A k \in DOMAIN nodes : nodes[k].used /\ k # cur =>
             k \in DOMAIN nodes' /\ nodes'[k] = nodes[k]
        /\ \A k \in DOMAIN nodes' : nodes'[k].used =>
             k \in DOMAIN nodes /\ nodes[k].used /\ k # cur
    BY <2>1, <2>2, <1>1, ReleasedIntact
  <2>4. \A p \in DOMAIN live : p # ptr =>
          /\ p - Header \in DOMAIN nodes'
          /\ nodes'[p - Header] = nodes[p - Header]
    <3>1. \A p \in DOMAIN live : p # ptr => p - Header # cur
      BY <2>1, <1>1, <1>2 DEF Mem, Header
    <3>. QED
      BY <3>1, <2>3, <1>2
  <2>5. \A k \in DOMAIN nodes' : nodes'[k].used => Mem(k) # ptr
    <3>1. \A k \in DOMAIN nodes : k # cur => Mem(k) # ptr
      BY <2>1, <1>1 DEF WellFormed, Typed, Mem, Header
    <3>. QED
      BY <3>1, <2>3
  <2>6. CASE caller = "client"
    <3> DEFINE l == Without(ptr)
    <3>1. Return(l)
      BY <1>4, <2>6 DEF FreeHit
    <3>2. /\ DOMAIN l = DOMAIN live \ {ptr}
          /\ \A p \in DOMAIN l : l[p] = live[p]
          /\ l = [p \in DOMAIN l |-> l[p]]
      BY DEF Without
    <3> HIDE DEF l
    <3>3. \A p \in DOMAIN l :
            /\ p \in Nat /\ l[p] \in Nat
            /\ p - Header \in DOMAIN nodes'
            /\ nodes'[p - Header].used
            /\ l[p] <= nodes'[p - Header].size
      BY <3>2, <2>4, <1>2
    <3>4. \A n \in DOMAIN nodes' : nodes'[n].used => Mem(n) \in DOMAIN l
      BY <3>2, <2>3, <2>5, <2>6, <1>2
    <3>. QED
      BY <3>1, <3>2, <3>3, <3>4, <2>1, <2>3, <1>1, ReturnInv
  <2>7. CASE caller = "realloc"
    <3> DEFINE l == [q \in (DOMAIN live \ {ptr}) \cup {result} |->
                       IF q = result THEN want ELSE live[q]]
    <3>1. Return(l)
      BY <1>4, <2>7 DEF FreeHit
    <3>2. /\ result \notin DOMAIN live /\ result # ptr
          /\ result - Header \in DOMAIN nodes
          /\ nodes[result - Header].used
          /\ want <= nodes[result - Header].size
      BY <2>7, <1>2 DEF NewBlock
    <3>3. result - Header # cur
      BY <3>2, <2>1, <1>1, <1>2 DEF Mem, Header
    <3>4. /\ result - Header \in DOMAIN nodes'
          /\ nodes'[result - Header] = nodes[result - Header]
      BY <3>2, <3>3, <2>3
    <3>5. /\ DOMAIN l = (DOMAIN live \ {ptr}) \cup {result}
          /\ \A p \in DOMAIN live : p # ptr => l[p] = live[p]
          /\ l[result] = want
          /\ l = [p \in DOMAIN l |-> l[p]]
      BY <3>2
    <3> HIDE DEF l
    <3>6. \A p \in DOMAIN l :
            /\ p \in Nat /\ l[p] \in Nat
            /\ p - Header \in DOMAIN nodes'
            /\ nodes'[p - Header].used
            /\ l[p] <= nodes'[p - Header].size
      BY <3>2, <3>4, <3>5, <2>4, <1>1, <1>2
    <3>7. \A n \in DOMAIN nodes' : nodes'[n].used => Mem(n) \in DOMAIN l
      BY <3>5, <2>3, <2>5, <1>2
    <3>. QED
      BY <3>1, <3>5, <3>6, <3>7, <2>1, <2>3, <1>1, ReturnInv
  <2>. QED
    BY <2>6, <2>7, <1>2
<1>5. CASE FreePanic
  BY <1>5 DEF FreePanic, Panic, locals, IInv, TypeOK, Backed,
              NoBlockForgotten, SearchFinds, FirstFit, Control
<1>. QED
  BY <1>3, <1>4, <1>5

LEMMA NextInv == ASSUME NoCallocWrap, IInv, [Next]_vars PROVE IInv'
<1>1. CASE Call
  BY <1>1, CallInv
<1>2. CASE Run
  BY <1>2, SkipInv, MallocInv, ReallocInv, FreeInv DEF Run
<1>3. CASE UNCHANGED vars
  BY <1>3 DEF vars, locals, IInv, TypeOK, Backed, NoBlockForgotten,
              SearchFinds, FirstFit, Suits, Control, NewBlock
<1>. QED
  BY <1>1, <1>2, <1>3 DEF Next, HangForever

-----------------------------------------------------------------------------
(* The inductive invariant holds in every state, for every arena and every *)
(* set of requests whose calloc products do not wrap.                      *)
THEOREM Invariance == ASSUME NoCallocWrap PROVE Spec => []IInv
<1>1. Init => IInv
  BY InitInv
<1>2. IInv /\ [Next]_vars => IInv'
  BY NextInv
<1>. QED
  BY <1>1, <1>2, PTL DEF Spec

(* Addresses, sizes and control values keep the types of alloc.c.          *)
THEOREM TypeCorrectness == ASSUME NoCallocWrap PROVE Spec => []TypeOK
<1>1. IInv => TypeOK
  BY DEF IInv
<1>. QED
  BY <1>1, Invariance, PTL

(* The list survives every split and every merge.                          *)
THEOREM ListStaysIntact == ASSUME NoCallocWrap PROVE Spec => []ListIntact
<1>1. IInv => ListIntact
  BY DEF IInv, WellFormed, ListIntact
<1>. QED
  BY <1>1, Invariance, PTL

(* Neighbouring free nodes never exist.                                    *)
THEOREM FreeNodesStayMerged ==
  ASSUME NoCallocWrap PROVE Spec => []FreeNodesMerged
<1>1. IInv => FreeNodesMerged
  BY DEF IInv, FreeNodesMerged
<1>. QED
  BY <1>1, Invariance, PTL

(* The blocks of the client are apart from each other and from headers.    *)
LEMMA BackedApart == IInv => BlocksApart
<1> SUFFICES ASSUME IInv, NEW p \in DOMAIN live
             PROVE  /\ \A q \in DOMAIN live \ {p} :
                         p + live[p] <= q \/ q + live[q] <= p
                    /\ \A n \in DOMAIN nodes : p + live[p] <= n \/ Mem(n) <= p
  BY DEF BlocksApart
<1>1. \A q \in DOMAIN live :
        /\ q \in Nat /\ live[q] \in Nat
        /\ q - Header \in DOMAIN nodes
        /\ q - Header \in Nat
        /\ q + live[q] <= EndOf(nodes, q - Header)
  BY DEF IInv, TypeOK, Backed, WellFormed, Typed, EndOf, Mem, Header
<1>2. \A m, n \in DOMAIN nodes : m < n =>
        EndOf(nodes, m) <= n /\ Mem(m) <= n
  BY NodesApart DEF IInv, WellFormed, Typed, EndOf, Mem, Header
<1>3. ASSUME NEW n \in DOMAIN nodes
      PROVE  p + live[p] <= n \/ Mem(n) <= p
  <2>1. n \in Nat /\ EndOf(nodes, p - Header) \in Nat
    BY <1>1 DEF IInv, WellFormed, Typed, EndOf, Mem, Header
  <2>2. CASE p - Header < n
    BY <2>1, <2>2, <1>1, <1>2
  <2>3. CASE n <= p - Header
    BY <2>1, <2>3, <1>1 DEF Mem, Header
  <2>. QED
    BY <2>1, <2>2, <2>3, <1>1
<1>4. ASSUME NEW q \in DOMAIN live \ {p}
      PROVE  p + live[p] <= q \/ q + live[q] <= p
  <2>1. /\ EndOf(nodes, p - Header) \in Nat /\ EndOf(nodes, q - Header) \in Nat
        /\ q - Header <= q /\ p - Header <= p
    BY <1>1 DEF IInv, WellFormed, Typed, EndOf, Mem, Header
  <2>2. CASE p < q
    <3>1. EndOf(nodes, p - Header) <= q - Header
      BY <2>2, <1>1, <1>2 DEF Header
    <3>. QED
      BY <3>1, <2>1, <1>1
  <2>3. CASE q < p
    <3>1. EndOf(nodes, q - Header) <= p - Header
      BY <2>3, <1>1, <1>2 DEF Header
    <3>. QED
      BY <3>1, <2>1, <1>1
  <2>. QED
    BY <2>2, <2>3, <1>1
<1>. QED
  BY <1>3, <1>4

(* A client that stays inside what it asked for never touches another      *)
(* block or a node header.                                                 *)
THEOREM BlocksStayApart ==
  ASSUME NoCallocWrap PROVE Spec => [](Backed /\ BlocksApart)
<1>1. IInv => Backed
  BY DEF IInv
<1>. QED
  BY <1>1, BackedApart, Invariance, PTL

(* No path through realloc loses a block.                                  *)
THEOREM NoBlockIsForgotten ==
  ASSUME NoCallocWrap PROVE Spec => []NoBlockForgotten
<1>1. IInv => NoBlockForgotten
  BY DEF IInv
<1>. QED
  BY <1>1, Invariance, PTL

(* realloc copies inside the block it has just allocated.                  *)
THEOREM CopyAlwaysFits == ASSUME NoCallocWrap PROVE Spec => []CopyFits
<1>1. ASSUME IInv PROVE CopyFits
  <2>1. SUFFICES ASSUME pc = "copy", result # NULL
                 PROVE  /\ result - Header \in DOMAIN nodes
                        /\ cur \in DOMAIN nodes /\ cur # result - Header
                        /\ nodes[cur].size <= nodes[result - Header].size
    BY DEF CopyFits
  <2>2. /\ caller = "realloc" /\ cur = ptr - Header /\ ptr \in DOMAIN live
        /\ NewBlock /\ nodes[cur].size < size /\ want = size
    BY <2>1, <1>1 DEF IInv, Control
  <2>3. /\ cur \in DOMAIN nodes /\ result - Header \in DOMAIN nodes
        /\ result # ptr /\ size <= nodes[result - Header].size
    BY <2>2, <1>1 DEF NewBlock, IInv, Backed
  <2>4. /\ ptr \in Nat /\ result \in Nat /\ size \in Nat
        /\ nodes[cur].size \in Nat /\ nodes[result - Header].size \in Nat
    BY <2>2, <2>3, <1>1 DEF IInv, TypeOK, WellFormed, Typed
  <2>. QED
    BY <2>2, <2>3, <2>4 DEF Header
<1>. QED
  BY <1>1, Invariance, PTL

(* The walks find what they look for, and malloc refuses only if no node   *)
(* is suitable.                                                            *)
THEOREM SearchesAreExact ==
  ASSUME NoCallocWrap PROVE Spec => [](SearchFinds /\ FirstFit)
<1>1. IInv => SearchFinds /\ FirstFit
  BY DEF IInv
<1>. QED
  BY <1>1, Invariance, PTL

(* The double-free panic never hits a block the client owns.               *)
THEOREM PanicsAreJustified ==
  ASSUME NoCallocWrap PROVE Spec => PanicOnlyForStalePointer
<1>1. ASSUME IInv, [Next]_vars
      PROVE  [pc = "free" /\ pc' = "panic" => ptr \notin DOMAIN live]_vars
  <2>1. SUFFICES ASSUME Next, pc = "free", pc' = "panic"
                 PROVE  ptr \notin DOMAIN live
    BY <1>1
  <2>2. FreePanic
    BY <2>1 DEF Next, Call, Run, HangForever, vars, locals, CallMalloc,
                CallCalloc, CallRealloc, CallFree, Enter, MallocSkip,
                MallocFail, MallocWhole, MallocSplit, ReallocSkip, ReallocMiss,
                ReallocKeep, ReallocGrow, ReallocCopy, ReallocCopyPanic,
                FreeSkip, FreeMiss, FreeHit, Return
  <2>3. /\ Mem(cur) = ptr /\ ~ nodes[cur].used /\ cur \in DOMAIN nodes
        /\ cur \in Nat
    BY <2>1, <2>2, <1>1 DEF FreePanic, IInv, Control, TypeOK
  <2>4. ptr - Header = cur
    BY <2>3 DEF Mem, Header
  <2>. QED
    BY <2>3, <2>4, <1>1 DEF IInv, Backed
<1>. QED
  BY <1>1, Invariance, PTL DEF Spec, PanicOnlyForStalePointer

-----------------------------------------------------------------------------
(* Refinement of the abstract heap.                                        *)

(* Every block of the client is within the arena and apart from the others.*)
BlocksFit ==
  \A p \in DOMAIN live :
    /\ p \in HeapBeginning .. HeapEnd
    /\ HeapBeginning <= p /\ p + live[p] <= HeapEnd
    /\ \A q \in DOMAIN live \ {p} :
         p + live[p] <= q \/ q + live[q] <= p

LEMMA InvBlocksFit == IInv => BlocksFit
<1> SUFFICES ASSUME IInv, NEW p \in DOMAIN live
    PROVE  /\ p \in HeapBeginning .. HeapEnd
           /\ HeapBeginning <= p /\ p + live[p] <= HeapEnd
           /\ \A q \in DOMAIN live \ {p} :
                p + live[p] <= q \/ q + live[q] <= p
  BY DEF BlocksFit
<1>1. /\ p \in Nat /\ live[p] \in Nat
      /\ p - Header \in DOMAIN nodes /\ p - Header \in Nat
      /\ nodes[p - Header].size \in Nat
      /\ live[p] <= nodes[p - Header].size
  BY DEF IInv, TypeOK, Backed, WellFormed, Typed
<1>2. HeapBeginning <= p - Header /\ EndOf(nodes, p - Header) <= HeapEnd
  BY <1>1 DEF IInv, WellFormed, InArena
<1>3. HeapBeginning \in Nat /\ HeapEnd \in Nat
  BY HeapAssumption DEF HeapEnd
<1>4. p + live[p] <= HeapEnd /\ HeapBeginning <= p /\ p <= HeapEnd
  BY <1>1, <1>2, <1>3 DEF EndOf, Mem, Header
<1>. QED
  BY <1>1, <1>3, <1>4, BackedApart DEF BlocksApart

(* The block realloc is about to hand out is apart from all the others,    *)
(* the one it replaces included.                                           *)
LEMMA NewBlockFits ==
  ASSUME IInv, NewBlock
  PROVE  Abstract!Fits(result, want, live)
<1>1. /\ result \in Nat /\ want \in Nat
      /\ result - Header \in DOMAIN nodes /\ result - Header \in Nat
      /\ nodes[result - Header].size \in Nat
      /\ want <= nodes[result - Header].size
      /\ WellFormed(nodes) /\ result \notin DOMAIN live
  BY DEF IInv, TypeOK, NewBlock, WellFormed, Typed
<1>2. HeapBeginning <= result - Header
      /\ EndOf(nodes, result - Header) <= HeapEnd
  BY <1>1 DEF WellFormed, InArena
<1>3. HeapBeginning \in Nat /\ HeapEnd \in Nat
  BY HeapAssumption DEF HeapEnd
<1>4. HeapBeginning <= result /\ result + want <= HeapEnd
  BY <1>1, <1>2, <1>3 DEF EndOf, Mem, Header
<1>5. ASSUME NEW q \in DOMAIN live
      PROVE  result + want <= q \/ q + live[q] <= result
  <2>1. /\ q \in Nat /\ live[q] \in Nat
        /\ q - Header \in DOMAIN nodes /\ q - Header \in Nat
        /\ nodes[q - Header].size \in Nat
        /\ live[q] <= nodes[q - Header].size /\ q # result
    BY <1>1 DEF IInv, TypeOK, Backed, WellFormed, Typed
  <2>2. CASE q < result
    <3>1. EndOf(nodes, q - Header) <= result - Header
      BY <2>1, <2>2, <1>1, NodesApart DEF Header
    <3>. QED
      BY <3>1, <2>1, <1>1 DEF EndOf, Mem, Header
  <2>3. CASE result < q
    <3>1. EndOf(nodes, result - Header) <= q - Header
      BY <2>1, <2>3, <1>1, NodesApart DEF Header
    <3>. QED
      BY <3>1, <2>1, <1>1 DEF EndOf, Mem, Header
  <2>. QED
    BY <2>1, <2>2, <2>3, <1>1
<1>. QED
  BY <1>4, <1>5 DEF Abstract!Fits

LEMMA StepRefines ==
  ASSUME IInv, BlocksFit', [Next]_vars
  PROVE  [Abstract!Next]_live
<1>1. CASE live' = live
  BY <1>1
<1>2. CASE live' # live
  <2>1. \/ MallocWhole \/ MallocSplit \/ ReallocKeep \/ FreeHit
    BY <1>2 DEF Next, Call, Run, HangForever, vars, locals, CallMalloc,
                CallCalloc, CallRealloc, CallFree, Enter, MallocSkip,
                MallocFail, MallocReturns, ReallocSkip, ReallocMiss,
                ReallocGrow, ReallocCopy, ReallocCopyPanic,
                FreeSkip, FreeMiss, FreePanic, Panic, Return
  <2>2. CASE MallocWhole \/ MallocSplit
    <3> DEFINE p == Mem(cur)
    <3>1. /\ pc = "malloc" /\ caller = "client" /\ live' = With(p, want)
          /\ ~ nodes[cur].used
      BY <2>2, <1>2 DEF MallocWhole, MallocSplit, MallocReturns, Return,
                        Suits, Mem, Header, NULL, IInv, Control, TypeOK
    <3>2. cur \in DOMAIN nodes /\ cur \in Nat /\ want \in Requests
      BY <3>1 DEF IInv, Control, TypeOK
    <3>3. p - Header = cur
      BY <3>2 DEF Mem, Header
    <3>4. p \notin DOMAIN live
      BY <3>1, <3>3 DEF IInv, Backed
    <3>5. /\ DOMAIN live' = DOMAIN live \cup {p} /\ live'[p] = want
          /\ \A q \in DOMAIN live : live'[q] = live[q]
      BY <3>1, <3>4 DEF With
    <3> HIDE DEF p
    <3>6. /\ p \in HeapBeginning .. HeapEnd
          /\ HeapBeginning <= p /\ p + want <= HeapEnd
          /\ \A q \in DOMAIN live : p + want <= q \/ q + live[q] <= p
      <4>1. /\ p \in HeapBeginning .. HeapEnd
            /\ HeapBeginning <= p /\ p + live'[p] <= HeapEnd
            /\ \A q \in DOMAIN live' \ {p} :
                 p + live'[p] <= q \/ q + live'[q] <= p
        <5>1. p \in DOMAIN live'
          BY <3>5
        <5>. QED
          BY <5>1 DEF BlocksFit
      <4>. QED
        BY <4>1, <3>4, <3>5
    <3>7. Abstract!Allocate
      BY <3>1, <3>2, <3>4, <3>6 DEF Abstract!Allocate, Abstract!Fits,
                                    Abstract!With, With
    <3>. QED
      BY <3>7 DEF Abstract!Next
  <2>3. CASE ReallocKeep
    <3>1. live' = With(ptr, want) /\ pc = "realloc" /\ Mem(cur) = ptr
      BY <2>3 DEF ReallocKeep, Return
    <3>2. /\ cur \in DOMAIN nodes
          /\ ptr \in DOMAIN live \/ ptr = Corrupted
          /\ want \in Requests /\ WellFormed(nodes)
      BY <3>1 DEF IInv, Control
    <3>3. ptr \in DOMAIN live
      <4>1. cur \in DOMAIN nodes
        BY <3>1 DEF IInv, Control
      <4>2. Mem(cur) # Corrupted
        BY <4>1, <3>2, HeapAssumption
           DEF WellFormed, Typed, InArena, EndOf, Mem, Header, HeapEnd,
               Corrupted
      <4>. QED
        BY <4>2, <3>1, <3>2
    <3>4. /\ DOMAIN live' = DOMAIN live /\ live'[ptr] = want
          /\ \A q \in DOMAIN live : q # ptr => live'[q] = live[q]
      BY <3>1, <3>3 DEF With
    <3>5. /\ HeapBeginning <= ptr /\ ptr + want <= HeapEnd
          /\ \A q \in DOMAIN live \ {ptr} :
               ptr + want <= q \/ q + live[q] <= ptr
      BY <3>3, <3>4 DEF BlocksFit
    <3>6. Abstract!Resize
      BY <3>1, <3>2, <3>3, <3>5
         DEF Abstract!Resize, Abstract!Fits, Abstract!Without, Abstract!With,
             With
    <3>. QED
      BY <3>6 DEF Abstract!Next
  <2>4. CASE FreeHit /\ caller = "client"
    <3>1. /\ live' = Without(ptr) /\ pc = "free" /\ Mem(cur) = ptr
          /\ nodes[cur].used
      BY <2>4 DEF FreeHit, Return
    <3>2. ptr \in DOMAIN live
      BY <3>1, <2>4 DEF IInv, Control, NoBlockForgotten
    <3>3. Abstract!Release
      BY <3>1, <3>2 DEF Abstract!Release, Abstract!Without, Without
    <3>. QED
      BY <3>3 DEF Abstract!Next
  <2>5. CASE FreeHit /\ caller # "client"
    <3>1. /\ live' = [q \in (DOMAIN live \ {ptr}) \cup {result} |->
                        IF q = result THEN want ELSE live[q]]
          /\ pc = "free"
      BY <2>5 DEF FreeHit, Return
    <3>2. /\ caller = "realloc" /\ NewBlock /\ ptr \in DOMAIN live
          /\ want \in Requests /\ result \notin DOMAIN live
          /\ want \in Nat /\ result \in Nat
      BY <3>1, <2>5 DEF IInv, TypeOK, Control, NewBlock
    <3>3. Abstract!Fits(result, want, live)
      BY <3>2, NewBlockFits
    <3>4. result \in HeapBeginning .. HeapEnd
      BY <3>2, <3>3, HeapAssumption DEF Abstract!Fits, HeapEnd
    <3>5. live' = Abstract!With(result, want, Abstract!Without(ptr))
      BY <3>1 DEF Abstract!With, Abstract!Without
    <3>6. Abstract!Move
      BY <3>2, <3>3, <3>4, <3>5 DEF Abstract!Move
    <3>. QED
      BY <3>6 DEF Abstract!Next
  <2>. QED
    BY <2>1, <2>2, <2>3, <2>4, <2>5
<1>. QED
  BY <1>1, <1>2

(* The allocator implements the abstract heap: in every behaviour, each    *)
(* step hands out, gives back, resizes or moves at most one block.         *)
THEOREM HeapRefinement ==
  ASSUME NoCallocWrap PROVE Spec => ImplementsAbstractHeap
<1>1. Init => Abstract!Init
  BY DEF Init, Abstract!Init
<1>2. IInv /\ BlocksFit' /\ [Next]_vars => [Abstract!Next]_live
  BY StepRefines
<1>. QED
  BY <1>1, <1>2, InvBlocksFit, Invariance, PTL
     DEF Spec, ImplementsAbstractHeap, Abstract!Spec
=============================================================================
