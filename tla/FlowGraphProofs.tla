--------------------------- MODULE FlowGraphProofs ---------------------------
(***************************************************************************)
(* Reachability and dominance: that Reach is the least set the definition  *)
(* of reachability asks for, that dominance is an order whose chains lead  *)
(* from the entry to a block, and how the frontier bounds it.              *)
(***************************************************************************)
EXTENDS FlowGraph, TLAPS, WellFoundedInduction, FiniteSetTheorems

-----------------------------------------------------------------------------
(* Induction over the natural numbers, stated with sets.                    *)
LEMMA LeastNumber ==
    ASSUME NEW T \in SUBSET Nat, T # {}
    PROVE  \E n \in T : \A m \in T : n <= m
<1> DEFINE R == OpToRel(<, Nat)
<1>1. \A x, y \in Nat : <<x, y>> \in R <=> x < y
  BY DEF OpToRel
<1>2. IsWellFoundedOn(R, Nat)
  BY NatLessThanWellFounded
<1> HIDE DEF R
<1>3. PICK n \in T : \A m \in T : <<m, n>> \notin R
  BY <1>2, WFMin
<1>4. n \in Nat /\ \A m \in T : m \in Nat
  OBVIOUS
<1>5. \A m \in T : ~ m < n
  BY <1>1, <1>3, <1>4
<1>6. \A m \in T : n <= m
  BY <1>4, <1>5
<1> QED
  BY <1>6

LEMMA Induction ==
    ASSUME NEW T, 0 \in T, \A n \in Nat : n \in T => n + 1 \in T
    PROVE  \A n \in Nat : n \in T
<1> SUFFICES ASSUME Nat \ T # {} PROVE FALSE
  OBVIOUS
<1>1. PICK n \in Nat \ T : \A m \in Nat \ T : n <= m
  BY LeastNumber
<1>2. n # 0 /\ n - 1 \in Nat /\ ~ n <= n - 1
  BY <1>1
<1>3. n - 1 \in T
  BY <1>1, <1>2
<1> QED
  BY <1>1, <1>2, <1>3

(* A function may be defined by its value at 0 and a step.                  *)
IsStep(F, S)           == F \in [Nat \X S -> S]
Iterates(f, s0, F, S) == /\ f \in [Nat -> S] /\ f[0] = s0
                         /\ \A n \in Nat : f[n + 1] = F[<<n, f[n]>>]

LEMMA Recursion ==
    ASSUME NEW S, NEW s0 \in S, NEW F, IsStep(F, S)
    PROVE  \E f : Iterates(f, s0, F, S)
<1> USE DEF IsStep
<1> DEFINE G(n) == {g \in [0 .. n -> S] :
                      g[0] = s0 /\ \A i \in 0 .. n - 1 : g[i + 1] = F[<<i, g[i]>>]}
<1>1. \A n \in Nat : G(n) # {}
  <2> DEFINE T == {n \in Nat : G(n) # {}}
  <2>1. 0 \in T
    <3>1. [i \in 0 .. 0 |-> s0] \in G(0)
      OBVIOUS
    <3> QED
      BY <3>1
  <2>2. ASSUME NEW n \in Nat, n \in T PROVE n + 1 \in T
    <3>1. PICK g : g \in G(n)
      BY <2>2
    <3> DEFINE h == [i \in 0 .. n + 1 |-> IF i = n + 1 THEN F[<<n, g[n]>>] ELSE g[i]]
    <3>2. g \in [0 .. n -> S] /\ g[n] \in S /\ F[<<n, g[n]>>] \in S
      BY <3>1
    <3>3. h \in [0 .. n + 1 -> S]
      BY <3>2
    <3>4. h[0] = s0
      BY <3>1
    <3>5. ASSUME NEW i \in 0 .. (n + 1) - 1 PROVE h[i + 1] = F[<<i, h[i]>>]
      <4>1. h[i] = g[i]
        OBVIOUS
      <4>2. CASE i = n
        <5>1. h[n + 1] = F[<<n, g[n]>>]
          OBVIOUS
        <5> HIDE DEF h
        <5> QED
          BY <4>1, <4>2, <5>1
      <4>3. CASE i # n
        <5>1. i \in 0 .. n - 1 /\ i + 1 # n + 1 /\ i + 1 \in 0 .. n + 1
          BY <4>3
        <5> QED
          BY <3>1, <4>1, <5>1
      <4> QED
        BY <4>2, <4>3
    <3>6. h \in G(n + 1)
      BY <3>3, <3>4, <3>5
    <3>7. n + 1 \in Nat
      OBVIOUS
    <3> HIDE DEF G, h
    <3> QED
      BY <3>6, <3>7
  <2> HIDE DEF T
  <2>3. \A n \in Nat : n \in T
    BY <2>1, <2>2, Induction
  <2> QED
    BY <2>3 DEF T
<1>2. \A i \in Nat : \A n, m \in Nat : \A g \in G(n), h \in G(m) :
          i <= n /\ i <= m => g[i] = h[i]
  <2> DEFINE T == {i \in Nat : \A n, m \in Nat : \A g \in G(n), h \in G(m) :
                                 i <= n /\ i <= m => g[i] = h[i]}
  <2>1. 0 \in T
    OBVIOUS
  <2>2. ASSUME NEW i \in Nat, i \in T PROVE i + 1 \in T
    <3> SUFFICES ASSUME NEW n \in Nat, NEW m \in Nat, NEW g \in G(n), NEW h \in G(m),
                        i + 1 <= n, i + 1 <= m
                 PROVE  g[i + 1] = h[i + 1]
      BY SMTT(30)
    <3>1. g[i] = h[i]
      <4>1. i <= n /\ i <= m
        OBVIOUS
      <4> HIDE DEF G
      <4> QED
        BY <2>2, <4>1
    <3>2. i \in 0 .. n - 1 /\ i \in 0 .. m - 1
      OBVIOUS
    <3> QED
      BY <3>1, <3>2
  <2> HIDE DEF T
  <2>3. \A i \in Nat : i \in T
    BY <2>1, <2>2, Induction
  <2> QED
    BY <2>3 DEF T
<1> DEFINE c(n) == CHOOSE g : g \in G(n)
           f == [n \in Nat |-> c(n)[n]]
<1>3. \A n \in Nat : c(n) \in G(n)
  BY <1>1
<1> HIDE DEF c
<1>4. f \in [Nat -> S]
  <2> SUFFICES ASSUME NEW n \in Nat PROVE c(n)[n] \in S
    OBVIOUS
  <2> QED
    BY <1>3
<1>5. f[0] = s0
  BY <1>3
<1>6. ASSUME NEW n \in Nat PROVE f[n + 1] = F[<<n, f[n]>>]
  <2>1. n \in 0 .. (n + 1) - 1 /\ c(n + 1) \in G(n + 1) /\ c(n) \in G(n)
    BY <1>3
  <2>2. c(n + 1)[n + 1] = F[<<n, c(n + 1)[n]>>]
    BY <2>1
  <2>3. c(n + 1)[n] = c(n)[n]
    <3>1. n + 1 \in Nat /\ n <= n + 1 /\ n <= n
      OBVIOUS
    <3> HIDE DEF G
    <3> QED
      BY <1>2, <2>1, <3>1
  <2> QED
    BY <2>2, <2>3
<1> QED
  BY <1>4, <1>5, <1>6 DEF Iterates

-----------------------------------------------------------------------------
(* Reachability.  Successor lists over a finite set of blocks.              *)
IsGraph(succ) ==
    /\ IsFiniteSet(DOMAIN succ)
    /\ \A b \in DOMAIN succ : ToSet(succ[b]) \subseteq DOMAIN succ

Step(succ, avoid, S) == S \cup ((UNION {ToSet(succ[b]) : b \in S}) \ {avoid})

Closed(succ, avoid, S) == \A b \in S : \A c \in ToSet(succ[b]) : c = avoid \/ c \in S

Branching(succ) == {b \in DOMAIN succ : succ[b] # <<>>}

(* The sets that Reach goes through, one after the other.                   *)
Unfolds(succ, start, avoid, w) ==
    /\ w[0] = {start} \ {avoid}
    /\ \A n \in Nat : w[n + 1] = Step(succ, avoid, w[n])
    /\ Reach(succ, start, avoid) = w[Cardinality(Branching(succ))]

LEMMA Steps ==
    ASSUME NEW succ, IsGraph(succ), NEW start \in DOMAIN succ, NEW avoid
    PROVE  \E w \in [Nat -> SUBSET DOMAIN succ] : Unfolds(succ, start, avoid, w)
<1> DEFINE B == DOMAIN succ
           Def(w) == [n \in Nat |->
                        IF n = 0 THEN {start} \ {avoid}
                        ELSE LET near == w[n - 1]
                             IN  near \cup ((UNION {ToSet(succ[b]) : b \in near}) \ {avoid})]
           F == [ns \in Nat \X SUBSET B |-> Step(succ, avoid, ns[2])]
           c == CHOOSE w : w = Def(w)
<1>1. \A S \in SUBSET B : Step(succ, avoid, S) \in SUBSET B
  BY DEF IsGraph, Step
<1>2. F \in [Nat \X SUBSET B -> SUBSET B]
  BY <1>1
<1>3. {start} \ {avoid} \in SUBSET B
  OBVIOUS
<1>4. PICK f : Iterates(f, {start} \ {avoid}, F, SUBSET B)
  <2>1. IsStep(F, SUBSET B)
    BY <1>2 DEF IsStep
  <2> HIDE DEF F, B
  <2> QED
    BY <1>3, <2>1, Recursion
<1>5. \A n \in Nat : f[n + 1] = Step(succ, avoid, f[n])
  <2> SUFFICES ASSUME NEW n \in Nat PROVE f[n + 1] = Step(succ, avoid, f[n])
    OBVIOUS
  <2>1. <<n, f[n]>> \in Nat \X SUBSET B /\ <<n, f[n]>>[2] = f[n]
    BY <1>4 DEF Iterates
  <2>2. F[<<n, f[n]>>] = Step(succ, avoid, f[n])
    BY <2>1
  <2> QED
    BY <1>4, <2>2 DEF Iterates
<1>6. f = Def(f)
  <2>1. ASSUME NEW n \in Nat PROVE f[n] = Def(f)[n]
    <3>1. CASE n = 0
      BY <1>4, <3>1 DEF Iterates
    <3>2. CASE n # 0
      <4>1. n - 1 \in Nat /\ (n - 1) + 1 = n
        BY <3>2
      <4>2. f[n] = Step(succ, avoid, f[n - 1])
        BY <1>5, <4>1
      <4> QED
        BY <3>2, <4>2 DEF Step
    <3> QED
      BY <3>1, <3>2
  <2>2. DOMAIN f = Nat
    BY <1>4 DEF Iterates
  <2> QED
    BY <1>4, <2>1, <2>2 DEF Iterates
<1>7. c = Def(c)
  <2> HIDE DEF Def
  <2> QED
    BY <1>6
<1>8. Reach(succ, start, avoid) = c[Cardinality(Branching(succ))]
  BY DEF Reach, Branching
<1> HIDE DEF c
<1>9. c[0] = {start} \ {avoid} /\ \A n \in Nat : c[n + 1] = Step(succ, avoid, c[n])
  <2>1. c[0] = {start} \ {avoid}
    BY <1>7
  <2>2. ASSUME NEW n \in Nat PROVE c[n + 1] = Step(succ, avoid, c[n])
    <3>1. n + 1 \in Nat /\ n + 1 # 0 /\ (n + 1) - 1 = n
      OBVIOUS
    <3>2. Def(c)[n + 1] = Step(succ, avoid, c[n])
      BY <3>1 DEF Step
    <3> QED
      BY <1>7, <3>2
  <2> QED
    BY <2>1, <2>2
<1>10. c \in [Nat -> SUBSET B]
  <2> DEFINE T == {n \in Nat : c[n] \in SUBSET B}
  <2>1. 0 \in T
    BY <1>3, <1>9
  <2>2. \A n \in Nat : n \in T => n + 1 \in T
    BY <1>1, <1>9
  <2> HIDE DEF T
  <2>3. \A n \in Nat : n \in T
    BY <2>1, <2>2, Induction
  <2>4. \A n \in Nat : c[n] \in SUBSET B
    BY <2>3 DEF T
  <2> QED
    BY <1>7, <2>4
<1> QED
  BY <1>8, <1>9, <1>10 DEF Unfolds

LEMMA ReachLeast ==
    ASSUME NEW succ, IsGraph(succ), NEW start \in DOMAIN succ, NEW avoid,
           NEW S, start = avoid \/ start \in S, Closed(succ, avoid, S)
    PROVE  Reach(succ, start, avoid) \subseteq S
<1>0. PICK w \in [Nat -> SUBSET DOMAIN succ] : Unfolds(succ, start, avoid, w)
  BY Steps
<1>1. /\ w \in [Nat -> SUBSET DOMAIN succ] /\ w[0] = {start} \ {avoid}
      /\ \A n \in Nat : w[n + 1] = Step(succ, avoid, w[n])
      /\ Reach(succ, start, avoid) = w[Cardinality(Branching(succ))]
  BY <1>0 DEF Unfolds
<1> DEFINE T == {n \in Nat : w[n] \subseteq S}
<1>2. 0 \in T
  BY <1>1
<1>3. \A n \in Nat : n \in T => n + 1 \in T
  BY <1>1 DEF Step, Closed
<1> HIDE DEF T
<1>4. \A n \in Nat : n \in T
  BY <1>2, <1>3, Induction
<1>5. Cardinality(Branching(succ)) \in Nat
  BY FS_Subset, FS_CardinalityType DEF IsGraph, Branching
<1> QED
  BY <1>1, <1>4, <1>5 DEF T

LEMMA ReachIn ==
    ASSUME NEW succ, IsGraph(succ), NEW start \in DOMAIN succ, NEW avoid
    PROVE  /\ Reach(succ, start, avoid) \subseteq DOMAIN succ \ {avoid}
           /\ start # avoid => start \in Reach(succ, start, avoid)
<1>1. Closed(succ, avoid, DOMAIN succ \ {avoid})
  BY DEF Closed, IsGraph
<1>2. Reach(succ, start, avoid) \subseteq DOMAIN succ \ {avoid}
  BY <1>1, ReachLeast
<1>3. ASSUME start # avoid PROVE start \in Reach(succ, start, avoid)
  <2>0. PICK w \in [Nat -> SUBSET DOMAIN succ] : Unfolds(succ, start, avoid, w)
    BY Steps
  <2>1. /\ w \in [Nat -> SUBSET DOMAIN succ] /\ w[0] = {start} \ {avoid}
        /\ \A n \in Nat : w[n + 1] = Step(succ, avoid, w[n])
        /\ Reach(succ, start, avoid) = w[Cardinality(Branching(succ))]
    BY <2>0 DEF Unfolds
  <2> DEFINE T == {n \in Nat : start \in w[n]}
  <2>2. 0 \in T
    BY <1>3, <2>1
  <2>3. \A n \in Nat : n \in T => n + 1 \in T
    BY <2>1 DEF Step
  <2> HIDE DEF T
  <2>4. \A n \in Nat : n \in T
    BY <2>2, <2>3, Induction
  <2>5. Cardinality(Branching(succ)) \in Nat
    BY FS_Subset, FS_CardinalityType DEF IsGraph, Branching
  <2> QED
    BY <2>1, <2>4, <2>5 DEF T
<1> QED
  BY <1>2, <1>3

(* Every step that is not the last one finds another block that branches,   *)
(* so there are steps enough.                                               *)
LEMMA ReachClosed ==
    ASSUME NEW succ, IsGraph(succ), NEW start \in DOMAIN succ, NEW avoid
    PROVE  Closed(succ, avoid, Reach(succ, start, avoid))
<1>0. PICK w \in [Nat -> SUBSET DOMAIN succ] : Unfolds(succ, start, avoid, w)
  BY Steps
<1>1. /\ w \in [Nat -> SUBSET DOMAIN succ] /\ w[0] = {start} \ {avoid}
      /\ \A n \in Nat : w[n + 1] = Step(succ, avoid, w[n])
      /\ Reach(succ, start, avoid) = w[Cardinality(Branching(succ))]
  BY <1>0 DEF Unfolds
<1> DEFINE W(n) == w[n] \cap Branching(succ)
           Stops(n) == Closed(succ, avoid, w[n])
           T == {n \in Nat : Stops(n) \/ Cardinality(W(n)) >= n + 1}
<1>2. /\ IsFiniteSet(Branching(succ)) /\ Cardinality(Branching(succ)) \in Nat
      /\ \A n \in Nat : /\ IsFiniteSet(W(n)) /\ Cardinality(W(n)) \in Nat
                        /\ Cardinality(W(n)) <= Cardinality(Branching(succ))
  <2>1. IsFiniteSet(Branching(succ))
    BY FS_Subset DEF IsGraph, Branching
  <2>2. \A n \in Nat : W(n) \subseteq Branching(succ)
    OBVIOUS
  <2> QED
    BY <2>1, <2>2, FS_Subset, FS_CardinalityType
<1>3. \A b \in DOMAIN succ \ Branching(succ) : ToSet(succ[b]) = {}
  BY DEF Branching, ToSet
<1>4. 0 \in T
  <2>1. CASE start = avoid \/ start \notin Branching(succ)
    <3>1. Stops(0)
      BY <1>1, <1>3, <2>1 DEF Closed
    <3> QED
      BY <3>1
  <2>2. CASE start # avoid /\ start \in Branching(succ)
    <3>1. W(0) = {start}
      BY <1>1, <2>2
    <3>2. Cardinality(W(0)) = 1
      BY <3>1, FS_Singleton
    <3> QED
      BY <3>2
  <2> QED
    BY <2>1, <2>2
<1>5. ASSUME NEW n \in Nat, n \in T PROVE n + 1 \in T
  <2>1. w[n + 1] = Step(succ, avoid, w[n]) /\ n + 1 \in Nat /\ w[n] \subseteq DOMAIN succ
    BY <1>1
  <2>2. CASE Stops(n)
    <3>1. w[n + 1] = w[n]
      BY <2>1, <2>2 DEF Step, Closed
    <3> QED
      BY <2>1, <2>2, <3>1
  <2>3. CASE ~Stops(n) /\ W(n + 1) = W(n)
    <3>1. ASSUME NEW b \in w[n + 1], NEW c \in ToSet(succ[b]), c # avoid
          PROVE  c \in w[n + 1]
      <4>1. b \in DOMAIN succ
        BY <1>1, <2>1
      <4>2. b \in Branching(succ)
        BY <1>3, <3>1, <4>1
      <4>3. b \in w[n]
        BY <2>3, <3>1, <4>2
      <4> QED
        BY <2>1, <3>1, <4>3 DEF Step
    <3>2. Stops(n + 1)
      BY <3>1 DEF Closed
    <3> QED
      BY <2>1, <3>2
  <2>4. CASE ~Stops(n) /\ W(n + 1) # W(n)
    <3>1. Cardinality(W(n)) >= n + 1
      BY <1>5, <2>4
    <3>2. W(n) \in SUBSET W(n + 1)
      BY <2>1 DEF Step
    <3>3. PICK k, l \in Nat : k = Cardinality(W(n)) /\ l = Cardinality(W(n + 1))
      BY <1>2, <2>1
    <3>4. k <= l /\ k # l
      BY <1>2, <2>1, <2>4, <3>2, <3>3, FS_Subset
    <3>5. l >= (n + 1) + 1
      BY <3>1, <3>3, <3>4
    <3> QED
      BY <2>1, <3>3, <3>5
  <2> QED
    BY <2>2, <2>3, <2>4
<1>6. \A n \in Nat : n \in T
  <2> HIDE DEF T
  <2> QED
    BY <1>4, <1>5, Induction
<1>7. PICK N \in Nat : N = Cardinality(Branching(succ))
  BY <1>2
<1>8. Stops(N)
  <2>1. Stops(N) \/ Cardinality(W(N)) >= N + 1
    BY <1>6
  <2>2. PICK k \in Nat : k = Cardinality(W(N)) /\ k <= N
    BY <1>2, <1>7
  <2> QED
    BY <2>1, <2>2
<1> QED
  BY <1>1, <1>7, <1>8

THEOREM ReachIsLeast ==
    ASSUME NEW succ, IsGraph(succ), NEW start \in DOMAIN succ, NEW avoid, start # avoid
    PROVE  LET R == Reach(succ, start, avoid)
           IN  /\ start \in R /\ Closed(succ, avoid, R)
               /\ \A S : start \in S /\ Closed(succ, avoid, S) => R \subseteq S
BY ReachLeast, ReachIn, ReachClosed

-----------------------------------------------------------------------------
(* Dominance.                                                               *)
IsFlowGraph(succ, start) == IsGraph(succ) /\ start \in DOMAIN succ /\ 0 \notin DOMAIN succ

All(succ, start) == Reach(succ, start, 0)

LEMMA DomValue ==
    ASSUME NEW succ, NEW start, IsFlowGraph(succ, start)
    PROVE  LET dom == DominatedBy(succ, start)
               all == All(succ, start)
           IN  /\ DOMAIN dom = all /\ all \subseteq DOMAIN succ /\ start \in all
               /\ \A a \in all : dom[a] = all \ Reach(succ, start, a)
               /\ \A a \in all : a \in dom[a] /\ dom[a] \subseteq all
               /\ dom[start] = all
               /\ \A a \in all : ToSet(succ[a]) \subseteq all
<1> DEFINE dom == DominatedBy(succ, start)
           all == All(succ, start)
<1>1. start \in DOMAIN succ /\ start # 0
  BY DEF IsFlowGraph
<1>2. DOMAIN dom = all /\ \A a \in all : dom[a] = all \ Reach(succ, start, a)
  BY DEF DominatedBy, All
<1>3. all \subseteq DOMAIN succ /\ start \in all
  BY <1>1, ReachIn DEF IsFlowGraph, All
<1>4. \A a \in all : a \notin Reach(succ, start, a)
  BY <1>1, ReachIn DEF IsFlowGraph
<1>5. Reach(succ, start, start) = {}
  <2>1. Closed(succ, start, {})
    BY DEF Closed
  <2> QED
    BY <1>1, <2>1, ReachLeast DEF IsFlowGraph
<1>6. \A a \in all : ToSet(succ[a]) \subseteq all
  <2>1. Closed(succ, 0, all)
    BY <1>1, ReachClosed DEF IsFlowGraph, All
  <2>2. \A a \in all : ToSet(succ[a]) \subseteq DOMAIN succ
    BY <1>3 DEF IsFlowGraph, IsGraph
  <2>3. 0 \notin DOMAIN succ
    BY DEF IsFlowGraph
  <2> QED
    BY <2>1, <2>2, <2>3 DEF Closed
<1> QED
  BY <1>2, <1>3, <1>4, <1>5, <1>6

(* What is reached without passing a, one step further.                     *)
LEMMA Avoiding ==
    ASSUME NEW succ, NEW start, IsFlowGraph(succ, start), NEW a
    PROVE  /\ \A x \in Reach(succ, start, a) : \A y \in ToSet(succ[x]) :
                  y = a \/ y \in Reach(succ, start, a)
           /\ start = a \/ start \in Reach(succ, start, a)
           /\ a \notin Reach(succ, start, a)
BY ReachClosed, ReachIn DEF IsFlowGraph, Closed

LEMMA DomTransitive ==
    ASSUME NEW succ, NEW start, IsFlowGraph(succ, start),
           NEW a \in All(succ, start), NEW b \in DominatedBy(succ, start)[a],
           NEW c \in DominatedBy(succ, start)[b]
    PROVE  c \in DominatedBy(succ, start)[a]
<1> DEFINE S == Reach(succ, start, a) \cap Reach(succ, start, b)
<1>1. /\ b \in All(succ, start) /\ b \notin Reach(succ, start, a)
      /\ c \in All(succ, start) /\ c \notin Reach(succ, start, b)
  BY DomValue
<1>2. Closed(succ, a, S)
  <2> SUFFICES ASSUME NEW x \in S, NEW y \in ToSet(succ[x]), y # a PROVE y \in S
    BY DEF Closed
  <2>1. y \in Reach(succ, start, a)
    BY Avoiding
  <2> QED
    BY <1>1, <2>1, Avoiding
<1>3. start = a \/ start \in S
  BY <1>1, Avoiding
<1>4. Reach(succ, start, a) \subseteq S
  BY <1>2, <1>3, ReachLeast DEF IsFlowGraph
<1>5. c \notin Reach(succ, start, a)
  BY <1>1, <1>4
<1> QED
  BY <1>1, <1>5, DomValue

LEMMA DomAntisymmetric ==
    ASSUME NEW succ, NEW start, IsFlowGraph(succ, start),
           NEW a \in All(succ, start), NEW b \in DominatedBy(succ, start)[a],
           a \in DominatedBy(succ, start)[b]
    PROVE  a = b
<1> SUFFICES ASSUME a # b PROVE FALSE
  OBVIOUS
<1> DEFINE S == Reach(succ, start, a) \cap Reach(succ, start, b)
<1>1. /\ b \in All(succ, start) /\ b \notin Reach(succ, start, a)
      /\ a \notin Reach(succ, start, b)
  BY DomValue
<1>2. start \in S
  BY <1>1, Avoiding
<1>3. Closed(succ, 0, S)
  <2> SUFFICES ASSUME NEW x \in S, NEW y \in ToSet(succ[x]) PROVE y \in S
    BY DEF Closed
  <2>1. y = a \/ y \in Reach(succ, start, a)
    BY Avoiding
  <2>2. y = b \/ y \in Reach(succ, start, b)
    BY Avoiding
  <2> QED
    BY <1>1, <2>1, <2>2
<1>4. All(succ, start) \subseteq S
  BY <1>2, <1>3, ReachLeast DEF IsFlowGraph, All
<1> QED
  BY <1>4, Avoiding

LEMMA DomChain ==
    ASSUME NEW succ, NEW start, IsFlowGraph(succ, start),
           NEW a \in All(succ, start), NEW b \in All(succ, start),
           NEW c, c \in DominatedBy(succ, start)[a], c \in DominatedBy(succ, start)[b]
    PROVE  a \in DominatedBy(succ, start)[b] \/ b \in DominatedBy(succ, start)[a]
<1> SUFFICES ASSUME a \notin DominatedBy(succ, start)[b], b \notin DominatedBy(succ, start)[a]
             PROVE  FALSE
  OBVIOUS
<1> DEFINE S == Reach(succ, start, a) \cup Reach(succ, start, b)
<1>1. /\ a \in Reach(succ, start, b) /\ b \in Reach(succ, start, a)
      /\ c \in All(succ, start)
      /\ c \notin Reach(succ, start, a) /\ c \notin Reach(succ, start, b)
  BY DomValue
<1>2. start \in S
  BY <1>1, Avoiding
<1>3. Closed(succ, 0, S)
  <2> SUFFICES ASSUME NEW x \in S, NEW y \in ToSet(succ[x]) PROVE y \in S
    BY DEF Closed
  <2>1. CASE x \in Reach(succ, start, a)
    BY <1>1, <2>1, Avoiding
  <2>2. CASE x \in Reach(succ, start, b)
    BY <1>1, <2>2, Avoiding
  <2> QED
    BY <2>1, <2>2
<1>4. All(succ, start) \subseteq S
  BY <1>2, <1>3, ReachLeast DEF IsFlowGraph, All
<1> QED
  BY <1>1, <1>4

(* What strictly dominates a block dominates its predecessors.              *)
LEMMA DomPredecessor ==
    ASSUME NEW succ, NEW start, IsFlowGraph(succ, start),
           NEW a \in All(succ, start), NEW b \in DominatedBy(succ, start)[a], a # b,
           NEW x \in All(succ, start), b \in ToSet(succ[x])
    PROVE  x \in DominatedBy(succ, start)[a]
BY DomValue, Avoiding

LEMMA DomFinite ==
    ASSUME NEW succ, NEW start, IsFlowGraph(succ, start), NEW a \in All(succ, start)
    PROVE  /\ IsFiniteSet(DominatedBy(succ, start)[a])
           /\ Cardinality(DominatedBy(succ, start)[a]) \in Nat
<1>1. DominatedBy(succ, start)[a] \in SUBSET DOMAIN succ /\ IsFiniteSet(DOMAIN succ)
  BY DomValue DEF IsFlowGraph, IsGraph
<1>2. IsFiniteSet(DominatedBy(succ, start)[a])
  BY <1>1, FS_Subset
<1> QED
  BY <1>2, FS_CardinalityType

(* Further down in the dominator tree the sets are smaller.                 *)
LEMMA DomSmaller ==
    ASSUME NEW succ, NEW start, IsFlowGraph(succ, start),
           NEW a \in All(succ, start), NEW b \in DominatedBy(succ, start)[a], a # b
    PROVE  Cardinality(DominatedBy(succ, start)[b]) < Cardinality(DominatedBy(succ, start)[a])
<1> DEFINE dom == DominatedBy(succ, start)
<1>1. b \in All(succ, start) /\ a \in dom[a]
  BY DomValue
<1>2. dom[b] \in SUBSET dom[a]
  BY DomTransitive
<1>3. a \notin dom[b]
  BY DomAntisymmetric
<1>4. PICK k, l \in Nat : k = Cardinality(dom[b]) /\ l = Cardinality(dom[a])
  BY <1>1, DomFinite
<1>5. k <= l /\ k # l
  BY <1>1, <1>2, <1>3, <1>4, DomFinite, FS_Subset
<1> QED
  BY <1>4, <1>5

(* A block other than the entry has a parent in the dominator tree.         *)
LEMMA DomParent ==
    ASSUME NEW succ, NEW start, IsFlowGraph(succ, start),
           NEW b \in All(succ, start), b # start
    PROVE  \E a \in All(succ, start) : b \in Children(DominatedBy(succ, start), a)
<1> DEFINE dom == DominatedBy(succ, start)
           P == {a \in All(succ, start) : b \in dom[a] /\ a # b}
           T == {n \in Nat : \E a \in P : n = Cardinality(dom[a])}
<1>1. start \in P
  BY DomValue
<1>2. \A a \in P : Cardinality(dom[a]) \in Nat
  BY DomFinite
<1>3. T # {}
  BY <1>1, <1>2
<1>4. PICK n \in T : \A m \in T : n <= m
  BY <1>3, LeastNumber
<1>5. PICK a \in P : n = Cardinality(dom[a])
  BY <1>4
<1>6. ASSUME NEW c \in dom[a] \ {a, b}, b \in dom[c] PROVE FALSE
  <2>1. c \in All(succ, start)
    BY DomValue
  <2>2. c \in P
    BY <1>6, <2>1
  <2>3. PICK m \in Nat : m = Cardinality(dom[c])
    BY <1>2, <2>2
  <2>4. m < n /\ n \in Nat
    BY <1>5, <2>3, DomSmaller
  <2>5. n <= m
    BY <1>4, <2>2, <2>3
  <2> QED
    BY <2>3, <2>4, <2>5
<1> QED
  BY <1>5, <1>6 DEF Children

(* A set of blocks that holds the entry and with a block its children in    *)
(* the dominator tree holds every block that is reached.                    *)
LEMMA DomTreeCovers ==
    ASSUME NEW succ, NEW start, IsFlowGraph(succ, start), NEW S, start \in S,
           \A a \in S \cap All(succ, start) : Children(DominatedBy(succ, start), a) \subseteq S
    PROVE  All(succ, start) \subseteq S
<1> DEFINE dom == DominatedBy(succ, start)
           all == All(succ, start)
           card(a) == Cardinality(all) - Cardinality(dom[a])
           T == {n \in Nat : \E a \in all \ S : n = card(a)}
<1> SUFFICES ASSUME NEW z \in all \ S PROVE FALSE
  OBVIOUS
<1>1. IsFiniteSet(all) /\ Cardinality(all) \in Nat
  <2>1. dom[start] = all /\ start \in all
    BY DomValue
  <2> QED
    BY <2>1, DomFinite
<1>2. \A a \in all : card(a) \in Nat
  <2> SUFFICES ASSUME NEW a \in all PROVE card(a) \in Nat
    OBVIOUS
  <2>1. dom[a] \in SUBSET all
    BY DomValue
  <2>2. Cardinality(dom[a]) <= Cardinality(all) /\ Cardinality(dom[a]) \in Nat
    BY <1>1, <2>1, FS_Subset, FS_CardinalityType
  <2> QED
    BY <1>1, <2>2
<1>3. T # {}
  BY <1>2
<1>4. PICK n \in T : \A m \in T : n <= m
  BY <1>3, LeastNumber
<1>5. PICK b \in all \ S : n = card(b)
  BY <1>4
<1>6. PICK a \in all : b \in Children(dom, a)
  BY <1>5, DomParent
<1>7. a \notin S
  BY <1>5, <1>6
<1>8. b \in dom[a] /\ a # b
  BY <1>6 DEF Children
<1>9. card(a) < card(b)
  <2>1. PICK k, l, m \in Nat :
           k = Cardinality(dom[a]) /\ l = Cardinality(dom[b]) /\ m = Cardinality(all)
    BY <1>1, <1>5, DomFinite
  <2>2. l < k
    BY <1>6, <1>8, <2>1, DomSmaller
  <2>3. m - k < m - l
    BY <2>1, <2>2
  <2> QED
    BY <2>1, <2>3
<1>10. card(a) \in T
  BY <1>2, <1>6, <1>7
<1> HIDE DEF card, T
<1>11. card(a) \in Nat /\ n \in Nat
  BY <1>2, <1>5, <1>6
<1> QED
  BY <1>4, <1>5, <1>9, <1>10, <1>11
-----------------------------------------------------------------------------
(* Natural loops.                                                           *)
Latches(succ, start, h) == {p \in DominatedBy(succ, start)[h] : h \in ToSet(succ[p])}

LEMMA ReachFrom ==
    ASSUME NEW succ, NEW start, IsFlowGraph(succ, start), NEW avoid,
           NEW a \in DOMAIN succ, NEW b \in Reach(succ, a, avoid)
    PROVE  Reach(succ, b, avoid) \subseteq Reach(succ, a, avoid)
<1>1. IsGraph(succ)
  BY DEF IsFlowGraph
<1>2. b \in DOMAIN succ /\ Closed(succ, avoid, Reach(succ, a, avoid))
  BY <1>1, ReachIn, ReachClosed
<1> QED
  BY <1>1, <1>2, ReachLeast

(* What a loop is made of: blocks its header dominates, the latches among   *)
(* them, and with a block other than the header all predecessors.           *)
LEMMA NaturalValue ==
    ASSUME NEW succ, NEW start, IsFlowGraph(succ, start), NEW h \in All(succ, start)
    PROVE  LET loop == NaturalLoop(succ, start, h)
           IN  /\ h \in loop /\ loop \subseteq DominatedBy(succ, start)[h]
               /\ Latches(succ, start, h) \subseteq loop
               /\ \A b \in loop \ {h} : \A p \in All(succ, start) : b \in ToSet(succ[p]) => p \in loop
<1> DEFINE dom == DominatedBy(succ, start)
           all == All(succ, start)
           lat == Latches(succ, start, h)
           loop == NaturalLoop(succ, start, h)
<1>1. /\ DOMAIN dom = all /\ all \subseteq DOMAIN succ /\ h \in dom[h] /\ dom[h] \subseteq all
      /\ dom[h] = all \ Reach(succ, start, h) /\ start \in DOMAIN succ /\ IsGraph(succ)
  BY DomValue DEF IsFlowGraph
<1>2. loop = {h} \cup {b \in all : Reach(succ, b, h) \cap lat # {}}
  BY <1>1 DEF NaturalLoop, Latches
<1>3. lat \subseteq dom[h]
  BY DEF Latches
<1> HIDE DEF dom, all, lat, loop
<1>4. ASSUME NEW b \in loop PROVE b \in dom[h]
  <2> SUFFICES ASSUME b # h, b \in Reach(succ, start, h) PROVE FALSE
    BY <1>1, <1>2, <1>4
  <2>1. Reach(succ, b, h) \subseteq Reach(succ, start, h)
    BY <1>1, ReachFrom
  <2> QED
    BY <1>1, <1>2, <1>3, <2>1
<1>5. ASSUME NEW p \in lat PROVE p \in loop
  <2>1. p \in all /\ p \in DOMAIN succ
    BY <1>1, <1>3, <1>5
  <2>2. p # h => p \in Reach(succ, p, h)
    BY <1>1, <2>1, ReachIn
  <2> QED
    BY <1>2, <1>5, <2>1, <2>2
<1>6. ASSUME NEW b \in loop \ {h}, NEW p \in all, b \in ToSet(succ[p]) PROVE p \in loop
  <2> SUFFICES ASSUME p # h PROVE Reach(succ, p, h) \cap lat # {}
    BY <1>2, <1>6
  <2>1. p \in Reach(succ, p, h) /\ Closed(succ, h, Reach(succ, p, h))
    BY <1>1, ReachIn, ReachClosed
  <2>2. b \in Reach(succ, p, h)
    BY <1>6, <2>1 DEF Closed
  <2>3. Reach(succ, b, h) \subseteq Reach(succ, p, h)
    BY <1>1, <2>2, ReachFrom
  <2> QED
    BY <1>2, <1>6, <2>3
<1> QED
  BY <1>2, <1>4, <1>5, <1>6 DEF dom, all, lat, loop

(* A set with the header and the latches that is closed under predecessors  *)
(* up to the header holds the loop.                                         *)
LEMMA NaturalLeast ==
    ASSUME NEW succ, NEW start, IsFlowGraph(succ, start), NEW h \in All(succ, start),
           NEW C, h \in C, Latches(succ, start, h) \subseteq C,
           \A b \in C \ {h} : \A p \in All(succ, start) : b \in ToSet(succ[p]) => p \in C
    PROVE  NaturalLoop(succ, start, h) \subseteq C
<1> SUFFICES ASSUME NEW b \in NaturalLoop(succ, start, h), b \notin C PROVE FALSE
  OBVIOUS
<1> DEFINE all == All(succ, start)
           S == all \ C
<1>1. /\ DOMAIN DominatedBy(succ, start) = all /\ all \subseteq DOMAIN succ
      /\ \A a \in all : ToSet(succ[a]) \subseteq all
  BY DomValue
<1>2. b \in all /\ Reach(succ, b, h) \cap Latches(succ, start, h) # {}
  BY <1>1 DEF NaturalLoop, Latches
<1>3. Closed(succ, h, S)
  BY <1>1 DEF Closed
<1>4. Reach(succ, b, h) \subseteq S
  <2>1. b \in DOMAIN succ /\ b \in S
    BY <1>1, <1>2
  <2> HIDE DEF S
  <2> QED
    BY <1>3, <2>1, ReachLeast DEF IsFlowGraph
<1> QED
  BY <1>2, <1>4

(* Two loops that share a block are nested: the one whose header does not   *)
(* dominate the other header is inside.                                     *)
LEMMA NaturalNested ==
    ASSUME NEW succ, NEW start, IsFlowGraph(succ, start),
           NEW g \in All(succ, start), NEW h \in All(succ, start),
           h \notin DominatedBy(succ, start)[g],
           NEW b \in NaturalLoop(succ, start, g), b \in NaturalLoop(succ, start, h)
    PROVE  NaturalLoop(succ, start, g) \subseteq NaturalLoop(succ, start, h)
<1> DEFINE dom == DominatedBy(succ, start)
           all == All(succ, start)
           inner == NaturalLoop(succ, start, g)
           outer == NaturalLoop(succ, start, h)
<1>1. /\ DOMAIN dom = all /\ all \subseteq DOMAIN succ /\ dom[start] = all
      /\ \A a \in all : /\ dom[a] = all \ Reach(succ, start, a) /\ a \in dom[a]
                        /\ ToSet(succ[a]) \subseteq all
      /\ IsGraph(succ) /\ start \in all /\ start \in DOMAIN succ
  BY DomValue DEF IsFlowGraph
<1>2. /\ g \in inner /\ inner \subseteq dom[g] /\ Latches(succ, start, g) \subseteq inner
      /\ \A x \in inner \ {g} : \A p \in all : x \in ToSet(succ[p]) => p \in inner
  BY NaturalValue
<1>3. outer = {h} \cup {x \in all : Reach(succ, x, h) \cap Latches(succ, start, h) # {}}
  BY <1>1 DEF NaturalLoop, Latches
<1> HIDE DEF dom, all, inner, outer
<1>4. g # h /\ g # start /\ h \notin inner
  <2>1. g \in all /\ h \in all /\ h \notin dom[g]
    BY DEF all, dom
  <2> QED
    BY <1>1, <1>2, <2>1
<1>5. dom[g] \subseteq Reach(succ, g, h)
  <2> DEFINE U == Reach(succ, start, g) \cup Reach(succ, g, h)
  <2>1. /\ Closed(succ, g, Reach(succ, start, g)) /\ start \in Reach(succ, start, g)
        /\ Closed(succ, h, Reach(succ, g, h)) /\ g \in Reach(succ, g, h)
    BY <1>1, <1>4, ReachIn, ReachClosed DEF all
  <2>2. h \in Reach(succ, start, g)
    BY <1>1 DEF dom, all
  <2>3. Closed(succ, 0, U)
    BY <2>1, <2>2 DEF Closed
  <2>4. all \subseteq U
    <3>1. start \in U
      BY <2>1
    <3> HIDE DEF U
    <3> QED
      BY <1>1, <2>3, <3>1, ReachLeast DEF all, All
  <2> QED
    BY <1>1, <2>4 DEF all
<1>6. Reach(succ, g, h) \cap Latches(succ, start, h) # {}
  <2>1. b # h /\ b \in inner /\ b \in outer
    BY <1>4 DEF inner, outer
  <2>2. b \in Reach(succ, g, h)
    BY <1>2, <1>5, <2>1
  <2>3. Reach(succ, b, h) \subseteq Reach(succ, g, h)
    BY <1>1, <2>2, ReachFrom DEF all
  <2> QED
    BY <1>3, <2>1, <2>3
<1>7. ASSUME NEW x \in inner PROVE g \in Reach(succ, x, h)
  <2>1. x \in all /\ x \in DOMAIN succ /\ x # h
    BY <1>1, <1>2, <1>4 DEF all
  <2>2. x \in Reach(succ, x, h) /\ Closed(succ, h, Reach(succ, x, h))
    BY <1>1, <2>1, ReachIn, ReachClosed
  <2>3. CASE x = g
    BY <2>2, <2>3
  <2>4. CASE x # g
    <3> DEFINE T == Reach(succ, x, h) \cup (all \ inner)
    <3>1. ASSUME NEW y \in T, NEW z \in ToSet(succ[y]), z # g PROVE z \in T
      <4>1. CASE y \in all \ inner
        BY <1>1, <1>2, <3>1, <4>1 DEF all
      <4>2. CASE y \in Reach(succ, x, h)
        <5>1. z = h \/ z \in Reach(succ, x, h)
          BY <2>2, <3>1, <4>2 DEF Closed
        <5> QED
          BY <1>4, <5>1 DEF all
      <4> QED
        BY <3>1, <4>1, <4>2
    <3>2. Closed(succ, g, T)
      BY <3>1 DEF Closed
    <3>3. Reach(succ, x, g) \subseteq T
      <4>1. x \in T
        BY <2>2
      <4> HIDE DEF T
      <4> QED
        BY <1>1, <2>1, <3>2, <4>1, ReachLeast
    <3>4. PICK q \in Latches(succ, start, g) : q \in Reach(succ, x, g)
      BY <1>1, <2>4, <1>7 DEF inner, NaturalLoop, Latches, dom
    <3>5. q \in Reach(succ, x, h) /\ g \in ToSet(succ[q])
      BY <1>2, <3>3, <3>4 DEF Latches
    <3> QED
      BY <1>4, <2>2, <3>5 DEF Closed
  <2> QED
    BY <2>3, <2>4
<1>8. ASSUME NEW x \in inner PROVE x \in outer
  <2>1. x \in all /\ x \in DOMAIN succ
    BY <1>1, <1>2 DEF all
  <2>2. Reach(succ, g, h) \subseteq Reach(succ, x, h)
    BY <1>7, <1>8, <2>1, ReachFrom
  <2> QED
    BY <1>3, <1>6, <2>1, <2>2
<1> QED
  BY <1>8 DEF inner, outer
=============================================================================
