------------------------------- MODULE LoopProofs -------------------------------
(***************************************************************************)
(* Loop detection, for every graph the builder emits and every number of    *)
(* functions analysed before: a loop is the natural loop of its header, and *)
(* the parents of loops are how they nest.  And the graphs themselves: they *)
(* have no cycle but through the headers that are searched for.             *)
(***************************************************************************)
EXTENDS DominatorProofs

-----------------------------------------------------------------------------
(* What the analysis of a function leaves for the search of its loops.      *)

(* All predecessors of a block that can be reached can be reached: from one *)
(* that cannot, the runner would not have come to the idom of the block.    *)
Alive(f) == \A b \in Found(f) : ToSet(pre_bbs[b]) \subseteq Found(f)

LiveRows(bbs, R) ==
    /\ \A k \in 1 .. Len(bbs) : bbs[k] \in R /\ Len(pre_bbs[bbs[k]]) > 1 =>
          \A j \in 1 .. Len(pre_bbs[bbs[k]]) :
              k < cursor \/ (k = cursor /\ j < pre) => pre_bbs[bbs[k]][j] \in R
    /\ pc = "runner" /\ bbs[cursor] \in R /\ pre_bbs[bbs[cursor]][pre] \notin R =>
          b1 \in BlocksOf(func) \cup {0} /\ b1 \notin R

Living ==
    /\ \A f \in Funcs : f < func \/ (f = func /\ pc \in {"order", "idle"}) => Alive(f)
    /\ pc \in {"frontier", "runner"} => LiveRows(basic_blocks[func], Found(func))

(* A block with one predecessor is as alive as that.                        *)
LEMMA AliveAtEnd ==
    ASSUME Placed, NEW e, NEW B, NEW R, NEW dom, Scene(e, B, R, dom), ToSet(pre_bbs[e]) = {},
           NEW bbs, Row(bbs, e, B, R), \A b \in B : \E k \in 1 .. Len(bbs) : b = bbs[k],
           LiveRows(bbs, R), cursor > Len(bbs)
    PROVE  \A b \in R : ToSet(pre_bbs[b]) \subseteq R
<1> SUFFICES ASSUME NEW b \in R, NEW p \in ToSet(pre_bbs[b]) PROVE p \in R
  OBVIOUS
<1>1. /\ b \in B /\ b \in R \ {e} /\ pre_bbs[b] \in Seq(Blocks)
      /\ \E q \in R : b \in ToSet(succ_bbs[q])
      /\ \A q \in R : b \in ToSet(succ_bbs[q]) => \E j \in 1 .. Len(pre_bbs[b]) : q = pre_bbs[b][j]
  <2>1. b \in B /\ b # e
    BY DEF Scene
  <2>2. \E q \in R : b \in ToSet(succ_bbs[q])
    BY <2>1 DEF Scene, Numbering
  <2> QED
    BY <2>1, <2>2 DEF Scene
<1>2. PICK n \in Nat : n = Len(pre_bbs[b]) /\ DOMAIN pre_bbs[b] = 1 .. n
  BY <1>1, LenProperties
<1>3. PICK i \in 1 .. n : p = pre_bbs[b][i]
  BY <1>2 DEF ToSet
<1>4. PICK q \in R : \E j \in 1 .. n : q = pre_bbs[b][j]
  BY <1>1, <1>2
<1>5. CASE n > 1
  <2>1. PICK k \in 1 .. Len(bbs) : b = bbs[k]
    BY <1>1
  <2>2. k < cursor
    BY DEF Row, Placed, D!TypeOK
  <2> QED
    BY <1>2, <1>3, <1>5, <2>1, <2>2 DEF LiveRows
<1>6. CASE ~(n > 1)
  <2>1. PICK j \in 1 .. n : q = pre_bbs[b][j]
    BY <1>4
  <2>2. i = j
    BY <1>6
  <2> QED
    BY <1>3, <2>1, <2>2
<1> QED
  BY <1>5, <1>6

LEMMA LiveStarts ==
    ASSUME Placed, NEW e, NEW B, NEW R, NEW dom, Scene(e, B, R, dom), Settled(e, B, R, dom),
           NEW bbs, Row(bbs, e, B, R), bbs = basic_blocks[func], B = BlocksOf(func),
           UNCHANGED <<basic_blocks, succ_bbs, pre_bbs>>,
           LiveRows(bbs, R), D!FrontierBlock
    PROVE  LiveRows(bbs, R)'
<1>1. PICK bb : bb = bbs[cursor]
  OBVIOUS
<1>2. /\ pc = "frontier" /\ cursor <= Len(bbs) /\ UNCHANGED func
      /\ IF Len(pre_bbs[bb]) > 1 /\ pre <= Len(pre_bbs[bb])
         THEN b1' = pre_bbs[bb][pre] /\ pc' = "runner" /\ UNCHANGED <<cursor, pre>>
         ELSE cursor' = cursor + 1 /\ pre' = 1 /\ pc' = "frontier"
  BY <1>1 DEF D!FrontierBlock, D!joins
<1>3. cursor \in 1 .. Len(bbs) /\ cursor \in Nat /\ pre \in Nat \ {0} /\ bb \in B
  BY <1>1, <1>2 DEF Row, Placed, Places, D!TypeOK
<1>4. /\ Len(pre_bbs[bb]) \in Nat
      /\ \A j \in 1 .. Len(pre_bbs[bb]) : pre_bbs[bb][j] \in B
  BY <1>3, LenProperties DEF Scene
<1>5. BlocksOf(func)' = B
  BY <1>2 DEF BlocksOf
<1>6. \A k \in 1 .. Len(bbs) : bbs[k] \in R /\ Len(pre_bbs[bbs[k]]) > 1 =>
         \A j \in 1 .. Len(pre_bbs[bbs[k]]) :
             k < cursor \/ (k = cursor /\ j < pre) => pre_bbs[bbs[k]][j] \in R
  BY DEF LiveRows
<1>7. CASE Len(pre_bbs[bb]) > 1 /\ pre <= Len(pre_bbs[bb])
  <2>1. pre_bbs[bb][pre] \in B
    BY <1>3, <1>4, <1>7
  <2>2. b1' = pre_bbs[bb][pre] /\ UNCHANGED <<cursor, pre>>
    BY <1>2, <1>7
  <2> QED
    BY <1>1, <1>5, <1>6, <2>1, <2>2 DEF LiveRows
<1>8. CASE ~(Len(pre_bbs[bb]) > 1 /\ pre <= Len(pre_bbs[bb]))
  <2>1. cursor' = cursor + 1 /\ pre' = 1 /\ pc' = "frontier"
    BY <1>2, <1>8
  <2>2. ASSUME NEW k \in 1 .. Len(bbs), bbs[k] \in R, Len(pre_bbs[bbs[k]]) > 1,
               NEW j \in 1 .. Len(pre_bbs[bbs[k]]), k < cursor' \/ (k = cursor' /\ j < pre')
        PROVE  pre_bbs[bbs[k]][j] \in R
    <3>1. k < cursor \/ k = cursor
      BY <1>3, <2>1, <2>2
    <3>2. k = cursor => j < pre
      BY <1>1, <1>3, <1>4, <1>8, <2>2
    <3> QED
      BY <1>6, <2>2, <3>1, <3>2
  <2> QED
    BY <2>1, <2>2 DEF LiveRows
<1> QED
  BY <1>7, <1>8

LEMMA LiveTurns ==
    ASSUME Placed, NEW e, NEW B, NEW R, NEW dom, Scene(e, B, R, dom), Settled(e, B, R, dom),
           NEW bbs, Row(bbs, e, B, R), bbs = basic_blocks[func], B = BlocksOf(func),
           UNCHANGED <<basic_blocks, succ_bbs, pre_bbs>>,
           ToSet(pre_bbs[e]) = {}, LiveRows(bbs, R), D!Runner, pc' # "crash"
    PROVE  LiveRows(bbs, R)'
<1>1. PICK bb, p : bb = bbs[cursor] /\ p = pre_bbs[bb][pre]
  OBVIOUS
<1>2. /\ pc = "runner" /\ UNCHANGED <<func, cursor>>
      /\ \/ b1 = idom[bb] /\ pc' = "frontier" /\ pre' = pre + 1
         \/ b1 # idom[bb] /\ b1 # 0 /\ pc' = "runner" /\ pre' = pre /\ b1' = idom[b1]
  BY <1>1 DEF D!Runner, D!NoBlock
<1>3. /\ cursor \in 1 .. Len(bbs) /\ cursor \in Nat /\ bb \in B /\ pre \in Nat \ {0}
      /\ pre <= Len(pre_bbs[bb])
  BY <1>1, <1>2 DEF Row, Placed, Places, D!TypeOK
<1>4. BlocksOf(func)' = B
  BY <1>2 DEF BlocksOf
<1>5. \A k \in 1 .. Len(bbs) : bbs[k] \in R /\ Len(pre_bbs[bbs[k]]) > 1 =>
         \A j \in 1 .. Len(pre_bbs[bbs[k]]) :
             k < cursor \/ (k = cursor /\ j < pre) => pre_bbs[bbs[k]][j] \in R
  BY DEF LiveRows
<1>6. bb \in R /\ p \notin R => b1 \in B \cup {0} /\ b1 \notin R
  BY <1>1, <1>2 DEF LiveRows
<1>7. CASE b1 = idom[bb] /\ pc' = "frontier" /\ pre' = pre + 1
  <2>1. ASSUME bb \in R PROVE p \in R
    <3>1. bb # e
      <4>1. /\ pre_bbs[bb] \in Seq(Blocks)
            /\ \A j \in 1 .. Len(pre_bbs[bb]) : pre_bbs[bb][j] \in ToSet(pre_bbs[bb])
        BY <1>3, LenProperties DEF Scene, ToSet
      <4>2. pre \in 1 .. Len(pre_bbs[bb])
        BY <1>3, <4>1, LenProperties
      <4> QED
        BY <4>1, <4>2
    <3>2. idom[bb] \in R
      BY <2>1, <3>1 DEF Settled
    <3> QED
      BY <1>6, <1>7, <2>1, <3>2
  <2>2. ASSUME NEW k \in 1 .. Len(bbs), bbs[k] \in R, Len(pre_bbs[bbs[k]]) > 1,
               NEW j \in 1 .. Len(pre_bbs[bbs[k]]), k < cursor \/ (k = cursor /\ j < pre + 1)
        PROVE  pre_bbs[bbs[k]][j] \in R
    <3>1. k < cursor \/ (k = cursor /\ j < pre) \/ (k = cursor /\ j = pre)
      BY <1>3, <2>2
    <3> QED
      BY <1>1, <1>5, <2>1, <2>2, <3>1
  <2> QED
    BY <1>2, <1>7, <2>2 DEF LiveRows
<1>8. CASE b1 # idom[bb] /\ b1 # 0 /\ pc' = "runner" /\ pre' = pre /\ b1' = idom[b1]
  <2>1. ASSUME bb \in R, p \notin R PROVE b1' = 0 /\ 0 \notin R
    <3>1. b1 \in B \ R
      BY <1>6, <1>8, <2>1
    <3> QED
      BY <1>8, <3>1, TreeFacts DEF Settled
  <2> QED
    BY <1>1, <1>2, <1>4, <1>5, <1>8, <2>1 DEF LiveRows
<1> QED
  BY <1>2, <1>7, <1>8

LEMMA LivingStep ==
    ASSUME Ready, Placed, Searched, Linked, Fresh, Fixed, Living, UNCHANGED builder_vars,
           D!NextDominators
    PROVE  Living'
<1>1. /\ UNCHANGED <<basic_blocks, succ_bbs, pre_bbs>>
      /\ \A f : /\ Entry(f)' = Entry(f) /\ BlocksOf(f)' = BlocksOf(f) /\ Found(f)' = Found(f)
                /\ Doms(f)' = Doms(f) /\ (Alive(f)' <=> Alive(f))
  BY DEF builder_vars, Entry, Found, BlocksOf, Doms, Alive
<1>2. func \in Nat /\ Funcs \subseteq Nat \ {0}
  BY DEF Placed, D!TypeOK, Funcs
<1>3. CASE D!RunOnFunc
  <2>1. pc = "idle" /\ pc' = "dfs" /\ func' = func + 1
    BY <1>3 DEF D!RunOnFunc
  <2>2. \A f \in Funcs : f < func' => f < func \/ f = func
    BY <1>2, <2>1
  <2> QED
    BY <1>1, <2>1, <2>2 DEF Living
<1>4. CASE /\ UNCHANGED <<func, dom_frontier, dom_tree_succ, dom_tree_L, dom_tree_R>>
           /\ pc \in Early /\ pc' \in Early \cup {"frontier", "crash"}
           /\ pc' = "frontier" => pc = "sweep" /\ cursor' = 1 /\ pre' = pre
  <2>1. ASSUME pc' = "frontier" PROVE LiveRows(basic_blocks[func], Found(func))'
    <3>1. pre' = 1 /\ cursor' = 1
      BY <1>4, <2>1 DEF Fresh
    <3> QED
      BY <2>1, <3>1 DEF LiveRows
  <2> QED
    BY <1>1, <1>4, <2>1 DEF Living, Early
<1>5. CASE /\ UNCHANGED <<func, dom_frontier, dom_tree_succ, idom>>
           /\ pc = "order" /\ pc' \in {"order", "idle"}
  BY <1>1, <1>5 DEF Living
<1>6. CASE D!FrontierBlock \/ D!Runner \/ D!CreateDomTree
  <2>1. /\ pc \in {"frontier", "runner"}
        /\ D!FrontierBlock => pc' \in {"frontier", "runner"}
        /\ D!Runner => pc' \in {"frontier", "runner", "crash"}
        /\ D!CreateDomTree => pc' = "order"
    BY <1>6 DEF D!FrontierBlock, D!Runner, D!CreateDomTree
  <2>2. ~D!RunOnFunc /\ ~D!DfsEnter /\ ~D!DfsLeave
    BY <2>1 DEF D!RunOnFunc, D!DfsEnter, D!DfsLeave
  <2>3. PICK f, e, B, R, dom :
          /\ f \in Funcs /\ func = f /\ func' = f
          /\ Seen(f, e, B, R, dom) /\ Seen(f, e, B, R, dom)' /\ Scene(e, B, R, dom)
    BY <2>2, SceneKept DEF Seen
  <2>4. PICK bbs : bbs = basic_blocks[f]
    OBVIOUS
  <2>5. /\ Settled(e, B, R, dom) /\ Row(bbs, e, B, R)
        /\ \A b \in B : \E k \in 1 .. Len(bbs) : b = bbs[k]
    BY <2>1, <2>3, <2>4, FrontierScene
  <2>6. ToSet(pre_bbs[e]) = {}
    BY <2>3, GraphFacts DEF Seen
  <2>7. LiveRows(bbs, R)
    BY <2>1, <2>3, <2>4 DEF Living, Seen
  <2>8. (D!FrontierBlock \/ D!Runner) /\ pc' # "crash" => LiveRows(bbs, R)'
    <3>1. bbs = basic_blocks[func] /\ B = BlocksOf(func)
      BY <2>3, <2>4 DEF Seen
    <3>2. D!FrontierBlock => LiveRows(bbs, R)'
      BY <1>1, <2>3, <2>5, <2>7, <3>1, LiveStarts
    <3>3. D!Runner /\ pc' # "crash" => LiveRows(bbs, R)'
      BY <1>1, <2>3, <2>5, <2>6, <2>7, <3>1, LiveTurns
    <3> QED
      BY <3>2, <3>3
  <2>9. ASSUME D!CreateDomTree PROVE Alive(f)
    <3>1. cursor > Len(bbs)
      BY <2>3, <2>4, <2>9 DEF D!CreateDomTree
    <3>2. \A b \in R : ToSet(pre_bbs[b]) \subseteq R
      BY <2>3, <2>5, <2>6, <2>7, <3>1, AliveAtEnd
    <3> QED
      BY <2>3, <3>2 DEF Alive, Seen
  <2>10. ASSUME NEW g \in Funcs, g < func' \/ (g = func' /\ pc' \in {"order", "idle"})
         PROVE  Alive(g)'
    <3>1. CASE g = f
      <4>1. ~(g < func')
        BY <1>2, <2>3, <3>1
      <4>2. D!CreateDomTree
        BY <1>6, <2>1, <2>10, <4>1
      <4> QED
        BY <1>1, <2>9, <3>1, <4>2
    <3>2. CASE g # f
      BY <1>1, <2>3, <2>10, <3>2 DEF Living
    <3> QED
      BY <3>1, <3>2
  <2>11. pc' \in {"frontier", "runner"} => LiveRows(basic_blocks[func], Found(func))'
    <3>1. basic_blocks'[func'] = bbs /\ Found(func)' = R
      BY <1>1, <2>3, <2>4 DEF Seen, Found, Entry
    <3>2. pc' \in {"frontier", "runner"} => LiveRows(bbs, R)'
      BY <1>6, <2>1, <2>8
    <3> QED
      BY <3>1, <3>2
  <2> QED
    BY <2>10, <2>11 DEF Living
<1> QED
  BY <1>3, <1>4, <1>5, <1>6, StepKinds

LEMMA LivingAlways == SpecAnalysis => []Living
<1>1. InitAnalysis => Living
  <2> SUFFICES ASSUME InitAnalysis PROVE Living
    OBVIOUS
  <2>1. func = 0 /\ pc = "idle"
    BY DEF InitAnalysis, D!InitDominators
  <2>2. Funcs \subseteq Nat \ {0}
    BY DEF Funcs
  <2> QED
    BY <2>1, <2>2 DEF Living
<1>2. Built /\ Placed /\ Searched /\ Linked /\ Fresh /\ Fixed /\ Living /\ [NextAnalysis]_all_vars => Living'
  <2> SUFFICES ASSUME Built, Placed, Searched, Linked, Fresh, Fixed, Living, [NextAnalysis]_all_vars
               PROVE  Living'
    OBVIOUS
  <2>1. func # 0 => compiled
    BY DEF Placed, Places
  <2>2. CASE dom_vars' = dom_vars /\ (func # 0 => builder_vars' = builder_vars)
    <3>1. UNCHANGED <<pc, func, cursor, pre, b1, idom>>
      BY <2>2 DEF dom_vars
    <3>2. CASE func = 0
      <4>1. pc = "idle" /\ \A f \in Funcs : ~(f < func) /\ f # func
        BY <3>2 DEF Placed, Places, Funcs
      <4> QED
        BY <3>1, <3>2, <4>1 DEF Living, Funcs
    <3>3. CASE func # 0
      <4>1. UNCHANGED <<basic_blocks, succ_bbs, pre_bbs>>
        BY <2>2, <3>3 DEF builder_vars
      <4>2. \A f : Found(f)' = Found(f) /\ (Alive(f)' <=> Alive(f))
        BY <4>1 DEF Entry, Found, Alive
      <4>3. PICK bbs, R : bbs = basic_blocks[func] /\ R = Found(func)
        OBVIOUS
      <4>4. basic_blocks'[func'] = bbs /\ Found(func)' = R /\ BlocksOf(func)' = BlocksOf(func)
        BY <3>1, <4>1, <4>3 DEF Found, Entry, BlocksOf
      <4>5. LiveRows(bbs, R) => LiveRows(bbs, R)'
        BY <3>1, <4>1, <4>4 DEF LiveRows
      <4> QED
        BY <3>1, <4>2, <4>3, <4>4, <4>5 DEF Living
    <3> QED
      BY <3>2, <3>3
  <2>3. CASE compiled /\ D!NextDominators /\ builder_vars' = builder_vars
    <3>1. Ready
      BY <2>3 DEF Ready, Built
    <3> QED
      BY <2>3, <3>1, LivingStep
  <2> QED
    BY <2>1, <2>2, <2>3, AnalysisStep
<1> QED
  BY BuiltAlways, PlacedAlways, SearchedAlways, LinkedAlways, FixedAlways, <1>1, <1>2, PTL DEF SpecAnalysis

-----------------------------------------------------------------------------
(* A block is numbered from 1 up to the number of blocks just if it can be  *)
(* reached.                                                                 *)
UnrankedIn(f) == \A b \in BlocksOf(f) : dom_tree_L[b] = 0
RankedIn(f) ==
    \A b \in BlocksOf(f) :
        IF b \in Found(f) THEN dom_tree_L[b] \in 1 .. Cardinality(Blocks) ELSE dom_tree_L[b] = 0

Ranking(B) == /\ order = Cardinality(visited) /\ visited \subseteq B
              /\ \A b \in B : IF b \in visited THEN dom_tree_L[b] \in 1 .. order ELSE dom_tree_L[b] = 0

Ranked ==
    /\ func = 0 => \A b \in Blocks : dom_tree_L[b] = 0
    /\ \A f \in Funcs : f > func \/ (f = func /\ pc \notin {"order", "idle"}) => UnrankedIn(f)
    /\ pc = "order" => Ranking(BlocksOf(func))
    /\ pc = "idle" /\ func # 0 => RankedIn(func)

LEMMA BlocksFinite == IsFiniteSet(Blocks) /\ Cardinality(Blocks) \in Nat
<1>1. Blocks = 1 .. MaxBlocks /\ MaxBlocks \in Nat
  BY BuilderAssumption DEF Blocks, BuilderAssumption
<1>2. IsFiniteSet(1 .. MaxBlocks)
  BY <1>1, FS_Interval
<1>3. IsFiniteSet(Blocks)
  BY <1>1, <1>2
<1> QED
  BY <1>3, FS_CardinalityType

LEMMA RankedStep ==
    ASSUME Ready, Placed, Searched, Linked, Fixed, Trees, Ranked, UNCHANGED builder_vars,
           D!NextDominators
    PROVE  Ranked'
<1>1. /\ UNCHANGED <<basic_blocks, succ_bbs, pre_bbs>>
      /\ \A f : /\ Entry(f)' = Entry(f) /\ BlocksOf(f)' = BlocksOf(f) /\ Found(f)' = Found(f)
  BY DEF builder_vars, Entry, Found, BlocksOf
<1>2. func \in Nat /\ Funcs \subseteq Nat \ {0} /\ dom_tree_L \in [Blocks -> Nat]
  BY DEF Placed, D!TypeOK, Funcs
<1>3. dom_tree_L' = dom_tree_L => \A f : UnrankedIn(f)' <=> UnrankedIn(f)
  BY <1>1 DEF UnrankedIn
<1>4. CASE D!RunOnFunc
  <2>1. pc' = "dfs" /\ func' = func + 1 /\ dom_tree_L' = dom_tree_L
    BY <1>4 DEF D!RunOnFunc, D!tree_vars
  <2>2. \A f \in Funcs : f > func' \/ f = func' => f > func
    BY <1>2, <2>1
  <2>3. func' # 0
    BY <1>2, <2>1
  <2> QED
    BY <1>3, <2>1, <2>2, <2>3 DEF Ranked
<1>5. CASE /\ UNCHANGED <<func, dom_tree_L>> /\ pc \notin {"order", "idle"}
           /\ pc' \notin {"order", "idle"}
  BY <1>3, <1>5 DEF Ranked
<1>6. CASE D!CreateDomTree \/ D!OrderLeave \/ D!FuncDone \/ \E c \in Blocks : D!OrderEnter(c)
  <2>1. /\ D!CreateDomTree => /\ pc = "frontier" /\ pc' = "order" /\ order' = 1
                              /\ visited' = {D!entry(func)}
                              /\ dom_tree_L' = [dom_tree_L EXCEPT ![D!entry(func)] = 1]
        /\ D!OrderLeave => pc = "order" /\ pc' = "order" /\ UNCHANGED <<visited, order, dom_tree_L>>
        /\ D!FuncDone => /\ pc = "order" /\ pc' = "idle" /\ path = <<>> /\ UNCHANGED dom_tree_L
        /\ \A c \in Blocks : D!OrderEnter(c) =>
              /\ pc = "order" /\ pc' = "order" /\ path # <<>>
              /\ c \in dom_tree_succ[path[Len(path)]] \ visited
              /\ visited' = visited \cup {c} /\ order' = order + 1
              /\ dom_tree_L' = [dom_tree_L EXCEPT ![c] = order + 1]
    BY DEF D!CreateDomTree, D!OrderLeave, D!FuncDone, D!OrderEnter, D!tree_vars, D!last
  <2>2. ~D!RunOnFunc /\ ~D!DfsEnter /\ ~D!DfsLeave /\ pc \in {"frontier", "order"} /\ pc' \in {"order", "idle"}
    BY <1>6, <2>1 DEF D!RunOnFunc, D!DfsEnter, D!DfsLeave
  <2>3. PICK f, e, B, R, dom :
          /\ f \in Funcs /\ func = f /\ func' = f
          /\ Seen(f, e, B, R, dom) /\ Seen(f, e, B, R, dom)' /\ Scene(e, B, R, dom)
    BY <2>2, SceneKept DEF Seen
  <2>4. e \in R /\ R \subseteq B /\ B \subseteq Blocks /\ IsFiniteSet(Blocks) /\ e = D!entry(func)
    <3>1. e \in R /\ R \subseteq B /\ B \subseteq Blocks
      BY <2>3, TreeFacts
    <3>2. e = D!entry(func)
      BY <2>3, DomIs DEF Seen
    <3> QED
      BY <3>1, <3>2, BlocksFinite
  <2>5. pc = "order" => Ranking(B) /\ NumbersOf(e, R, dom)
    BY <2>3 DEF Trees, Ranked, Seen
  <2>6. ASSUME D!CreateDomTree
        PROVE  Ranking(B)' /\ \A x \in Blocks \ B : dom_tree_L'[x] = dom_tree_L[x]
    <3>1. \A b \in B : dom_tree_L[b] = 0
      BY <2>1, <2>3, <2>6 DEF Ranked, UnrankedIn, Seen
    <3>2. Cardinality({e}) = 1
      BY FS_Singleton
    <3>3. /\ order' = 1 /\ visited' = {e} /\ dom_tree_L'[e] = 1
          /\ \A x \in Blocks \ {e} : dom_tree_L'[x] = dom_tree_L[x]
      BY <1>2, <2>1, <2>4, <2>6
    <3>4. visited' \subseteq B /\ order' = Cardinality(visited')
      BY <2>4, <3>2, <3>3
    <3>5. \A b \in B : IF b \in visited' THEN dom_tree_L'[b] \in 1 .. order' ELSE dom_tree_L'[b] = 0
      BY <2>4, <3>1, <3>3
    <3> QED
      BY <2>4, <3>3, <3>4, <3>5 DEF Ranking
  <2>7. ASSUME NEW c \in Blocks, D!OrderEnter(c)
        PROVE  Ranking(B)' /\ \A x \in Blocks \ B : dom_tree_L'[x] = dom_tree_L[x]
    <3>1. /\ c \in dom_tree_succ[path[Len(path)]] \ visited /\ path # <<>>
          /\ visited' = visited \cup {c} /\ order' = order + 1
          /\ dom_tree_L' = [dom_tree_L EXCEPT ![c] = order + 1]
      BY <2>1, <2>7
    <3>2. Ranking(B) /\ NumbersOf(e, R, dom)
      BY <2>1, <2>5, <2>7
    <3>3. c \in R
      <4>1. path \in Seq(Blocks)
        BY DEF Placed, D!TypeOK
      <4>2. Len(path) \in DOMAIN path
        BY <3>1, <4>1, LenProperties, EmptySeq
      <4>3. path[Len(path)] \in R
        BY <3>2, <4>2 DEF NumbersOf, ToSet
      <4> QED
        BY <3>1, <3>2, <4>3 DEF NumbersOf
    <3>4. /\ order = Cardinality(visited) /\ visited \subseteq B
          /\ \A b \in B : IF b \in visited THEN dom_tree_L[b] \in 1 .. order ELSE dom_tree_L[b] = 0
      BY <3>2 DEF Ranking
    <3>5. IsFiniteSet(visited) /\ order \in Nat
      BY <2>4, <3>4, FS_Subset DEF Placed, D!TypeOK
    <3>6. order' = Cardinality(visited')
      BY <3>1, <3>4, <3>5, FS_AddElement
    <3>7. dom_tree_L'[c] = order + 1 /\ \A x \in Blocks \ {c} : dom_tree_L'[x] = dom_tree_L[x]
      BY <1>2, <3>1
    <3>8. \A b \in B : IF b \in visited' THEN dom_tree_L'[b] \in 1 .. order' ELSE dom_tree_L'[b] = 0
      BY <2>4, <3>1, <3>4, <3>5, <3>7
    <3>9. visited' \subseteq B
      BY <2>4, <3>1, <3>3, <3>4
    <3>10. \A x \in Blocks \ B : dom_tree_L'[x] = dom_tree_L[x]
      BY <2>4, <3>3, <3>7
    <3> QED
      BY <3>6, <3>8, <3>9, <3>10 DEF Ranking
  <2>8. ASSUME D!OrderLeave PROVE Ranking(B)'
    BY <2>1, <2>5, <2>8 DEF Ranking
  <2>9. ASSUME D!FuncDone PROVE RankedIn(f)'
    <3>1. path = <<>> /\ dom_tree_L' = dom_tree_L /\ Ranking(B) /\ NumbersOf(e, R, dom)
      BY <2>1, <2>5, <2>9
    <3>2. ToSet(path) = {}
      BY <3>1 DEF ToSet
    <3>3. visited = R
      <4>1. dom[e] = R
        BY <2>3, TreeFacts
      <4> QED
        BY <3>1, <3>2, <4>1 DEF NumbersOf
    <3>4. Cardinality(visited) <= Cardinality(Blocks) /\ Cardinality(Blocks) \in Nat
      BY <2>4, <3>3, FS_Subset, FS_CardinalityType
    <3>5. ASSUME NEW b \in B
          PROVE  IF b \in R THEN dom_tree_L[b] \in 1 .. Cardinality(Blocks) ELSE dom_tree_L[b] = 0
      <4>1. b \in R => dom_tree_L[b] \in 1 .. order
        BY <3>1, <3>3, <3>5 DEF Ranking
      <4>2. b \notin R => dom_tree_L[b] = 0
        BY <3>1, <3>3, <3>5 DEF Ranking
      <4>3. order <= Cardinality(Blocks) /\ order \in Nat
        BY <3>1, <3>4 DEF Ranking, Placed, D!TypeOK
      <4> QED
        BY <3>4, <4>1, <4>2, <4>3
    <3> QED
      BY <1>1, <2>3, <3>1, <3>5 DEF RankedIn, Seen
  <2>10. ASSUME NEW g \in Funcs, g > func' PROVE UnrankedIn(g)'
    <3>1. g > func /\ g # f /\ g \in Funcs \ {f}
      BY <1>2, <2>3, <2>10
    <3>2. UnrankedIn(g)
      BY <3>1 DEF Ranked
    <3>3. BlocksOf(g) \subseteq Blocks \ B
      BY <2>3, <3>1, GraphFacts, ListFacts DEF Seen
    <3>4. \A x \in Blocks \ B : dom_tree_L'[x] = dom_tree_L[x]
      BY <1>6, <2>1, <2>6, <2>7
    <3> QED
      BY <1>1, <3>2, <3>3, <3>4 DEF UnrankedIn
  <2>11. pc' = "order" => Ranking(BlocksOf(func))'
    <3>1. pc' = "order" => Ranking(B)'
      BY <1>6, <2>1, <2>6, <2>7, <2>8
    <3>2. BlocksOf(func)' = B
      BY <1>1, <2>3 DEF Seen, BlocksOf
    <3> QED
      BY <3>1, <3>2
  <2>12. pc' = "idle" => RankedIn(func)'
    <3>1. pc' = "idle" => D!FuncDone
      BY <1>6, <2>1
    <3>2. RankedIn(func)' <=> RankedIn(f)'
      BY <2>3 DEF RankedIn, Found, Entry, BlocksOf
    <3> QED
      BY <2>9, <3>1, <3>2
  <2>13. func' # 0
    BY <1>2, <2>3
  <2> QED
    BY <2>2, <2>10, <2>11, <2>12, <2>13 DEF Ranked
<1>7. CASE D!FrontierBlock \/ D!Runner
  <2>1. /\ UNCHANGED <<func, dom_tree_L>> /\ pc \in {"frontier", "runner"}
        /\ pc' \in {"frontier", "runner", "crash"}
    BY <1>7 DEF D!FrontierBlock, D!Runner, D!tree_vars
  <2> QED
    BY <1>5, <2>1
<1>8. CASE /\ UNCHANGED <<func, dom_frontier, dom_tree_succ, dom_tree_L, dom_tree_R>>
           /\ pc \in Early /\ pc' \in Early \cup {"frontier", "crash"}
  BY <1>5, <1>8 DEF Early
<1> QED
  BY <1>4, <1>6, <1>7, <1>8, StepKinds

LEMMA RankedAlways == SpecAnalysis => []Ranked
<1>1. InitAnalysis => Ranked
  <2> SUFFICES ASSUME InitAnalysis PROVE Ranked
    OBVIOUS
  <2>1. func = 0 /\ pc = "idle" /\ dom_tree_L = [b \in Blocks |-> 0]
    BY DEF InitAnalysis, D!InitDominators
  <2>2. \A f \in Funcs : BlocksOf(f) = {}
    <3>1. \A f \in Funcs : basic_blocks[f] = <<>>
      BY DEF InitAnalysis, Init
    <3> QED
      BY <3>1 DEF BlocksOf, ToSet
  <2> QED
    BY <2>1, <2>2 DEF Ranked, UnrankedIn
<1>2. Built /\ Built' /\ Placed /\ Searched /\ Linked /\ Fixed /\ Trees /\ Ranked /\ [NextAnalysis]_all_vars => Ranked'
  <2> SUFFICES ASSUME Built, Built', Placed, Searched, Linked, Fixed, Trees, Ranked,
                      [NextAnalysis]_all_vars
               PROVE  Ranked'
    OBVIOUS
  <2>1. func # 0 => compiled
    BY DEF Placed, Places
  <2>2. CASE dom_vars' = dom_vars /\ (func # 0 => builder_vars' = builder_vars)
    <3>1. UNCHANGED <<pc, func, visited, dom_tree_L, order>>
      BY <2>2 DEF dom_vars
    <3>2. CASE func = 0
      <4>1. pc = "idle" /\ \A b \in Blocks : dom_tree_L[b] = 0
        BY <3>2 DEF Ranked, Placed, Places
      <4>2. \A f \in Funcs : BlocksOf(f)' \subseteq Blocks
        BY OwnBlocksNext DEF Blocks, Funcs
      <4>3. \A f \in Funcs : UnrankedIn(f)'
        BY <3>1, <4>1, <4>2 DEF UnrankedIn
      <4> QED
        BY <3>1, <3>2, <4>1, <4>3 DEF Ranked
    <3>3. CASE func # 0
      <4>1. UNCHANGED <<basic_blocks, succ_bbs, pre_bbs>>
        BY <2>2, <3>3 DEF builder_vars
      <4>2. \A f : BlocksOf(f)' = BlocksOf(f) /\ Found(f)' = Found(f)
        BY <4>1 DEF Entry, Found, BlocksOf
      <4>3. \A f : (UnrankedIn(f)' <=> UnrankedIn(f)) /\ (RankedIn(f)' <=> RankedIn(f))
        BY <3>1, <4>2 DEF UnrankedIn, RankedIn
      <4>4. PICK B : B = BlocksOf(func)
        OBVIOUS
      <4>5. BlocksOf(func)' = B
        BY <3>1, <4>1, <4>4 DEF BlocksOf
      <4>6. Ranking(B) => Ranking(B)'
        BY <3>1 DEF Ranking
      <4>7. RankedIn(func) => RankedIn(func)'
        BY <3>1, <4>1 DEF RankedIn, BlocksOf, Found, Entry
      <4> QED
        BY <3>1, <3>3, <4>3, <4>4, <4>5, <4>6, <4>7 DEF Ranked
    <3> QED
      BY <3>2, <3>3
  <2>3. CASE compiled /\ D!NextDominators /\ builder_vars' = builder_vars
    <3>1. Ready
      BY <2>3 DEF Ready, Built
    <3> QED
      BY <2>3, <3>1, RankedStep
  <2> QED
    BY <2>1, <2>2, <2>3, AnalysisStep
<1> QED
  BY BuiltAlways, PlacedAlways, SearchedAlways, LinkedAlways, FixedAlways, TreesAlways, <1>1, <1>2,
     PTL DEF SpecAnalysis

-----------------------------------------------------------------------------
(* Lists.                                                                   *)
LEMMA Elements ==
    ASSUME NEW S, NEW s \in Seq(S)
    PROVE  ToSet(s) \subseteq S /\ Len(s) \in Nat /\ DOMAIN s = 1 .. Len(s)
BY ElementOfSeq, LenProperties DEF ToSet

LEMMA LastTaken ==
    ASSUME NEW S, NEW s \in Seq(S), s # <<>>, NEW t, t = SubSeq(s, 1, Len(s) - 1)
    PROVE  s[Len(s)] \in S /\ t \in Seq(S) /\ ToSet(s) = ToSet(t) \cup {s[Len(s)]}
<1>1. PICK n \in Nat : n = Len(s) /\ DOMAIN s = 1 .. n
  BY LenProperties
<1>2. n >= 1
  BY <1>1, EmptySeq
<1>3. /\ t \in Seq(S) /\ Len(t) = n - 1 /\ \A i \in 1 .. n - 1 : t[i] = s[i]
  <2>1. \A i \in 1 .. n - 1 : s[i] \in S
    BY <1>1, ElementOfSeq
  <2>2. n - 1 \in Nat /\ 1 \in Int /\ n - 1 \in Int /\ t = SubSeq(s, 1, n - 1)
    BY <1>1, <1>2
  <2> QED
    BY <1>1, <1>2, <2>1, <2>2, SubSeqProperties
<1>4. DOMAIN t = 1 .. n - 1
  BY <1>3, LenProperties
<1>5. ToSet(s) = {s[i] : i \in 1 .. n} /\ ToSet(t) = {t[i] : i \in 1 .. n - 1}
  BY <1>1, <1>4 DEF ToSet
<1>6. \A i \in 1 .. n : i \in 1 .. n - 1 \/ i = n
  BY <1>1
<1>7. 1 .. n - 1 \subseteq 1 .. n /\ n \in 1 .. n
  BY <1>1, <1>2
<1>8. s[n] \in S
  BY <1>1, <1>7, ElementOfSeq
<1> QED
  BY <1>1, <1>3, <1>5, <1>6, <1>7, <1>8

LEMMA Joined ==
    ASSUME NEW S, NEW s \in Seq(S), NEW t \in Seq(S)
    PROVE  /\ s \o t \in Seq(S) /\ ToSet(s \o t) = ToSet(s) \cup ToSet(t)
           /\ IsInjective(s) /\ IsInjective(t) /\ ToSet(s) \cap ToSet(t) = {} => IsInjective(s \o t)
<1>0. PICK u : u = s \o t
  OBVIOUS
<1>1. PICK m \in Nat, n \in Nat : /\ m = Len(s) /\ DOMAIN s = 1 .. m
                                  /\ n = Len(t) /\ DOMAIN t = 1 .. n
  BY LenProperties
<1>2. /\ u \in Seq(S) /\ Len(u) = m + n
      /\ \A i \in 1 .. m + n : u[i] = IF i <= m THEN s[i] ELSE t[i - m]
  BY <1>0, <1>1, ConcatProperties
<1>3. DOMAIN u = 1 .. m + n
  BY <1>2, LenProperties
<1>4. ToSet(s) = {s[i] : i \in 1 .. m} /\ ToSet(t) = {t[i] : i \in 1 .. n}
  BY <1>1 DEF ToSet
<1>5. \A i \in 1 .. m : i \in 1 .. m + n /\ u[i] = s[i]
  BY <1>1, <1>2
<1>6. \A j \in 1 .. n : m + j \in 1 .. m + n /\ u[m + j] = t[j]
  <2> SUFFICES ASSUME NEW j \in 1 .. n PROVE m + j \in 1 .. m + n /\ u[m + j] = t[j]
    OBVIOUS
  <2>1. m + j \in 1 .. m + n /\ ~(m + j <= m) /\ (m + j) - m = j
    BY <1>1
  <2> QED
    BY <1>2, <2>1
<1>7. \A i \in 1 .. m + n : i \in 1 .. m \/ \E j \in 1 .. n : i = m + j
  <2> SUFFICES ASSUME NEW i \in 1 .. m + n, i \notin 1 .. m PROVE \E j \in 1 .. n : i = m + j
    OBVIOUS
  <2>1. i - m \in 1 .. n /\ i = m + (i - m)
    BY <1>1
  <2> QED
    BY <2>1
<1>8. ToSet(u) = ToSet(s) \cup ToSet(t)
  BY <1>0, ConcatElements
<1>9. ASSUME IsInjective(s), IsInjective(t), ToSet(s) \cap ToSet(t) = {} PROVE IsInjective(u)
  <2> SUFFICES ASSUME NEW i \in 1 .. m + n, NEW k \in 1 .. m + n, u[i] = u[k] PROVE i = k
    BY <1>3 DEF IsInjective
  <2>1. CASE i \in 1 .. m /\ k \in 1 .. m
    BY <1>1, <1>5, <1>9, <2>1 DEF IsInjective
  <2>2. CASE i \in 1 .. m /\ k \notin 1 .. m
    <3>1. PICK j \in 1 .. n : k = m + j
      BY <1>7, <2>2
    <3>2. s[i] = t[j] /\ s[i] \in ToSet(s) /\ t[j] \in ToSet(t)
      BY <1>4, <1>5, <1>6, <2>2, <3>1
    <3> QED
      BY <1>9, <3>2
  <2>3. CASE i \notin 1 .. m /\ k \in 1 .. m
    <3>1. PICK j \in 1 .. n : i = m + j
      BY <1>7, <2>3
    <3>2. s[k] = t[j] /\ s[k] \in ToSet(s) /\ t[j] \in ToSet(t)
      BY <1>4, <1>5, <1>6, <2>3, <3>1
    <3> QED
      BY <1>9, <3>2
  <2>4. CASE i \notin 1 .. m /\ k \notin 1 .. m
    <3>1. PICK j \in 1 .. n, l \in 1 .. n : i = m + j /\ k = m + l
      BY <1>7, <2>4
    <3>2. t[j] = t[l]
      BY <1>6, <3>1
    <3> QED
      BY <1>1, <1>9, <3>1, <3>2 DEF IsInjective
  <2> QED
    BY <2>1, <2>2, <2>3, <2>4
<1> QED
  BY <1>0, <1>2, <1>8, <1>9

(* A set as a list.                                                         *)
LEMMA Enumerated ==
    ASSUME NEW S, IsFiniteSet(S), NEW s \in SetToSeqs(S)
    PROVE  s \in Seq(S) /\ ToSet(s) = S
<1>1. PICK n \in Nat : n = Cardinality(S)
  BY FS_CardinalityType
<1>2. s \in [1 .. n -> S] /\ \A i, j \in 1 .. n : i # j => s[i] # s[j]
  BY <1>1 DEF SetToSeqs
<1>3. ToSet(s) \subseteq S
  BY <1>2 DEF ToSet
<1>4. s \in Seq(S)
  BY <1>2
<1>5. s \in Injection(1 .. n, S)
  BY <1>2 DEF Injection, IsInjective
<1>6. IsFiniteSet(1 .. n) /\ Cardinality(1 .. n) = n
  BY FS_Interval
<1>7. s \in Surjection(1 .. n, S)
  BY <1>1, <1>5, <1>6, FS_Injection
<1>8. DOMAIN s = 1 .. n /\ \A x \in S : \E i \in 1 .. n : s[i] = x
  BY <1>2, <1>7 DEF Surjection
<1> QED
  BY <1>3, <1>4, <1>8 DEF ToSet

-----------------------------------------------------------------------------
(* What the loop detection keeps of loops and blocks.                       *)
In(h) == ToSet(loop_blocks[h])

(* A block belongs to a loop that has no parent yet: the outermost one that *)
(* lists it.                                                                *)
Membership ==
    /\ \A x \in Blocks : bb_to_loop[x] # 0 =>
          bb_to_loop[x] \in ToSet(loops) /\ parent[bb_to_loop[x]] = 0
    /\ \A g \in ToSet(loops) :
          /\ IsInjective(loop_blocks[g]) /\ g \in In(g) /\ bb_to_loop[g] # 0
          /\ parent[g] = 0 => \A x \in Blocks : bb_to_loop[x] = g <=> x \in In(g)

(* Parents and sub-loops are two sides of one relation, a loop lies in its  *)
(* parent, and every loop around it is its parent or lies around that.      *)
Nesting ==
    /\ \A g \in Blocks \ ToSet(loops) : parent[g] = 0
    /\ \A h \in Blocks : IsInjective(sub_loops[h])
    /\ \A g, h \in Blocks : g \in ToSet(sub_loops[h]) <=> parent[g] = h
    /\ \A g \in Blocks : parent[g] # 0 =>
          parent[g] # g /\ parent[g] \in ToSet(loops) /\ g \in In(parent[g])
    /\ \A g, h \in ToSet(loops) : g \in In(h) \ {h} =>
          parent[g] # 0 /\ (parent[g] = h \/ parent[g] \in In(h))

Books == L!TypeOK /\ Membership /\ Nesting

LEMMA OutermostIs ==
    ASSUME NEW l, parent[l] = 0
    PROVE  L!outermost(l) = l
<1> DEFINE Def(w) == [n \in Nat |-> IF n = 0 THEN l
                                    ELSE LET h == w[n - 1]
                                         IN  IF parent[h] = 0 THEN h ELSE parent[h]]
           up == CHOOSE w : w = Def(w)
           g == [n \in Nat |-> l]
<1>1. g = Def(g)
  <2>1. ASSUME NEW n \in Nat PROVE Def(g)[n] = l
    <3>1. n # 0 => n - 1 \in Nat
      OBVIOUS
    <3> QED
      BY <3>1
  <2> QED
    BY <2>1
<1>2. up = Def(up)
  <2> HIDE DEF Def, g
  <2> QED
    BY <1>1
<1>3. L!outermost(l) = up[Cardinality(Blocks)]
  <2>1. L!Cardinality(Blocks) = Cardinality(Blocks)
    BY DEF L!Cardinality, Cardinality
  <2> QED
    BY <2>1 DEF L!outermost, L!NoLoop
<1> HIDE DEF up
<1>4. \A n \in Nat : up[n] = l
  <2> DEFINE T == {n \in Nat : up[n] = l}
  <2>1. 0 \in T
    BY <1>2
  <2>2. ASSUME NEW n \in Nat, n \in T PROVE n + 1 \in T
    <3>1. n + 1 \in Nat /\ n + 1 # 0 /\ (n + 1) - 1 = n /\ up[n] = l
      BY <2>2
    <3>2. Def(up)[n + 1] = l
      BY <3>1
    <3> QED
      BY <1>2, <3>1, <3>2
  <2> HIDE DEF T
  <2>3. \A n \in Nat : n \in T
    BY <2>1, <2>2, Induction
  <2> QED
    BY <2>3 DEF T
<1>5. Cardinality(Blocks) \in Nat
  BY BlocksFinite
<1> QED
  BY <1>3, <1>4, <1>5

(* A new loop that no loop has listed yet.                                  *)
LEMMA BooksNewLoop ==
    ASSUME Books, pre_bbs \in [Blocks -> Seq(Blocks)], dom_tree_L \in [Blocks -> Nat],
           NEW b \in Blocks, L!NewLoop(b),
           b \notin ToSet(loops), bb_to_loop[b] = 0, \A g \in ToSet(loops) : b \notin In(g)
    PROVE  /\ Books'
           /\ loops' = Append(loops, b) /\ loop' = b /\ parent' = parent
           /\ loop_blocks' = [loop_blocks EXCEPT ![b] = <<b>>]
           /\ latches' = [latches EXCEPT ![b] = L!back_edges(b)]
           /\ ToSet(work_list') = L!back_edges(b)
<1>1. /\ work_list = <<>> /\ place' = dom_tree_L[b] /\ loop' = b
      /\ bb_to_loop' = [bb_to_loop EXCEPT ![b] = b]
      /\ loop_blocks' = [loop_blocks EXCEPT ![b] = <<b>>]
      /\ latches' = [latches EXCEPT ![b] = L!back_edges(b)]
      /\ loops' = Append(loops, b)
      /\ work_list' \in L!SetToSeqs(L!back_edges(b))
      /\ UNCHANGED <<detected, parent, sub_loops>>
  BY DEF L!NewLoop
<1>2. /\ detected \in Nat /\ place \in Nat /\ loop \in Blocks \cup {0}
      /\ work_list \in Seq(Blocks) /\ loops \in Seq(Blocks)
      /\ bb_to_loop \in [Blocks -> Blocks \cup {0}] /\ parent \in [Blocks -> Blocks \cup {0}]
      /\ latches \in [Blocks -> SUBSET Blocks]
      /\ loop_blocks \in [Blocks -> Seq(Blocks)] /\ sub_loops \in [Blocks -> Seq(Blocks)]
  BY DEF Books, L!TypeOK, L!NoLoop
<1>3. L!back_edges(b) \subseteq Blocks /\ IsFiniteSet(L!back_edges(b))
  <2>1. ToSet(pre_bbs[b]) \subseteq Blocks
    <3>1. pre_bbs[b] \in Seq(Blocks)
      OBVIOUS
    <3> QED
      BY <3>1, Elements
  <2>2. IsFiniteSet(Blocks)
    BY BlocksFinite
  <2>3. L!back_edges(b) \subseteq ToSet(pre_bbs[b])
    BY DEF L!back_edges, L!ToSet, ToSet
  <2> QED
    BY <2>1, <2>2, <2>3, FS_Subset
<1>4. work_list' \in Seq(Blocks) /\ ToSet(work_list') = L!back_edges(b)
  <2>1. PICK S : S = L!back_edges(b)
    OBVIOUS
  <2>2. L!SetToSeqs(S) = SetToSeqs(S)
    BY DEF L!SetToSeqs, SetToSeqs, L!Cardinality, Cardinality
  <2>3. PICK w : w = work_list'
    OBVIOUS
  <2>4. w \in Seq(S) /\ ToSet(w) = S
    BY <1>1, <1>3, <2>1, <2>2, <2>3, Enumerated
  <2>5. w \in Seq(Blocks)
    BY <1>3, <2>1, <2>4
  <2> QED
    BY <2>1, <2>3, <2>4, <2>5
<1>5. /\ loops' \in Seq(Blocks) /\ ToSet(loops') = ToSet(loops) \cup {b}
  BY <1>1, <1>2, AppendSet
<1>6. <<b>> \in Seq(Blocks) /\ IsInjective(<<b>>) /\ ToSet(<<b>>) = {b}
  <2>1. DOMAIN <<b>> = {1} /\ <<b>>[1] = b
    OBVIOUS
  <2> QED
    BY <2>1 DEF ToSet, IsInjective
<1>7. L!TypeOK'
  <2>1. loop_blocks' \in [Blocks -> Seq(Blocks)]
    BY <1>1, <1>2, <1>6
  <2>2. latches' \in [Blocks -> SUBSET Blocks]
    BY <1>1, <1>2, <1>3
  <2>3. bb_to_loop' \in [Blocks -> Blocks \cup {0}]
    BY <1>1, <1>2
  <2>4. place' \in Nat /\ loop' \in Blocks
    BY <1>1
  <2> QED
    BY <1>1, <1>2, <1>4, <1>5, <2>1, <2>2, <2>3, <2>4 DEF L!TypeOK, L!NoLoop
<1>8. /\ bb_to_loop'[b] = b /\ \A x \in Blocks \ {b} : bb_to_loop'[x] = bb_to_loop[x]
      /\ loop_blocks'[b] = <<b>> /\ \A x \in Blocks \ {b} : loop_blocks'[x] = loop_blocks[x]
  BY <1>1, <1>2
<1>9. ToSet(loops) \subseteq Blocks \ {b}
  <2>1. ToSet(loops) \subseteq Blocks
    BY <1>2, Elements
  <2> QED
    BY <2>1
<1>10. In(b)' = {b} /\ \A x \in Blocks \ {b} : In(x)' = In(x)
  BY <1>6, <1>8 DEF In
<1>11. parent[b] = 0 /\ b \in Blocks /\ 0 \notin Blocks
  BY DEF Books, Nesting, Blocks
<1>12. Membership'
  <2>1. ASSUME NEW x \in Blocks, bb_to_loop'[x] # 0
        PROVE  bb_to_loop'[x] \in ToSet(loops') /\ parent'[bb_to_loop'[x]] = 0
    <3>1. CASE x = b
      BY <1>1, <1>5, <1>8, <1>11, <3>1
    <3>2. CASE x # b
      BY <1>1, <1>5, <1>8, <2>1, <3>2 DEF Books, Membership
    <3> QED
      BY <3>1, <3>2
  <2>2. ASSUME NEW g \in ToSet(loops')
        PROVE  IsInjective(loop_blocks'[g]) /\ g \in In(g)' /\ bb_to_loop'[g] # 0
    <3>1. CASE g = b
      BY <1>6, <1>8, <1>10, <1>11, <3>1
    <3>2. CASE g # b
      <4>1. g \in ToSet(loops) /\ g \in Blocks \ {b}
        BY <1>5, <1>9, <2>2, <3>2
      <4>2. IsInjective(loop_blocks[g]) /\ g \in In(g) /\ bb_to_loop[g] # 0
        BY <4>1 DEF Books, Membership
      <4> QED
        BY <1>8, <1>10, <4>1, <4>2
    <3> QED
      BY <3>1, <3>2
  <2>3. ASSUME NEW g \in ToSet(loops'), parent'[g] = 0, NEW x \in Blocks
        PROVE  bb_to_loop'[x] = g <=> x \in In(g)'
    <3>1. CASE g = b
      <4>1. bb_to_loop[x] # b
        <5>1. bb_to_loop[x] # 0 => bb_to_loop[x] \in ToSet(loops)
          BY DEF Books, Membership
        <5> QED
          BY <1>11, <5>1
      <4> QED
        BY <1>8, <1>10, <3>1, <4>1
    <3>2. CASE g # b
      <4>1. g \in ToSet(loops) /\ g \in Blocks \ {b} /\ parent[g] = 0
        BY <1>1, <1>5, <1>9, <2>3, <3>2
      <4>2. bb_to_loop[x] = g <=> x \in In(g)
        BY <4>1 DEF Books, Membership
      <4>3. x = b => x \notin In(g) /\ bb_to_loop'[x] # g
        BY <1>8, <3>2, <4>1
      <4> QED
        BY <1>8, <1>10, <4>1, <4>2, <4>3
    <3> QED
      BY <3>1, <3>2
  <2> QED
    BY <2>1, <2>2, <2>3 DEF Membership
<1>13. Nesting'
  <2>1. ASSUME NEW g \in Blocks, parent'[g] # 0
        PROVE  parent'[g] # g /\ parent'[g] \in ToSet(loops') /\ g \in In(parent[g])'
    <3>1. parent[g] # g /\ parent[g] \in ToSet(loops) /\ g \in In(parent[g])
      BY <1>1, <2>1 DEF Books, Nesting
    <3>2. In(parent[g])' = ToSet(loop_blocks'[parent[g]])
      BY <1>1 DEF In
    <3>3. loop_blocks'[parent[g]] = loop_blocks[parent[g]]
      BY <1>8, <1>9, <3>1
    <3> QED
      BY <1>1, <1>5, <3>1, <3>2, <3>3 DEF In
  <2>2. ASSUME NEW g \in ToSet(loops'), NEW h \in ToSet(loops'), g \in In(h)' \ {h}
        PROVE  parent'[g] # 0 /\ (parent'[g] = h \/ parent'[g] \in In(h)')
    <3>1. h # b
      BY <1>10, <2>2
    <3>2. h \in ToSet(loops) /\ h \in Blocks \ {b}
      BY <1>5, <1>9, <2>2, <3>1
    <3>3. In(h)' = In(h) /\ g # b
      BY <1>10, <2>2, <3>2
    <3>4. g \in ToSet(loops)
      BY <1>5, <2>2, <3>3
    <3> QED
      BY <1>1, <2>2, <3>2, <3>3, <3>4 DEF Books, Nesting
  <2> QED
    BY <1>1, <1>5, <2>1, <2>2 DEF Books, Nesting
<1> QED
  BY <1>1, <1>4, <1>7, <1>12, <1>13 DEF Books

-----------------------------------------------------------------------------
(* A block of no loop joins this one.                                       *)
LEMMA BooksNewBlock ==
    ASSUME Books, pre_bbs \in [Blocks -> Seq(Blocks)], loop \in ToSet(loops), parent[loop] = 0,
           L!NewBlock
    PROVE  \E x \in ToSet(work_list) :
              /\ Books' /\ bb_to_loop[x] = 0
              /\ UNCHANGED <<loops, loop, latches, parent, place, detected>>
              /\ \A h \in Blocks \ {loop} : loop_blocks'[h] = loop_blocks[h]
              /\ In(loop)' = In(loop) \cup {x}
              /\ ToSet(work_list') \cup {x} = ToSet(work_list) \cup ToSet(pre_bbs[x]) \cup {x}
<1>1. PICK x, t, l : /\ x = work_list[Len(work_list)] /\ t = SubSeq(work_list, 1, Len(work_list) - 1)
                     /\ l = loop
  OBVIOUS
<1>2. /\ work_list # <<>> /\ bb_to_loop[x] = 0
      /\ loop_blocks' = [loop_blocks EXCEPT ![l] = Append(loop_blocks[l], x)]
      /\ bb_to_loop' = [bb_to_loop EXCEPT ![x] = l]
      /\ work_list' = t \o pre_bbs[x]
      /\ UNCHANGED <<detected, place, loop, loops, latches, parent, sub_loops>>
  BY <1>1 DEF L!NewBlock, L!bb, L!Last, L!Front, L!NoLoop
<1>3. /\ detected \in Nat /\ place \in Nat /\ loop \in Blocks \cup {0}
      /\ work_list \in Seq(Blocks) /\ loops \in Seq(Blocks)
      /\ bb_to_loop \in [Blocks -> Blocks \cup {0}] /\ parent \in [Blocks -> Blocks \cup {0}]
      /\ latches \in [Blocks -> SUBSET Blocks]
      /\ loop_blocks \in [Blocks -> Seq(Blocks)] /\ sub_loops \in [Blocks -> Seq(Blocks)]
  BY DEF Books, L!TypeOK, L!NoLoop
<1>4. x \in Blocks /\ t \in Seq(Blocks) /\ ToSet(work_list) = ToSet(t) \cup {x}
  BY <1>1, <1>2, <1>3, LastTaken
<1>5. /\ work_list' \in Seq(Blocks) /\ ToSet(work_list') = ToSet(t) \cup ToSet(pre_bbs[x])
  BY <1>2, <1>4, ConcatElements
<1>6. ToSet(loops) \subseteq Blocks
  BY <1>3, Elements
<1>7. l \in ToSet(loops) /\ l \in Blocks /\ parent[l] = 0 /\ 0 \notin Blocks
  BY <1>1, <1>6 DEF Blocks
<1>8. /\ IsInjective(loop_blocks[l]) /\ l \in In(l)
      /\ \A y \in Blocks : bb_to_loop[y] = l <=> y \in In(l)
  BY <1>7 DEF Books, Membership
<1>9. x \notin In(l)
  BY <1>2, <1>4, <1>7, <1>8
<1>10. /\ Append(loop_blocks[l], x) \in Seq(Blocks) /\ IsInjective(Append(loop_blocks[l], x))
       /\ ToSet(Append(loop_blocks[l], x)) = In(l) \cup {x}
  BY <1>3, <1>4, <1>7, <1>8, <1>9, AppendSet DEF In
<1>11. /\ loop_blocks'[l] = Append(loop_blocks[l], x)
       /\ \A h \in Blocks \ {l} : loop_blocks'[h] = loop_blocks[h]
       /\ bb_to_loop'[x] = l /\ \A y \in Blocks \ {x} : bb_to_loop'[y] = bb_to_loop[y]
  BY <1>2, <1>3, <1>4, <1>7
<1>12. In(l)' = In(l) \cup {x} /\ \A h \in Blocks \ {l} : In(h)' = In(h)
  BY <1>10, <1>11 DEF In
<1>13. L!TypeOK'
  <2>1. loop_blocks' \in [Blocks -> Seq(Blocks)]
    BY <1>2, <1>3, <1>10
  <2>2. bb_to_loop' \in [Blocks -> Blocks \cup {0}]
    BY <1>2, <1>3, <1>7
  <2> QED
    BY <1>2, <1>3, <1>5, <2>1, <2>2 DEF L!TypeOK, L!NoLoop
<1>14. Membership'
  <2>1. ASSUME NEW y \in Blocks, bb_to_loop'[y] # 0
        PROVE  bb_to_loop'[y] \in ToSet(loops) /\ parent[bb_to_loop'[y]] = 0
    <3>1. CASE y = x
      BY <1>7, <1>11, <3>1
    <3>2. CASE y # x
      BY <1>11, <2>1, <3>2 DEF Books, Membership
    <3> QED
      BY <3>1, <3>2
  <2>2. ASSUME NEW g \in ToSet(loops)
        PROVE  /\ IsInjective(loop_blocks'[g]) /\ g \in In(g)' /\ bb_to_loop'[g] # 0
               /\ parent[g] = 0 => \A y \in Blocks : bb_to_loop'[y] = g <=> y \in In(g)'
    <3>1. /\ IsInjective(loop_blocks[g]) /\ g \in In(g) /\ bb_to_loop[g] # 0 /\ g \in Blocks
          /\ parent[g] = 0 => \A y \in Blocks : bb_to_loop[y] = g <=> y \in In(g)
      BY <1>6, <2>2 DEF Books, Membership
    <3>2. bb_to_loop'[g] # 0
      BY <1>2, <1>11, <3>1
    <3>3. CASE g = l
      <4>1. ASSUME NEW y \in Blocks PROVE bb_to_loop'[y] = g <=> y \in In(g)'
        BY <1>8, <1>11, <1>12, <3>3
      <4> QED
        BY <1>8, <1>10, <1>11, <1>12, <3>2, <3>3, <4>1
    <3>4. CASE g # l
      <4>1. ASSUME NEW y \in Blocks, parent[g] = 0 PROVE bb_to_loop'[y] = g <=> y \in In(g)'
        <5>1. x \notin In(g)
          BY <1>2, <1>4, <1>7, <3>1, <4>1
        <5> QED
          BY <1>11, <1>12, <3>1, <3>4, <4>1, <5>1
      <4> QED
        BY <1>11, <1>12, <3>1, <3>2, <3>4, <4>1
    <3> QED
      BY <3>3, <3>4
  <2> QED
    BY <1>2, <2>1, <2>2 DEF Membership
<1>15. Nesting'
  <2>1. ASSUME NEW g \in Blocks, parent[g] # 0
        PROVE  parent[g] # g /\ parent[g] \in ToSet(loops) /\ g \in In(parent[g])'
    <3>1. parent[g] # g /\ parent[g] \in ToSet(loops) /\ g \in In(parent[g])
      BY <2>1 DEF Books, Nesting
    <3>2. In(parent[g])' = ToSet(loop_blocks'[parent[g]]) /\ parent[g] \in Blocks
      BY <1>2, <1>6, <3>1 DEF In
    <3>3. In(parent[g]) \subseteq ToSet(loop_blocks'[parent[g]])
      BY <1>11, <1>12, <3>2 DEF In
    <3> QED
      BY <3>1, <3>2, <3>3
  <2>2. ASSUME NEW g \in ToSet(loops), NEW h \in ToSet(loops), g \in In(h)' \ {h}
        PROVE  parent[g] # 0 /\ (parent[g] = h \/ parent[g] \in In(h)')
    <3>1. bb_to_loop[g] # 0 /\ g # x
      BY <1>2 DEF Books, Membership
    <3>2. g \in In(h) /\ In(h) \subseteq In(h)'
      <4>1. h \in Blocks
        BY <1>6, <2>2
      <4>2. CASE h = l
        BY <1>12, <2>2, <3>1, <4>2
      <4>3. CASE h # l
        BY <1>12, <2>2, <4>1, <4>3
      <4> QED
        BY <4>2, <4>3
    <3> QED
      BY <2>2, <3>2 DEF Books, Nesting
  <2> QED
    BY <1>2, <2>1, <2>2 DEF Books, Nesting
<1> QED
  BY <1>1, <1>2, <1>4, <1>5, <1>11, <1>12, <1>13, <1>14, <1>15 DEF Books

(* The outermost loop around a block becomes a sub-loop of this one.        *)
LEMMA BooksSubLoop ==
    ASSUME Books, pre_bbs \in [Blocks -> Seq(Blocks)], loop \in ToSet(loops), parent[loop] = 0,
           L!SubLoop
    PROVE  \E x \in ToSet(work_list), sub \in ToSet(loops) :
              /\ Books' /\ bb_to_loop[x] = sub /\ x \in In(sub) /\ x \notin In(loop)
              /\ sub # loop
              /\ UNCHANGED <<loops, loop, latches, place, detected>> /\ parent'[loop] = 0
              /\ \A h \in Blocks \ {loop} : loop_blocks'[h] = loop_blocks[h]
              /\ In(loop)' = In(loop) \cup In(sub)
              /\ ToSet(work_list') \cup {x} = ToSet(work_list) \cup ToSet(pre_bbs[sub]) \cup {x}
<1>1. PICK x, t, l, sub : /\ x = work_list[Len(work_list)]
                          /\ t = SubSeq(work_list, 1, Len(work_list) - 1)
                          /\ l = loop /\ sub = bb_to_loop[x]
  OBVIOUS
<1>2. /\ detected \in Nat /\ place \in Nat /\ loop \in Blocks \cup {0}
      /\ work_list \in Seq(Blocks) /\ loops \in Seq(Blocks)
      /\ bb_to_loop \in [Blocks -> Blocks \cup {0}] /\ parent \in [Blocks -> Blocks \cup {0}]
      /\ latches \in [Blocks -> SUBSET Blocks]
      /\ loop_blocks \in [Blocks -> Seq(Blocks)] /\ sub_loops \in [Blocks -> Seq(Blocks)]
  BY DEF Books, L!TypeOK, L!NoLoop
<1>3. work_list # <<>> /\ sub # 0 /\ sub # l
  BY <1>1 DEF L!SubLoop, L!bb, L!Last, L!NoLoop
<1>4. x \in Blocks /\ t \in Seq(Blocks) /\ ToSet(work_list) = ToSet(t) \cup {x}
  BY <1>1, <1>2, <1>3, LastTaken
<1>5. ToSet(loops) \subseteq Blocks /\ 0 \notin Blocks
  <2>1. ToSet(loops) \subseteq Blocks
    BY <1>2, Elements
  <2> QED
    BY <2>1 DEF Blocks
<1>6. sub \in ToSet(loops) /\ sub \in Blocks /\ parent[sub] = 0
  BY <1>1, <1>3, <1>4, <1>5 DEF Books, Membership
<1>7. L!outermost(sub) = sub
  BY <1>6, OutermostIs
<1>8. /\ parent' = [parent EXCEPT ![sub] = l]
      /\ sub_loops' = [sub_loops EXCEPT ![l] = Append(sub_loops[l], sub)]
      /\ loop_blocks' = [loop_blocks EXCEPT ![l] = loop_blocks[l] \o loop_blocks[sub]]
      /\ bb_to_loop' = [b \in Blocks |-> IF b \in In(sub) THEN l ELSE bb_to_loop[b]]
      /\ work_list' = t \o pre_bbs[sub]
      /\ UNCHANGED <<detected, place, loop, loops, latches>>
  <2>1. L!bb = x /\ L!Front(work_list) = t
    BY <1>1 DEF L!bb, L!Last, L!Front
  <2>2. PICK o : o = L!outermost(bb_to_loop[L!bb])
    OBVIOUS
  <2>3. o = sub /\ o # loop
    BY <1>1, <1>3, <1>7, <2>1, <2>2
  <2>4. /\ parent' = [parent EXCEPT ![o] = loop]
        /\ sub_loops' = [sub_loops EXCEPT ![loop] = Append(@, o)]
        /\ loop_blocks' = [loop_blocks EXCEPT ![loop] = @ \o loop_blocks[o]]
        /\ bb_to_loop' = [b \in Blocks |-> IF b \in L!ToSet(loop_blocks[o]) THEN loop ELSE bb_to_loop[b]]
        /\ work_list' = L!Front(work_list) \o pre_bbs[o]
        /\ UNCHANGED <<detected, place, loop, loops, latches>>
    BY <2>2, <2>3 DEF L!SubLoop, L!entries
  <2>5. L!ToSet(loop_blocks[o]) = In(o)
    BY DEF L!ToSet, ToSet, In
  <2> QED
    BY <1>1, <2>1, <2>3, <2>4, <2>5
<1>9. work_list' \in Seq(Blocks) /\ ToSet(work_list') = ToSet(t) \cup ToSet(pre_bbs[sub])
  BY <1>4, <1>6, <1>8, ConcatElements
<1>10. l \in ToSet(loops) /\ l \in Blocks /\ parent[l] = 0
  BY <1>1, <1>5
<1>11. /\ IsInjective(loop_blocks[l]) /\ \A y \in Blocks : bb_to_loop[y] = l <=> y \in In(l)
       /\ IsInjective(loop_blocks[sub]) /\ \A y \in Blocks : bb_to_loop[y] = sub <=> y \in In(sub)
  BY <1>6, <1>10 DEF Books, Membership
<1>12. In(l) \subseteq Blocks /\ In(sub) \subseteq Blocks
  <2>1. loop_blocks[l] \in Seq(Blocks) /\ loop_blocks[sub] \in Seq(Blocks)
    BY <1>2, <1>6, <1>10
  <2> QED
    BY <2>1, Elements DEF In
<1>13. In(l) \cap In(sub) = {}
  BY <1>3, <1>11, <1>12
<1>14. PICK u : u = loop_blocks[l] \o loop_blocks[sub]
  OBVIOUS
<1>15. u \in Seq(Blocks) /\ IsInjective(u) /\ ToSet(u) = In(l) \cup In(sub)
  <2>1. loop_blocks[l] \in Seq(Blocks) /\ loop_blocks[sub] \in Seq(Blocks)
    BY <1>2, <1>6, <1>10
  <2> QED
    <3>1. u \in Seq(Blocks) /\ ToSet(u) = ToSet(loop_blocks[l]) \cup ToSet(loop_blocks[sub])
      BY <1>14, <2>1, ConcatElements
    <3>2. ToSet(loop_blocks[l]) \cap ToSet(loop_blocks[sub]) = {}
      BY <1>13 DEF In
    <3>3. IsInjective(u)
      BY <1>11, <1>14, <2>1, <3>2, Joined
    <3> QED
      BY <3>1, <3>3 DEF In
<1>16. /\ loop_blocks'[l] = u /\ \A h \in Blocks \ {l} : loop_blocks'[h] = loop_blocks[h]
       /\ parent'[sub] = l /\ \A h \in Blocks \ {sub} : parent'[h] = parent[h]
  BY <1>2, <1>6, <1>8, <1>10, <1>14
<1>17. In(l)' = In(l) \cup In(sub) /\ \A h \in Blocks \ {l} : In(h)' = In(h)
  BY <1>15, <1>16 DEF In
<1>18. sub \notin ToSet(sub_loops[l])
  BY <1>5, <1>6, <1>10 DEF Books, Nesting
<1>19. /\ Append(sub_loops[l], sub) \in Seq(Blocks) /\ IsInjective(Append(sub_loops[l], sub))
       /\ ToSet(Append(sub_loops[l], sub)) = ToSet(sub_loops[l]) \cup {sub}
  <2>1. sub_loops[l] \in Seq(Blocks) /\ IsInjective(sub_loops[l])
    BY <1>2, <1>10 DEF Books, Nesting
  <2> QED
    BY <1>6, <1>18, <2>1, AppendSet
<1>20. /\ sub_loops'[l] = Append(sub_loops[l], sub)
       /\ \A h \in Blocks \ {l} : sub_loops'[h] = sub_loops[h]
  BY <1>2, <1>8, <1>10
<1>21. L!TypeOK'
  <2>1. loop_blocks' \in [Blocks -> Seq(Blocks)]
    BY <1>2, <1>8, <1>14, <1>15
  <2>2. bb_to_loop' \in [Blocks -> Blocks \cup {0}]
    BY <1>2, <1>8, <1>10
  <2>3. parent' \in [Blocks -> Blocks \cup {0}]
    BY <1>2, <1>8, <1>10
  <2>4. sub_loops' \in [Blocks -> Seq(Blocks)]
    BY <1>2, <1>8, <1>19
  <2> QED
    BY <1>2, <1>8, <1>9, <2>1, <2>2, <2>3, <2>4 DEF L!TypeOK, L!NoLoop
<1>22. Membership'
  <2>1. ASSUME NEW y \in Blocks, bb_to_loop'[y] # 0
        PROVE  bb_to_loop'[y] \in ToSet(loops) /\ parent'[bb_to_loop'[y]] = 0
    <3>1. CASE y \in In(sub)
      BY <1>3, <1>8, <1>10, <1>16, <3>1
    <3>2. CASE y \notin In(sub)
      <4>1. bb_to_loop'[y] = bb_to_loop[y] /\ bb_to_loop[y] # sub
        BY <1>8, <1>11, <3>2
      <4>2. bb_to_loop[y] \in ToSet(loops) /\ parent[bb_to_loop[y]] = 0
        BY <2>1, <4>1 DEF Books, Membership
      <4> QED
        BY <1>5, <1>16, <4>1, <4>2
    <3> QED
      BY <3>1, <3>2
  <2>2. ASSUME NEW g \in ToSet(loops)
        PROVE  /\ IsInjective(loop_blocks'[g]) /\ g \in In(g)' /\ bb_to_loop'[g] # 0
               /\ parent'[g] = 0 => \A y \in Blocks : bb_to_loop'[y] = g <=> y \in In(g)'
    <3>1. /\ IsInjective(loop_blocks[g]) /\ g \in In(g) /\ bb_to_loop[g] # 0 /\ g \in Blocks
          /\ parent[g] = 0 => \A y \in Blocks : bb_to_loop[y] = g <=> y \in In(g)
      BY <1>5, <2>2 DEF Books, Membership
    <3>2. bb_to_loop'[g] # 0
      BY <1>5, <1>8, <1>10, <3>1
    <3>3. CASE g = l
      <4>1. ASSUME NEW y \in Blocks PROVE bb_to_loop'[y] = g <=> y \in In(g)'
        BY <1>8, <1>11, <1>17, <3>3
      <4> QED
        BY <1>15, <1>16, <1>17, <3>1, <3>2, <3>3, <4>1
    <3>4. CASE g # l
      <4>1. ASSUME NEW y \in Blocks, parent'[g] = 0 PROVE bb_to_loop'[y] = g <=> y \in In(g)'
        <5>1. g # sub /\ parent[g] = 0
          BY <1>5, <1>10, <1>16, <3>1, <4>1
        <5>2. bb_to_loop[y] = g <=> y \in In(g)
          BY <3>1, <4>1, <5>1
        <5>3. y \in In(sub) => bb_to_loop[y] = sub /\ bb_to_loop'[y] = l
          BY <1>8, <1>11, <4>1
        <5>4. y \notin In(sub) => bb_to_loop'[y] = bb_to_loop[y]
          BY <1>8, <4>1
        <5>5. In(g)' = In(g)
          BY <1>17, <3>1, <3>4
        <5> QED
          BY <3>4, <5>1, <5>2, <5>3, <5>4, <5>5
      <4> QED
        BY <1>16, <1>17, <3>1, <3>2, <3>4, <4>1
    <3> QED
      BY <3>3, <3>4
  <2> QED
    BY <1>8, <2>1, <2>2 DEF Membership
<1>23. sub \in In(l)' /\ sub \in In(sub)
  BY <1>6, <1>17 DEF Books, Membership
<1>24. Nesting'
  <2>1. ASSUME NEW g \in Blocks, parent'[g] # 0
        PROVE  parent'[g] # g /\ parent'[g] \in ToSet(loops) /\ g \in In(parent[g])'
    <3>1. In(parent[g])' = ToSet(loop_blocks'[parent'[g]])
      BY DEF In
    <3>2. CASE g = sub
      <4>1. parent'[g] = l
        BY <1>16, <3>2
      <4>2. g \in ToSet(loop_blocks'[l])
        BY <1>23, <3>2 DEF In
      <4> QED
        BY <1>3, <1>10, <3>1, <3>2, <4>1, <4>2
    <3>3. CASE g # sub
      <4>1. parent'[g] = parent[g]
        BY <1>16, <2>1, <3>3
      <4>2. parent[g] # g /\ parent[g] \in ToSet(loops) /\ g \in In(parent[g])
        BY <2>1, <4>1 DEF Books, Nesting
      <4>3. \A h \in Blocks : In(h) \subseteq ToSet(loop_blocks'[h])
        BY <1>17 DEF In
      <4> QED
        BY <1>5, <3>1, <4>1, <4>2, <4>3
    <3> QED
      BY <3>2, <3>3
  <2>2. ASSUME NEW g \in ToSet(loops), NEW h \in ToSet(loops), g \in In(h)' \ {h}
        PROVE  parent'[g] # 0 /\ (parent'[g] = h \/ parent'[g] \in In(h)')
    <3>1. \A p, q \in ToSet(loops) : p \in In(q) \ {q} =>
             parent[p] # 0 /\ (parent[p] = q \/ parent[p] \in In(q))
      BY DEF Books, Nesting
    <3>2. CASE g = sub
      <4>1. parent'[g] = l /\ l # 0
        BY <1>5, <1>10, <1>16, <3>2
      <4>2. h = l
        <5> SUFFICES ASSUME h # l PROVE FALSE
          OBVIOUS
        <5>1. sub \in In(h) \ {h}
          BY <1>5, <1>17, <2>2, <3>2
        <5> QED
          BY <1>6, <3>1, <5>1
      <4> QED
        BY <4>1, <4>2
    <3>3. CASE g # sub
      <4>1. parent'[g] = parent[g] /\ In(h) \subseteq In(h)'
        BY <1>5, <1>16, <1>17, <3>3
      <4>2. CASE g \in In(h)
        BY <2>2, <3>1, <4>1, <4>2
      <4>3. CASE g \notin In(h)
        <5>1. h = l /\ g \in In(sub) \ {sub}
          BY <1>5, <1>17, <2>2, <3>3, <4>3
        <5>2. parent[g] # 0 /\ (parent[g] = sub \/ parent[g] \in In(sub))
          BY <1>6, <3>1, <5>1
        <5> QED
          BY <1>17, <1>23, <4>1, <5>1, <5>2
      <4> QED
        BY <4>2, <4>3
    <3> QED
      BY <3>2, <3>3
  <2>3. \A g \in Blocks \ ToSet(loops) : parent'[g] = 0
    BY <1>6, <1>16 DEF Books, Nesting
  <2>4. \A h \in Blocks : IsInjective(sub_loops'[h])
    BY <1>19, <1>20 DEF Books, Nesting
  <2>5. ASSUME NEW g \in Blocks, NEW h \in Blocks PROVE g \in ToSet(sub_loops'[h]) <=> parent'[g] = h
    <3>1. g \in ToSet(sub_loops[h]) <=> parent[g] = h
      BY DEF Books, Nesting
    <3>2. CASE h = l
      BY <1>6, <1>16, <1>19, <1>20, <3>1, <3>2
    <3>3. CASE h # l
      <4>1. sub_loops'[h] = sub_loops[h] /\ parent[sub] # h
        BY <1>5, <1>6, <1>20, <3>3
      <4> QED
        BY <1>16, <3>1, <3>3, <4>1
    <3> QED
      BY <3>2, <3>3
  <2>6. ToSet(loops') = ToSet(loops)
    BY <1>8
  <2> QED
    BY <2>1, <2>2, <2>3, <2>4, <2>5, <2>6 DEF Nesting
<1>25. x \in In(sub) /\ x \notin In(l)
  BY <1>1, <1>3, <1>4, <1>11
<1>26. Books' /\ parent'[loop] = 0
  BY <1>1, <1>3, <1>10, <1>16, <1>21, <1>22, <1>24 DEF Books
<1>27. ToSet(work_list') \cup {x} = ToSet(work_list) \cup ToSet(pre_bbs[sub]) \cup {x}
  BY <1>4, <1>9
<1>28. /\ bb_to_loop[x] = sub /\ x \notin In(loop) /\ sub # loop
       /\ UNCHANGED <<loops, loop, latches, place, detected>>
       /\ \A h \in Blocks \ {loop} : loop_blocks'[h] = loop_blocks[h]
  BY <1>1, <1>3, <1>8, <1>16, <1>25
<1>29. In(loop)' = In(loop) \cup In(sub)
  <2>1. ToSet(loop_blocks'[l]) = ToSet(loop_blocks[l]) \cup In(sub)
    BY <1>15, <1>16 DEF In
  <2> QED
    BY <1>1, <1>28, <2>1 DEF In
<1>30. x \in ToSet(work_list)
  BY <1>4
<1> QED
  BY <1>6, <1>25, <1>26, <1>27, <1>28, <1>29, <1>30, ZenonT(30)

-----------------------------------------------------------------------------
(* The loops and the graph.                                                 *)
Natural(f, h)   == NaturalLoop(succ_bbs, Entry(f), h)
LatchesOf(f, h) == Latches(succ_bbs, Entry(f), h)
LoopsOf(f)      == ToSet(loops) \cap Found(f)

(* How far the search has come. *)
Progress ==
    /\ detected <= func /\ func <= detected + 1
    /\ loop = 0 => work_list = <<>> /\ place = Cardinality(Blocks) + 1
    /\ loop # 0 => /\ pc = "idle" /\ func = detected + 1 /\ loop \in LoopsOf(func)
                   /\ parent[loop] = 0 /\ place = dom_tree_L[loop]

(* A loop belongs to a function that has been searched, or to the one that  *)
(* is being searched.                                                       *)
Homes ==
    \A l \in ToSet(loops) : \E f \in Funcs :
        l \in Found(f) /\ (f <= detected \/ (f = func /\ loop # 0))

(* No loop is inside one found before it. *)
InsideOut(f) ==
    \A i, j \in DOMAIN loops :
        i < j /\ loops[i] \in Found(f) /\ loops[j] \in Found(f) => loops[j] \notin Doms(f)[loops[i]]

(* A loop lists blocks of its natural loop only, and all of them unless its *)
(* search is still on.                                                      *)
NaturalFor(f) ==
    \A h \in LoopsOf(f) :
        /\ In(h) \subseteq Natural(f, h) /\ latches[h] = LatchesOf(f, h) /\ latches[h] # {}
        /\ h # loop \/ work_list = <<>> => Natural(f, h) \subseteq In(h)

(* The headers are found from the highest number of the tree down.          *)
HeadedTo(f, n) ==
    \A h \in Found(f) : LatchesOf(f, h) # {} /\ dom_tree_L[h] >= n => h \in ToSet(loops)

Headed ==
    /\ \A f \in Funcs : f <= detected =>
          \A h \in Found(f) : LatchesOf(f, h) # {} => h \in ToSet(loops)
    /\ loop # 0 => /\ HeadedTo(func, place)
                   /\ \A h \in LoopsOf(func) : dom_tree_L[h] >= place

(* The work list and the blocks listed hold the latches and, with a block,  *)
(* its predecessors.                                                        *)
Working == loop # 0 =>
    /\ ToSet(work_list) \subseteq Natural(func, loop)
    /\ LatchesOf(func, loop) \subseteq In(loop) \cup ToSet(work_list)
    /\ \A x \in In(loop) \ {loop} : ToSet(pre_bbs[x]) \subseteq In(loop) \cup ToSet(work_list)

Looped ==
    /\ Books /\ Progress /\ Homes /\ Headed /\ Working
    /\ \A f \in Funcs : InsideOut(f) /\ NaturalFor(f)

(* What a search works on: the numbers of the tree decide dominance and     *)
(* tell the blocks apart, and all predecessors can be reached.              *)
Ground(f, R, dom) ==
    /\ f \in Funcs /\ func = f /\ R = Found(f) /\ dom = Doms(f) /\ R \subseteq Blocks
    /\ IsFlowGraph(succ_bbs, Entry(f)) /\ pre_bbs \in [Blocks -> Seq(Blocks)]
    /\ dom_tree_L \in [Blocks -> Nat]
    /\ \A a, b \in R : Between(a, b) <=> b \in dom[a]
    /\ \A a, b \in R : dom_tree_L[a] = dom_tree_L[b] => a = b
    /\ \A b \in R : dom_tree_L[b] \in 1 .. Cardinality(Blocks)
    /\ \A b \in R : /\ ToSet(pre_bbs[b]) \subseteq R
                    /\ \A p \in R : p \in ToSet(pre_bbs[b]) <=> b \in ToSet(succ_bbs[p])
                    /\ L!back_edges(b) = LatchesOf(f, b)
    /\ L!upcoming = {b \in R : dom_tree_L[b] < place}
    /\ \A g \in Funcs \ {f} : Found(g) \cap R = {}

LEMMA GroundIs ==
    ASSUME Ready, Placed, Searched, Trees, Living, Ranked, place \in Nat,
           func = detected + 1, pc = "idle", detected \in Nat
    PROVE  \E f, R, dom : Ground(f, R, dom)
<1>1. func # 0 /\ func \in Funcs
  BY DEF Placed, D!TypeOK
<1>2. Numbered /\ Ordered
  BY <1>1 DEF Searched
<1>3. PICK f, e, B, R, dom : f \in Funcs /\ Seen(f, e, B, R, dom) /\ Scene(e, B, R, dom)
  BY <1>1, <1>2, OwnScene
<1>4. f = func /\ e = Entry(f) /\ B = BlocksOf(f) /\ R = Found(f) /\ dom = Doms(f)
  BY <1>3 DEF Seen
<1>5. R \subseteq B /\ B \subseteq Blocks /\ IsFlowGraph(succ_bbs, e)
  BY <1>3 DEF Scene
<1>6. pre_bbs \in [Blocks -> Seq(Blocks)] /\ dom_tree_L \in [Blocks -> Nat] /\ dom_tree_R \in [Blocks -> Nat]
  BY <1>3, GraphFacts DEF Placed, D!TypeOK
<1>7. \A a, b \in R : Between(a, b) <=> b \in dom[a]
  BY <1>1, <1>4 DEF Trees, OrderFor
<1>8. ASSUME NEW a \in R, NEW b \in R, dom_tree_L[a] = dom_tree_L[b] PROVE a = b
  <2>1. a \in dom[a] /\ b \in dom[b]
    BY <1>3, TreeFacts
  <2>2. Between(a, a) /\ Between(b, b)
    BY <1>7, <2>1
  <2>3. Between(a, b) /\ Between(b, a)
    BY <1>8, <2>2 DEF Between
  <2>4. b \in dom[a] /\ a \in dom[b]
    BY <1>7, <2>3
  <2> QED
    BY <1>3, <2>4, TreeFacts
<1>9. \A b \in B : IF b \in R THEN dom_tree_L[b] \in 1 .. Cardinality(Blocks) ELSE dom_tree_L[b] = 0
  BY <1>1, <1>4 DEF Ranked, RankedIn
<1>10. \A b \in R : ToSet(pre_bbs[b]) \subseteq R
  BY <1>1, <1>4 DEF Living, Alive
<1>11. \A b \in R : \A p \in R : p \in ToSet(pre_bbs[b]) <=> b \in ToSet(succ_bbs[p])
  <2>1. \A a, b \in Blocks : a \in ToSet(pre_bbs[b]) <=> b \in ToSet(succ_bbs[a])
    BY <1>3, GraphFacts
  <2> QED
    BY <1>5, <2>1
<1>12. ASSUME NEW b \in R PROVE L!back_edges(b) = LatchesOf(f, b)
  <2>1. LatchesOf(f, b) = {p \in dom[b] : b \in ToSet(succ_bbs[p])}
    BY <1>4 DEF LatchesOf, Latches, Doms
  <2>2. L!back_edges(b) = {p \in ToSet(pre_bbs[b]) : Between(b, p)}
    BY DEF L!back_edges, L!is_dominate, L!ToSet, ToSet, Between
  <2>3. dom[b] \subseteq R
    BY <1>3, TreeFacts
  <2> QED
    BY <1>7, <1>10, <1>11, <2>1, <2>2, <2>3
<1>13. L!upcoming = {b \in R : dom_tree_L[b] < place}
  <2>1. L!upcoming = {b \in B : dom_tree_L[b] \in 1 .. place - 1}
    BY <1>4 DEF L!upcoming, L!Own, L!ToSet, BlocksOf, ToSet
  <2>2. ASSUME NEW b \in B PROVE dom_tree_L[b] \in 1 .. place - 1 <=> b \in R /\ dom_tree_L[b] < place
    <3>1. dom_tree_L[b] \in Nat
      BY <1>5, <1>6
    <3>2. b \in R => dom_tree_L[b] >= 1
      BY <1>9
    <3>3. b \notin R => dom_tree_L[b] = 0
      BY <1>9
    <3> QED
      BY <3>1, <3>2, <3>3
  <2> QED
    BY <1>5, <2>1, <2>2
<1>14. \A g \in Funcs \ {f} : Found(g) \cap R = {}
  <2> SUFFICES ASSUME NEW g \in Funcs \ {f} PROVE Found(g) \cap R = {}
    OBVIOUS
  <2>1. Found(g) \subseteq BlocksOf(g) /\ BlocksOf(f) \cap BlocksOf(g) = {}
    BY <1>3, FoundFacts, GraphFacts
  <2> QED
    BY <1>4, <1>5, <2>1
<1>15. \A a, b \in R : dom_tree_L[a] = dom_tree_L[b] => a = b
  BY <1>8
<1>16. \A b \in R : dom_tree_L[b] \in 1 .. Cardinality(Blocks)
  BY <1>5, <1>9
<1>17. f \in Funcs /\ func = f /\ R \subseteq Blocks /\ IsFlowGraph(succ_bbs, Entry(f))
  BY <1>3, <1>4, <1>5
<1>18. \A b \in R : /\ ToSet(pre_bbs[b]) \subseteq R
                    /\ \A p \in R : p \in ToSet(pre_bbs[b]) <=> b \in ToSet(succ_bbs[p])
                    /\ L!back_edges(b) = LatchesOf(f, b)
  BY <1>10, <1>11, <1>12
<1> QED
  BY <1>4, <1>6, <1>7, <1>13, <1>14, <1>15, <1>16, <1>17, <1>18, ZenonT(30) DEF Ground

-----------------------------------------------------------------------------
(* The steps of the search.                                                 *)
LEMMA NaturalIn == \A f : \A h \in Found(f) : Natural(f, h) \subseteq Found(f)
BY DEF Natural, NaturalLoop, DominatedBy, Found, All

LEMMA GraphKept ==
    ASSUME UNCHANGED <<basic_blocks, succ_bbs>>
    PROVE  \A f : /\ Found(f)' = Found(f) /\ Doms(f)' = Doms(f)
                  /\ \A h : Natural(f, h)' = Natural(f, h) /\ LatchesOf(f, h)' = LatchesOf(f, h)
BY DEF Entry, Found, Doms, Natural, LatchesOf

(* The loops found so far in the function: their numbers are not below the  *)
(* place, and no other loop has one of its blocks.                          *)
LEMMA OwnLoops ==
    ASSUME Looped, NEW f, NEW R, NEW dom, Ground(f, R, dom), f = detected + 1
    PROVE  /\ \A h \in ToSet(loops) \cap R :
                 /\ h \in LoopsOf(f) /\ loop # 0 /\ dom_tree_L[h] >= place
                 /\ In(h) \subseteq Natural(f, h) /\ In(h) \subseteq dom[h]
           /\ \A h \in ToSet(loops) \ R : In(h) \cap R = {}
<1>1. /\ f \in Funcs /\ func = f /\ R = Found(f) /\ dom = Doms(f) /\ IsFlowGraph(succ_bbs, Entry(f))
      /\ \A g \in Funcs \ {f} : Found(g) \cap R = {}
  BY DEF Ground
<1>2. /\ \A l \in ToSet(loops) : \E g \in Funcs :
            l \in Found(g) /\ (g <= detected \/ (g = func /\ loop # 0))
      /\ \A g \in Funcs : NaturalFor(g)
      /\ loop # 0 => \A h \in LoopsOf(func) : dom_tree_L[h] >= place
      /\ detected \in Nat
  BY DEF Looped, Homes, Headed, Books, L!TypeOK
<1>3. ASSUME NEW h \in ToSet(loops) \cap R
      PROVE  /\ h \in LoopsOf(f) /\ loop # 0 /\ dom_tree_L[h] >= place
             /\ In(h) \subseteq Natural(f, h) /\ In(h) \subseteq dom[h]
  <2>1. h \in LoopsOf(f)
    BY <1>1, <1>3 DEF LoopsOf
  <2>2. PICK g \in Funcs : h \in Found(g) /\ (g <= detected \/ (g = func /\ loop # 0))
    BY <1>2, <1>3
  <2>3. g = f
    BY <1>1, <1>3, <2>2
  <2>4. loop # 0
    BY <1>2, <2>2, <2>3
  <2>5. In(h) \subseteq Natural(f, h)
    BY <1>1, <1>2, <2>1 DEF NaturalFor
  <2>6. Natural(f, h) \subseteq dom[h]
    BY <1>1, <1>3, NaturalValue DEF Natural, Found, Doms
  <2> QED
    BY <1>1, <1>2, <2>1, <2>4, <2>5, <2>6
<1>4. ASSUME NEW h \in ToSet(loops) \ R PROVE In(h) \cap R = {}
  <2>1. PICK g \in Funcs : h \in Found(g)
    BY <1>2, <1>4
  <2>2. g # f /\ h \in LoopsOf(g)
    BY <1>1, <1>4, <2>1 DEF LoopsOf
  <2>3. In(h) \subseteq Natural(g, h)
    BY <1>2, <2>2 DEF NaturalFor
  <2>4. Natural(g, h) \subseteq Found(g)
    BY <2>1, NaturalIn
  <2> QED
    BY <1>1, <2>2, <2>3, <2>4
<1> QED
  BY <1>3, <1>4

LEMMA LoopedNewLoop ==
    ASSUME Looped, NEW f, NEW R, NEW dom, Ground(f, R, dom), f = detected + 1, pc = "idle",
           UNCHANGED <<basic_blocks, succ_bbs, pre_bbs, pc, func, dom_tree_L>>,
           NEW b \in Blocks, L!NewLoop(b)
    PROVE  Looped'
<1>1. /\ work_list = <<>> /\ b \in L!upcoming /\ L!back_edges(b) # {}
      /\ \A c \in L!upcoming : L!back_edges(c) # {} => dom_tree_L[c] <= dom_tree_L[b]
      /\ place' = dom_tree_L[b] /\ loop' = b /\ detected' = detected
  BY DEF L!NewLoop
<1>2. /\ f \in Funcs /\ func = f /\ R = Found(f) /\ dom = Doms(f) /\ R \subseteq Blocks
      /\ IsFlowGraph(succ_bbs, Entry(f)) /\ pre_bbs \in [Blocks -> Seq(Blocks)]
      /\ dom_tree_L \in [Blocks -> Nat]
      /\ \A x, y \in R : Between(x, y) <=> y \in dom[x]
      /\ \A x, y \in R : dom_tree_L[x] = dom_tree_L[y] => x = y
      /\ \A x \in R : dom_tree_L[x] \in 1 .. Cardinality(Blocks)
      /\ \A x \in R : L!back_edges(x) = LatchesOf(f, x)
      /\ L!upcoming = {x \in R : dom_tree_L[x] < place}
      /\ \A g \in Funcs \ {f} : Found(g) \cap R = {}
  BY DEF Ground
<1>3. /\ Books /\ Progress /\ Homes /\ Headed
      /\ \A g \in Funcs : InsideOut(g) /\ NaturalFor(g)
      /\ place \in Nat /\ detected \in Nat /\ loops \in Seq(Blocks)
      /\ loop_blocks \in [Blocks -> Seq(Blocks)] /\ latches \in [Blocks -> SUBSET Blocks]
  BY DEF Looped, Books, L!TypeOK
<1>4. b \in R /\ dom_tree_L[b] < place /\ LatchesOf(f, b) # {} /\ b # 0
  BY <1>1, <1>2 DEF Blocks
<1>5. /\ \A h \in ToSet(loops) \cap R : loop # 0 /\ dom_tree_L[h] >= place /\ In(h) \subseteq dom[h]
      /\ \A h \in ToSet(loops) \ R : In(h) \cap R = {}
  BY OwnLoops
<1>6. \A x \in Blocks : dom_tree_L[x] \in Nat
  BY <1>2
<1>7. b \notin ToSet(loops)
  BY <1>3, <1>4, <1>5, <1>6
<1>8. ASSUME NEW g \in ToSet(loops), b \in In(g) PROVE FALSE
  <2>1. g \in R /\ b \in dom[g] /\ dom_tree_L[g] >= place
    BY <1>4, <1>5, <1>8
  <2>2. dom_tree_L[g] <= dom_tree_L[b]
    BY <1>2, <1>4, <2>1 DEF Between
  <2>3. dom_tree_L[g] \in Nat /\ dom_tree_L[b] \in Nat
    BY <1>2, <1>6, <2>1
  <2> QED
    BY <1>3, <1>4, <2>1, <2>2, <2>3
<1>9. bb_to_loop[b] = 0
  <2> SUFFICES ASSUME bb_to_loop[b] # 0 PROVE FALSE
    OBVIOUS
  <2>1. bb_to_loop[b] \in ToSet(loops) /\ parent[bb_to_loop[b]] = 0
    BY <1>3 DEF Books, Membership
  <2>2. b \in In(bb_to_loop[b])
    BY <1>3, <2>1 DEF Books, Membership
  <2> QED
    BY <1>8, <2>1, <2>2
<1>10. /\ Books' /\ loops' = Append(loops, b) /\ parent' = parent
       /\ loop_blocks' = [loop_blocks EXCEPT ![b] = <<b>>]
       /\ latches' = [latches EXCEPT ![b] = L!back_edges(b)]
       /\ ToSet(work_list') = L!back_edges(b)
  BY <1>2, <1>3, <1>7, <1>8, <1>9, BooksNewLoop
<1>11. ToSet(loops') = ToSet(loops) \cup {b}
  BY <1>3, <1>10, AppendSet
<1>12. \A g : /\ Found(g)' = Found(g) /\ Doms(g)' = Doms(g)
              /\ \A h : Natural(g, h)' = Natural(g, h) /\ LatchesOf(g, h)' = LatchesOf(g, h)
  BY GraphKept
<1>13. /\ In(b)' = {b} /\ latches'[b] = LatchesOf(f, b)
       /\ \A h \in Blocks \ {b} : In(h)' = In(h) /\ latches'[h] = latches[h]
  <2>1. loop_blocks'[b] = <<b>> /\ \A h \in Blocks \ {b} : loop_blocks'[h] = loop_blocks[h]
    BY <1>3, <1>10
  <2>2. ToSet(<<b>>) = {b}
    <3>1. DOMAIN <<b>> = {1} /\ <<b>>[1] = b
      OBVIOUS
    <3> QED
      BY <3>1 DEF ToSet
  <2>3. latches'[b] = L!back_edges(b) /\ \A h \in Blocks \ {b} : latches'[h] = latches[h]
    BY <1>3, <1>10
  <2> QED
    BY <1>2, <1>4, <2>1, <2>2, <2>3 DEF In
<1>14. ToSet(loops) \subseteq Blocks \ {b}
  <2>1. ToSet(loops) \subseteq Blocks
    BY <1>3, Elements
  <2> QED
    BY <1>7, <2>1
<1>15. Progress'
  <2>1. parent'[b] = 0
    BY <1>3, <1>7, <1>10 DEF Books, Nesting
  <2>2. b \in ToSet(loops') \cap Found(func)'
    BY <1>2, <1>4, <1>11, <1>12
  <2> QED
    BY <1>1, <1>2, <1>3, <1>4, <2>1, <2>2 DEF Progress, LoopsOf
<1>16. Homes'
  <2> SUFFICES ASSUME NEW l \in ToSet(loops')
               PROVE  \E g \in Funcs : l \in Found(g)' /\ (g <= detected' \/ (g = func' /\ loop' # 0))
    BY DEF Homes
  <2>1. CASE l = b
    BY <1>1, <1>2, <1>4, <1>12, <2>1
  <2>2. CASE l # b
    <3>1. PICK g \in Funcs : l \in Found(g) /\ (g <= detected \/ g = func)
      BY <1>3, <1>11, <2>2 DEF Homes
    <3> QED
      BY <1>1, <1>4, <1>12, <3>1
  <2> QED
    BY <2>1, <2>2
<1>17. ASSUME NEW g \in Funcs PROVE InsideOut(g)'
  <2>1. PICK n \in Nat : n = Len(loops) /\ DOMAIN loops = 1 .. n
    BY <1>3, Elements
  <2>2. /\ DOMAIN loops' = 1 .. n + 1 /\ loops'[n + 1] = b
        /\ \A i \in 1 .. n : loops'[i] = loops[i]
    <3>1. Append(loops, b) \in Seq(Blocks) /\ Len(Append(loops, b)) = n + 1
      BY <1>3, <2>1, AppendProperties
    <3>2. DOMAIN loops' = 1 .. n + 1
      BY <1>10, <3>1, LenProperties
    <3> QED
      BY <1>3, <1>10, <2>1, <3>2, AppendProperties
  <2> SUFFICES ASSUME NEW i \in 1 .. n + 1, NEW j \in 1 .. n + 1, i < j,
                      loops'[i] \in Found(g), loops'[j] \in Found(g)
               PROVE  loops'[j] \notin Doms(g)[loops'[i]]
    BY <1>12, <2>2 DEF InsideOut
  <2>3. i \in 1 .. n
    BY <2>1
  <2>4. CASE j \in 1 .. n
    BY <1>3, <2>1, <2>2, <2>3, <2>4 DEF InsideOut
  <2>5. CASE j \notin 1 .. n
    <3>1. j = n + 1
      BY <2>1, <2>5
    <3>2. g = f
      BY <1>2, <1>4, <2>2, <3>1
    <3>3. PICK a : a = loops[i]
      OBVIOUS
    <3>4. a \in ToSet(loops) \cap R
      BY <1>2, <2>1, <2>2, <2>3, <3>2, <3>3 DEF ToSet
    <3>5. dom_tree_L[a] >= place /\ dom_tree_L[a] \in Nat /\ dom_tree_L[b] \in Nat
      BY <1>2, <1>5, <1>6, <3>4
    <3>6. ~Between(a, b)
      BY <1>3, <1>4, <3>5 DEF Between
    <3> QED
      BY <1>2, <1>4, <2>2, <2>3, <3>1, <3>2, <3>3, <3>4, <3>6
  <2> QED
    BY <2>4, <2>5
<1>18. ASSUME NEW g \in Funcs PROVE NaturalFor(g)'
  <2> SUFFICES ASSUME NEW h \in ToSet(loops') \cap Found(g)
               PROVE  /\ In(h)' \subseteq Natural(g, h) /\ latches'[h] = LatchesOf(g, h) /\ latches'[h] # {}
                      /\ h # loop' \/ work_list' = <<>> => Natural(g, h) \subseteq In(h)'
    BY <1>12 DEF NaturalFor, LoopsOf
  <2>1. CASE h = b
    <3>1. g = f
      BY <1>2, <1>4, <2>1
    <3>2. b \in Natural(f, b)
      BY <1>2, <1>4, NaturalValue DEF Natural, Found
    <3>3. work_list' # <<>>
      <4>1. ToSet(work_list') # {}
        BY <1>1, <1>10
      <4> QED
        BY <4>1 DEF ToSet
    <3> QED
      BY <1>1, <1>4, <1>13, <2>1, <3>1, <3>2, <3>3
  <2>2. CASE h # b
    <3>1. h \in ToSet(loops) /\ h \in Blocks \ {b} /\ h \in LoopsOf(g)
      BY <1>11, <1>14, <2>2 DEF LoopsOf
    <3>2. In(h)' = In(h) /\ latches'[h] = latches[h]
      BY <1>13, <3>1
    <3>3. /\ In(h) \subseteq Natural(g, h) /\ latches[h] = LatchesOf(g, h) /\ latches[h] # {}
          /\ Natural(g, h) \subseteq In(h)
      BY <1>1, <1>3, <3>1 DEF NaturalFor
    <3> QED
      BY <3>2, <3>3
  <2> QED
    BY <2>1, <2>2
<1>19. Headed'
  <2>1. ASSUME NEW g \in Funcs, g <= detected', NEW h \in Found(g), LatchesOf(g, h) # {}
        PROVE  h \in ToSet(loops')
    BY <1>1, <1>3, <1>11, <2>1 DEF Headed
  <2>2. ASSUME NEW h \in R, LatchesOf(f, h) # {}, dom_tree_L[h] >= dom_tree_L[b]
        PROVE  h \in ToSet(loops')
    <3>1. dom_tree_L[h] \in Nat /\ dom_tree_L[b] \in Nat /\ dom_tree_L[h] <= Cardinality(Blocks)
      BY <1>2, <1>6, <2>2
    <3>2. CASE dom_tree_L[h] < place
      <4>1. h \in L!upcoming /\ L!back_edges(h) # {}
        BY <1>2, <2>2, <3>2
      <4>2. dom_tree_L[h] <= dom_tree_L[b]
        BY <1>1, <4>1
      <4>3. dom_tree_L[h] = dom_tree_L[b]
        BY <2>2, <3>1, <4>2
      <4> QED
        BY <1>2, <1>4, <1>11, <4>3
    <3>3. CASE ~(dom_tree_L[h] < place)
      <4>1. dom_tree_L[h] >= place
        BY <1>3, <3>1, <3>3
      <4>2. loop # 0
        BY <1>3, <3>1, <4>1, BlocksFinite DEF Progress
      <4> QED
        BY <1>2, <1>3, <1>11, <2>2, <4>1, <4>2 DEF Headed, HeadedTo
    <3> QED
      BY <3>2, <3>3
  <2>3. ASSUME NEW h \in ToSet(loops') \cap R PROVE dom_tree_L[h] >= dom_tree_L[b]
    <3>1. dom_tree_L[h] \in Nat /\ dom_tree_L[b] \in Nat
      BY <1>2, <1>6, <2>3
    <3>2. CASE h = b
      BY <3>1, <3>2
    <3>3. CASE h # b
      <4>1. dom_tree_L[h] >= place
        BY <1>5, <1>11, <2>3, <3>3
      <4> QED
        BY <1>3, <1>4, <3>1, <4>1
    <3> QED
      BY <3>2, <3>3
  <2>4. HeadedTo(func, place)' /\ \A h \in LoopsOf(func)' : dom_tree_L'[h] >= place'
    <3>1. Found(func)' = R /\ func' = f
      BY <1>2, <1>12
    <3>2. \A h : LatchesOf(func, h)' = LatchesOf(f, h)
      BY <1>2, <1>12
    <3> QED
      BY <1>1, <2>2, <2>3, <3>1, <3>2 DEF HeadedTo, LoopsOf
  <2>5. \A g \in Funcs : g <= detected' =>
            \A h \in Found(g)' : LatchesOf(g, h)' # {} => h \in ToSet(loops')
    BY <1>12, <2>1
  <2> QED
    BY <2>4, <2>5 DEF Headed
<1>20. Working'
  <2>1. LatchesOf(f, b) \subseteq Natural(f, b)
    BY <1>2, <1>4, NaturalValue DEF Natural, Found, LatchesOf
  <2>2. ToSet(work_list') = LatchesOf(f, b)
    BY <1>2, <1>4, <1>10
  <2>3. Natural(func, loop)' = Natural(f, b) /\ LatchesOf(func, loop)' = LatchesOf(f, b)
    <3>1. func' = f /\ loop' = b
      BY <1>1, <1>2
    <3>2. Natural(func, loop)' = Natural(f, b)' /\ LatchesOf(func, loop)' = LatchesOf(f, b)'
      BY <3>1 DEF Natural, LatchesOf, Entry
    <3> QED
      BY <1>12, <3>2
  <2>4. In(loop)' = {b}
    <3>1. In(loop)' = In(b)'
      BY <1>1 DEF In
    <3> QED
      BY <1>13, <3>1
  <2> QED
    BY <1>1, <2>1, <2>2, <2>3, <2>4 DEF Working
<1> QED
  BY <1>10, <1>15, <1>16, <1>17, <1>18, <1>19, <1>20 DEF Looped

LEMMA LoopedDone ==
    ASSUME Looped, NEW f, NEW R, NEW dom, Ground(f, R, dom), f = detected + 1, pc = "idle",
           UNCHANGED <<basic_blocks, succ_bbs, pre_bbs, pc, func, dom_tree_L>>,
           L!LoopsOfFuncDone
    PROVE  Looped'
<1>1. /\ work_list = <<>> /\ \A b \in L!upcoming : L!back_edges(b) = {}
      /\ detected' = detected + 1 /\ place' = Cardinality(Blocks) + 1 /\ loop' = 0
      /\ UNCHANGED <<work_list, loops, bb_to_loop, latches, loop_blocks, parent, sub_loops>>
  <2>1. L!Cardinality(Blocks) = Cardinality(Blocks)
    BY DEF L!Cardinality, Cardinality
  <2> QED
    BY <2>1 DEF L!LoopsOfFuncDone, L!NoLoop
<1>2. /\ f \in Funcs /\ func = f /\ R = Found(f)
      /\ dom_tree_L \in [Blocks -> Nat] /\ R \subseteq Blocks
      /\ \A x \in R : dom_tree_L[x] \in 1 .. Cardinality(Blocks)
      /\ \A x \in R : L!back_edges(x) = LatchesOf(f, x)
      /\ L!upcoming = {x \in R : dom_tree_L[x] < place}
  BY DEF Ground
<1>3. /\ Books /\ Progress /\ Homes /\ Headed
      /\ \A g \in Funcs : InsideOut(g) /\ NaturalFor(g)
      /\ place \in Nat /\ detected \in Nat
  BY DEF Looped, Books, L!TypeOK
<1>4. \A g : /\ Found(g)' = Found(g) /\ Doms(g)' = Doms(g)
             /\ \A h : Natural(g, h)' = Natural(g, h) /\ LatchesOf(g, h)' = LatchesOf(g, h)
  BY GraphKept
<1>5. \A h : In(h)' = In(h)
  BY <1>1 DEF In
<1>6. Books'
  <2>1. L!TypeOK'
    <3>1. detected' \in Nat /\ place' \in Nat /\ loop' = L!NoLoop
      BY <1>1, <1>3, BlocksFinite DEF L!NoLoop
    <3>2. UNCHANGED <<work_list, loops, bb_to_loop, latches, loop_blocks, parent, sub_loops>> /\ L!TypeOK
      BY <1>1, <1>3 DEF Books
    <3> QED
      BY <3>1, <3>2 DEF L!TypeOK
  <2>2. Membership'
    BY <1>1, <1>3, <1>5 DEF Books, Membership
  <2>3. Nesting'
    <3>1. \A g : In(parent[g])' = In(parent[g])
      BY <1>1 DEF In
    <3> QED
      BY <1>1, <1>3, <1>5, <3>1 DEF Books, Nesting
  <2> QED
    BY <2>1, <2>2, <2>3 DEF Books
<1>7. Progress'
  BY <1>1, <1>2, <1>3 DEF Progress
<1>8. Homes'
  <2> SUFFICES ASSUME NEW l \in ToSet(loops)
               PROVE  \E g \in Funcs : l \in Found(g)' /\ g <= detected'
    BY <1>1 DEF Homes
  <2>1. PICK g \in Funcs : l \in Found(g) /\ (g <= detected \/ g = func)
    BY <1>3 DEF Homes
  <2>2. g <= detected'
    BY <1>1, <1>2, <1>3, <2>1 DEF Funcs
  <2> QED
    BY <1>4, <2>1, <2>2
<1>9. ASSUME NEW g \in Funcs PROVE InsideOut(g)' /\ NaturalFor(g)'
  <2>1. InsideOut(g)'
    BY <1>1, <1>3, <1>4 DEF InsideOut
  <2>2. NaturalFor(g)'
    BY <1>1, <1>3, <1>4, <1>5 DEF NaturalFor, LoopsOf
  <2> QED
    BY <2>1, <2>2
<1>10. Headed'
  <2>1. ASSUME NEW h \in R, LatchesOf(f, h) # {} PROVE h \in ToSet(loops)
    <3>1. h \notin L!upcoming
      BY <1>1, <1>2, <2>1
    <3>2. dom_tree_L[h] >= place /\ dom_tree_L[h] \in Nat /\ dom_tree_L[h] <= Cardinality(Blocks)
      BY <1>2, <1>3, <3>1
    <3>3. loop # 0
      BY <1>3, <3>2, BlocksFinite DEF Progress
    <3> QED
      BY <1>2, <1>3, <2>1, <3>2, <3>3 DEF Headed, HeadedTo
  <2>2. ASSUME NEW g \in Funcs, g <= detected', NEW h \in Found(g), LatchesOf(g, h) # {}
        PROVE  h \in ToSet(loops)
    <3>1. g <= detected \/ g = f
      BY <1>1, <1>3, <2>2 DEF Funcs
    <3> QED
      BY <1>2, <1>3, <2>1, <2>2, <3>1 DEF Headed
  <2> QED
    BY <1>1, <1>4, <2>2 DEF Headed
<1>11. Working'
  BY <1>1 DEF Working
<1> QED
  BY <1>6, <1>7, <1>8, <1>9, <1>10, <1>11 DEF Looped

-----------------------------------------------------------------------------
(* A step that lists more blocks of the loop and leaves the rest alone: it  *)
(* is enough that they belong to the loop and that the work list is right.  *)
LEMMA LoopedSearch ==
    ASSUME Looped, NEW f, NEW R, NEW dom, Ground(f, R, dom), f = detected + 1, pc = "idle",
           UNCHANGED <<basic_blocks, succ_bbs, pre_bbs, pc, func, dom_tree_L>>,
           UNCHANGED <<loops, loop, latches, place, detected>>, loop # 0, Books',
           parent'[loop] = 0,
           \A h \in Blocks \ {loop} : loop_blocks'[h] = loop_blocks[h],
           NEW S, In(loop)' = S, S \subseteq Natural(f, loop),
           ToSet(work_list') \subseteq Natural(f, loop),
           LatchesOf(f, loop) \subseteq S \cup ToSet(work_list'),
           \A x \in S \ {loop} : ToSet(pre_bbs[x]) \subseteq S \cup ToSet(work_list')
    PROVE  Looped'
<1>1. /\ f \in Funcs /\ func = f /\ R = Found(f) /\ R \subseteq Blocks
      /\ IsFlowGraph(succ_bbs, Entry(f))
      /\ \A x \in R : \A p \in R : p \in ToSet(pre_bbs[x]) <=> x \in ToSet(succ_bbs[p])
      /\ \A g \in Funcs \ {f} : Found(g) \cap R = {}
  BY DEF Ground
<1>2. /\ Books /\ Progress /\ Homes /\ Headed
      /\ \A g \in Funcs : InsideOut(g) /\ NaturalFor(g)
      /\ loops \in Seq(Blocks)
  BY DEF Looped, Books, L!TypeOK
<1>3. \A g : /\ Found(g)' = Found(g) /\ Doms(g)' = Doms(g)
             /\ \A h : Natural(g, h)' = Natural(g, h) /\ LatchesOf(g, h)' = LatchesOf(g, h)
  BY GraphKept
<1>4. loop \in ToSet(loops) /\ loop \in R
  BY <1>1, <1>2 DEF Progress, LoopsOf
<1>5. \A g : LoopsOf(g)' = LoopsOf(g)
  BY <1>3 DEF LoopsOf
<1>6. Progress'
  BY <1>1, <1>2, <1>5 DEF Progress
<1>7. Homes'
  BY <1>2, <1>3 DEF Homes
<1>8. \A g \in Funcs : InsideOut(g)'
  BY <1>2, <1>3 DEF InsideOut
<1>9. Headed'
  <2>1. LoopsOf(func)' = LoopsOf(func) /\ HeadedTo(func, place)' = HeadedTo(func, place)
    BY <1>1, <1>3, <1>5 DEF HeadedTo
  <2> QED
    BY <1>2, <1>3, <2>1 DEF Headed
<1>10. loop \in S
  <2>1. loop \in In(loop)'
    <3>1. \A g \in ToSet(loops') : g \in In(g)'
      BY DEF Books, Membership
    <3>2. PICK l : l = loop
      OBVIOUS
    <3>3. l \in In(l)' /\ In(l)' = In(loop)'
      BY <1>4, <3>1, <3>2 DEF In
    <3> QED
      BY <3>2, <3>3
  <2> QED
    BY <2>1
<1>11. In(loop)' = ToSet(loop_blocks'[loop])
  BY DEF In
<1>12. Working'
  <2>1. Natural(func, loop)' = Natural(f, loop) /\ LatchesOf(func, loop)' = LatchesOf(f, loop)
    BY <1>1 DEF Natural, LatchesOf, Entry
  <2> QED
    BY <2>1 DEF Working
<1>13. work_list' = <<>> => Natural(f, loop) \subseteq S
  <2> SUFFICES ASSUME work_list' = <<>> PROVE Natural(f, loop) \subseteq S
    OBVIOUS
  <2>1. ToSet(work_list') = {}
    BY DEF ToSet
  <2>2. Natural(f, loop) \subseteq R
    BY <1>1, <1>4, NaturalIn
  <2>3. ASSUME NEW x \in S \ {loop}, NEW p \in R, x \in ToSet(succ_bbs[p]) PROVE p \in S
    BY <1>1, <2>1, <2>2, <2>3
  <2>4. loop \in All(succ_bbs, Entry(f)) /\ R = All(succ_bbs, Entry(f))
    BY <1>1, <1>4 DEF Found
  <2>5. Latches(succ_bbs, Entry(f), loop) \subseteq S
    BY <2>1 DEF LatchesOf
  <2>6. \A x \in S \ {loop} : \A p \in All(succ_bbs, Entry(f)) : x \in ToSet(succ_bbs[p]) => p \in S
    BY <2>3, <2>4
  <2> QED
    BY <1>1, <1>10, <2>4, <2>5, <2>6, NaturalLeast DEF Natural
<1>14. ASSUME NEW g \in Funcs PROVE NaturalFor(g)'
  <2> SUFFICES ASSUME NEW h \in LoopsOf(g)
               PROVE  /\ In(h)' \subseteq Natural(g, h) /\ latches[h] = LatchesOf(g, h) /\ latches[h] # {}
                      /\ h # loop \/ work_list' = <<>> => Natural(g, h) \subseteq In(h)'
    BY <1>3, <1>5 DEF NaturalFor
  <2>1. /\ In(h) \subseteq Natural(g, h) /\ latches[h] = LatchesOf(g, h) /\ latches[h] # {}
        /\ h # loop => Natural(g, h) \subseteq In(h)
    BY <1>2 DEF NaturalFor
  <2>2. In(h)' = ToSet(loop_blocks'[h]) /\ h \in ToSet(loops) /\ h \in Found(g)
    BY DEF In, LoopsOf
  <2>3. CASE h = loop
    <3>1. g = f
      BY <1>1, <1>4, <2>2, <2>3
    <3>2. In(h)' = S
      BY <1>11, <2>2, <2>3
    <3> QED
      BY <1>13, <2>1, <2>3, <3>1, <3>2
  <2>4. CASE h # loop
    <3>1. h \in Blocks
      <4>1. ToSet(loops) \subseteq Blocks
        BY <1>2, Elements
      <4> QED
        BY <2>2, <4>1
    <3>2. In(h)' = In(h)
      BY <2>2, <2>4, <3>1 DEF In
    <3> QED
      BY <2>1, <2>4, <3>2
  <2> QED
    BY <2>3, <2>4
<1> QED
  BY <1>6, <1>7, <1>8, <1>9, <1>12, <1>14 DEF Looped

(* What holds while the work list is not empty.                             *)
LEMMA WorkFacts ==
    ASSUME Looped, NEW f, NEW R, NEW dom, Ground(f, R, dom), f = detected + 1, work_list # <<>>
    PROVE  /\ loop # 0 /\ loop \in ToSet(loops) /\ loop \in R /\ parent[loop] = 0
           /\ loop \in Blocks /\ place = dom_tree_L[loop]
           /\ In(loop) \subseteq Natural(f, loop) /\ ToSet(work_list) \subseteq Natural(f, loop)
           /\ LatchesOf(f, loop) \subseteq In(loop) \cup ToSet(work_list)
           /\ \A x \in In(loop) \ {loop} : ToSet(pre_bbs[x]) \subseteq In(loop) \cup ToSet(work_list)
           /\ \A x \in Natural(f, loop) \ {loop} : ToSet(pre_bbs[x]) \subseteq Natural(f, loop)
           /\ Natural(f, loop) \subseteq R
<1>1. /\ f \in Funcs /\ func = f /\ R = Found(f) /\ R \subseteq Blocks /\ IsFlowGraph(succ_bbs, Entry(f))
      /\ \A x \in R : /\ ToSet(pre_bbs[x]) \subseteq R
                      /\ \A p \in R : p \in ToSet(pre_bbs[x]) <=> x \in ToSet(succ_bbs[p])
  BY DEF Ground
<1>2. /\ loop # 0 /\ loop \in LoopsOf(f) /\ parent[loop] = 0 /\ place = dom_tree_L[loop]
  BY <1>1 DEF Looped, Progress
<1>3. loop \in ToSet(loops) /\ loop \in R
  BY <1>1, <1>2 DEF LoopsOf
<1>4. /\ ToSet(work_list) \subseteq Natural(f, loop)
      /\ LatchesOf(f, loop) \subseteq In(loop) \cup ToSet(work_list)
      /\ \A x \in In(loop) \ {loop} : ToSet(pre_bbs[x]) \subseteq In(loop) \cup ToSet(work_list)
  BY <1>1, <1>2 DEF Looped, Working
<1>5. In(loop) \subseteq Natural(f, loop)
  BY <1>1, <1>2 DEF Looped, NaturalFor
<1>6. Natural(f, loop) \subseteq R
  BY <1>1, <1>3, NaturalIn
<1>7. ASSUME NEW x \in Natural(f, loop) \ {loop}, NEW p \in ToSet(pre_bbs[x]) PROVE p \in Natural(f, loop)
  <2>1. p \in R /\ x \in ToSet(succ_bbs[p])
    BY <1>1, <1>6, <1>7
  <2>2. \A y \in Natural(f, loop) \ {loop} : \A q \in R : y \in ToSet(succ_bbs[q]) => q \in Natural(f, loop)
    BY <1>1, <1>3, NaturalValue DEF Natural, Found
  <2> QED
    BY <1>7, <2>1, <2>2
<1> QED
  BY <1>1, <1>2, <1>3, <1>4, <1>5, <1>6, <1>7

LEMMA LoopedNewBlock ==
    ASSUME Looped, NEW f, NEW R, NEW dom, Ground(f, R, dom), f = detected + 1, pc = "idle",
           UNCHANGED <<basic_blocks, succ_bbs, pre_bbs, pc, func, dom_tree_L>>,
           L!NewBlock
    PROVE  Looped'
<1>1. work_list # <<>> /\ Books /\ pre_bbs \in [Blocks -> Seq(Blocks)]
  BY DEF L!NewBlock, Looped, Ground
<1>2. /\ loop # 0 /\ loop \in ToSet(loops) /\ loop \in R /\ parent[loop] = 0 /\ loop \in Blocks
      /\ In(loop) \subseteq Natural(f, loop) /\ ToSet(work_list) \subseteq Natural(f, loop)
      /\ LatchesOf(f, loop) \subseteq In(loop) \cup ToSet(work_list)
      /\ \A x \in In(loop) \ {loop} : ToSet(pre_bbs[x]) \subseteq In(loop) \cup ToSet(work_list)
      /\ \A x \in Natural(f, loop) \ {loop} : ToSet(pre_bbs[x]) \subseteq Natural(f, loop)
  BY <1>1, WorkFacts
<1>3. PICK x \in ToSet(work_list) :
         /\ Books' /\ bb_to_loop[x] = 0
         /\ UNCHANGED <<loops, loop, latches, parent, place, detected>>
         /\ \A h \in Blocks \ {loop} : loop_blocks'[h] = loop_blocks[h]
         /\ In(loop)' = In(loop) \cup {x}
         /\ ToSet(work_list') \cup {x} = ToSet(work_list) \cup ToSet(pre_bbs[x]) \cup {x}
  BY <1>1, <1>2, BooksNewBlock
<1>4. x # loop
  BY <1>1, <1>2, <1>3 DEF Books, Membership
<1>5. PICK S : S = In(loop) \cup {x}
  OBVIOUS
<1>6. /\ In(loop)' = S /\ S \subseteq Natural(f, loop) /\ ToSet(work_list') \subseteq Natural(f, loop)
      /\ LatchesOf(f, loop) \subseteq S \cup ToSet(work_list')
  BY <1>2, <1>3, <1>4, <1>5
<1>7. \A y \in S \ {loop} : ToSet(pre_bbs[y]) \subseteq S \cup ToSet(work_list')
  BY <1>2, <1>3, <1>5
<1>8. parent'[loop] = 0
  BY <1>2, <1>3
<1> QED
  BY <1>2, <1>3, <1>6, <1>7, <1>8, LoopedSearch

LEMMA LoopedOwnBlock ==
    ASSUME Looped, NEW f, NEW R, NEW dom, Ground(f, R, dom), f = detected + 1, pc = "idle",
           UNCHANGED <<basic_blocks, succ_bbs, pre_bbs, pc, func, dom_tree_L>>,
           L!OwnBlock
    PROVE  Looped'
<1>1. PICK x, t : /\ x = work_list[Len(work_list)]
                  /\ t = SubSeq(work_list, 1, Len(work_list) - 1)
  OBVIOUS
<1>2. /\ work_list # <<>> /\ bb_to_loop[x] = loop /\ work_list' = t
      /\ UNCHANGED <<detected, place, loop, loops, bb_to_loop, latches, loop_blocks, parent, sub_loops>>
  BY <1>1 DEF L!OwnBlock, L!bb, L!Last, L!Front
<1>3. Books /\ work_list \in Seq(Blocks)
  BY DEF Looped, Books, L!TypeOK
<1>4. x \in Blocks /\ t \in Seq(Blocks) /\ ToSet(work_list) = ToSet(t) \cup {x}
  BY <1>1, <1>2, <1>3, LastTaken
<1>5. /\ loop # 0 /\ loop \in ToSet(loops) /\ loop \in R /\ parent[loop] = 0 /\ loop \in Blocks
      /\ In(loop) \subseteq Natural(f, loop) /\ ToSet(work_list) \subseteq Natural(f, loop)
      /\ LatchesOf(f, loop) \subseteq In(loop) \cup ToSet(work_list)
      /\ \A y \in In(loop) \ {loop} : ToSet(pre_bbs[y]) \subseteq In(loop) \cup ToSet(work_list)
  BY <1>2, WorkFacts
<1>6. x \in In(loop)
  BY <1>2, <1>3, <1>4, <1>5 DEF Books, Membership
<1>7. Books'
  <2>1. \A h : In(h)' = In(h)
    BY <1>2 DEF In
  <2>2. L!TypeOK'
    <3>1. L!TypeOK
      BY <1>3 DEF Books
    <3> QED
      BY <1>2, <1>4, <3>1 DEF L!TypeOK
  <2>3. Membership'
    BY <1>2, <1>3, <2>1 DEF Books, Membership
  <2>4. Nesting'
    <3>1. \A g : In(parent[g])' = In(parent[g])
      BY <1>2 DEF In
    <3> QED
      BY <1>2, <1>3, <2>1, <3>1 DEF Books, Nesting
  <2> QED
    BY <2>2, <2>3, <2>4 DEF Books
<1>8. In(loop)' = In(loop)
  BY <1>2 DEF In
<1>9. PICK S : S = In(loop)
  OBVIOUS
<1>10. /\ In(loop)' = S /\ S \subseteq Natural(f, loop) /\ ToSet(work_list') \subseteq Natural(f, loop)
       /\ LatchesOf(f, loop) \subseteq S \cup ToSet(work_list')
       /\ \A y \in S \ {loop} : ToSet(pre_bbs[y]) \subseteq S \cup ToSet(work_list')
  BY <1>2, <1>4, <1>5, <1>6, <1>8, <1>9
<1>11. parent'[loop] = 0 /\ \A h \in Blocks \ {loop} : loop_blocks'[h] = loop_blocks[h]
  BY <1>2, <1>5
<1> QED
  BY <1>2, <1>5, <1>7, <1>10, <1>11, LoopedSearch

(* The loop around the block has a higher number than this one, its header  *)
(* does not dominate that of this loop: it is inside, with all its blocks.  *)
LEMMA LoopedSubLoop ==
    ASSUME Looped, NEW f, NEW R, NEW dom, Ground(f, R, dom), f = detected + 1, pc = "idle",
           UNCHANGED <<basic_blocks, succ_bbs, pre_bbs, pc, func, dom_tree_L>>,
           L!SubLoop
    PROVE  Looped'
<1>1. work_list # <<>> /\ Books /\ pre_bbs \in [Blocks -> Seq(Blocks)] /\ place \in Nat
  BY DEF L!SubLoop, Looped, Ground, Books, L!TypeOK
<1>2. /\ loop # 0 /\ loop \in ToSet(loops) /\ loop \in R /\ parent[loop] = 0 /\ loop \in Blocks
      /\ place = dom_tree_L[loop]
      /\ In(loop) \subseteq Natural(f, loop) /\ ToSet(work_list) \subseteq Natural(f, loop)
      /\ LatchesOf(f, loop) \subseteq In(loop) \cup ToSet(work_list)
      /\ \A x \in In(loop) \ {loop} : ToSet(pre_bbs[x]) \subseteq In(loop) \cup ToSet(work_list)
      /\ \A x \in Natural(f, loop) \ {loop} : ToSet(pre_bbs[x]) \subseteq Natural(f, loop)
      /\ Natural(f, loop) \subseteq R
  BY <1>1, WorkFacts
<1>3. PICK x \in ToSet(work_list), sub \in ToSet(loops) :
         /\ Books' /\ bb_to_loop[x] = sub /\ x \in In(sub) /\ x \notin In(loop)
         /\ sub # loop
         /\ UNCHANGED <<loops, loop, latches, place, detected>> /\ parent'[loop] = 0
         /\ \A h \in Blocks \ {loop} : loop_blocks'[h] = loop_blocks[h]
         /\ In(loop)' = In(loop) \cup In(sub)
         /\ ToSet(work_list') \cup {x} = ToSet(work_list) \cup ToSet(pre_bbs[sub]) \cup {x}
  BY <1>1, <1>2, BooksSubLoop
<1>4. x \in R
  BY <1>2
<1>5. /\ f \in Funcs /\ func = f /\ R = Found(f) /\ dom = Doms(f) /\ R \subseteq Blocks
      /\ IsFlowGraph(succ_bbs, Entry(f)) /\ dom_tree_L \in [Blocks -> Nat]
      /\ \A a, b \in R : Between(a, b) <=> b \in dom[a]
      /\ \A a, b \in R : dom_tree_L[a] = dom_tree_L[b] => a = b
      /\ \A y \in R : /\ ToSet(pre_bbs[y]) \subseteq R
                      /\ \A p \in R : p \in ToSet(pre_bbs[y]) <=> y \in ToSet(succ_bbs[p])
  BY DEF Ground
<1>6. /\ sub \in R /\ sub \in LoopsOf(f) /\ dom_tree_L[sub] >= place
      /\ In(sub) \subseteq Natural(f, sub)
  <2>1. /\ \A h \in ToSet(loops) \cap R : h \in LoopsOf(f) /\ dom_tree_L[h] >= place /\ In(h) \subseteq Natural(f, h)
        /\ \A h \in ToSet(loops) \ R : In(h) \cap R = {}
    BY OwnLoops
  <2>2. sub \in R
    BY <1>3, <1>4, <2>1
  <2> QED
    BY <2>1, <2>2
<1>7. Natural(f, sub) \subseteq In(sub)
  <2>1. NaturalFor(f)
    BY <1>5 DEF Looped
  <2> QED
    BY <1>3, <1>6, <2>1 DEF NaturalFor
<1>8. loop \notin dom[sub]
  <2>1. dom_tree_L[sub] # dom_tree_L[loop] /\ dom_tree_L[sub] \in Nat /\ dom_tree_L[loop] \in Nat
    BY <1>2, <1>3, <1>5, <1>6
  <2>2. ~(dom_tree_L[sub] <= dom_tree_L[loop])
    BY <1>2, <1>6, <2>1
  <2> QED
    BY <1>2, <1>5, <1>6, <2>2 DEF Between
<1>9. Natural(f, sub) \subseteq Natural(f, loop)
  <2>1. x \in Natural(f, sub) /\ x \in Natural(f, loop)
    BY <1>2, <1>3, <1>6
  <2>2. sub \in All(succ_bbs, Entry(f)) /\ loop \in All(succ_bbs, Entry(f))
    BY <1>2, <1>5, <1>6 DEF Found
  <2>3. loop \notin DominatedBy(succ_bbs, Entry(f))[sub]
    BY <1>5, <1>8 DEF Doms
  <2> QED
    BY <1>5, <2>1, <2>2, <2>3, NaturalNested DEF Natural
<1>10. ASSUME NEW y \in In(sub) \ {sub} PROVE ToSet(pre_bbs[y]) \subseteq In(sub)
  <2>1. \A z \in Natural(f, sub) \ {sub} : \A q \in R : z \in ToSet(succ_bbs[q]) => q \in Natural(f, sub)
    BY <1>5, <1>6, NaturalValue DEF Natural, Found
  <2>2. y \in Natural(f, sub) /\ y \in R
    BY <1>2, <1>6, <1>9, <1>10
  <2> QED
    BY <1>5, <1>7, <1>10, <2>1, <2>2
<1>11. PICK S : S = In(loop) \cup In(sub)
  OBVIOUS
<1>12. sub \in Natural(f, loop) /\ sub # loop
  <2>1. sub \in In(sub)
    BY <1>1, <1>3 DEF Books, Membership
  <2> QED
    BY <1>3, <1>6, <1>9, <2>1
<1>13. In(loop)' = S /\ S \subseteq Natural(f, loop)
  BY <1>2, <1>3, <1>6, <1>9, <1>11
<1>14. /\ ToSet(work_list') \subseteq Natural(f, loop)
       /\ LatchesOf(f, loop) \subseteq S \cup ToSet(work_list')
  BY <1>2, <1>3, <1>11, <1>12
<1>15. \A y \in S \ {loop} : ToSet(pre_bbs[y]) \subseteq S \cup ToSet(work_list')
  <2> SUFFICES ASSUME NEW y \in S \ {loop} PROVE ToSet(pre_bbs[y]) \subseteq S \cup ToSet(work_list')
    OBVIOUS
  <2>1. x \in S
    BY <1>3, <1>11
  <2>2. CASE y \in In(loop)
    BY <1>2, <1>3, <1>11, <2>1, <2>2
  <2>3. CASE y = sub
    BY <1>3, <2>1, <2>3
  <2>4. CASE y \in In(sub) \ {sub}
    BY <1>10, <1>11, <2>4
  <2> QED
    BY <1>11, <2>2, <2>3, <2>4
<1> QED
  BY <1>2, <1>3, <1>13, <1>14, <1>15, LoopedSearch

-----------------------------------------------------------------------------
(* From the builder on.                                                     *)
LEMMA LoopedKept ==
    ASSUME Looped, UNCHANGED loop_vars, func \in Nat,
           func # 0 => UNCHANGED <<basic_blocks, succ_bbs, pre_bbs>>,
           loop # 0 => UNCHANGED <<pc, func, dom_tree_L>>,
           detected <= func', func' <= detected + 1
    PROVE  Looped'
<1>1. UNCHANGED <<detected, place, loop, work_list, loops, bb_to_loop, latches, loop_blocks,
                  parent, sub_loops>>
  BY DEF loop_vars
<1>2. /\ Books /\ Progress /\ Homes /\ Headed /\ Working /\ detected \in Nat
      /\ \A f \in Funcs : InsideOut(f) /\ NaturalFor(f)
  BY DEF Looped, Books, L!TypeOK
<1>3. \A h : In(h)' = In(h) /\ In(parent[h])' = In(parent[h])
  BY <1>1 DEF In
<1>4. Books'
  <2>1. L!TypeOK'
    BY <1>1, <1>2 DEF Books, L!TypeOK
  <2>2. Membership'
    BY <1>1, <1>2, <1>3 DEF Books, Membership
  <2>3. Nesting'
    BY <1>1, <1>2, <1>3 DEF Books, Nesting
  <2> QED
    BY <2>1, <2>2, <2>3 DEF Books
<1>5. CASE func = 0
  <2>1. loop = 0 /\ detected = 0
    BY <1>2, <1>5 DEF Progress
  <2>2. ToSet(loops) = {}
    BY <1>2, <1>5, <2>1 DEF Homes, Funcs
  <2>3. DOMAIN loops = {}
    BY <2>2 DEF ToSet
  <2>4. loop' = 0 /\ detected' = 0 /\ ToSet(loops') = {} /\ DOMAIN loops' = {}
    BY <1>1, <2>1, <2>2, <2>3
  <2>5. Progress'
    BY <1>1, <1>2, <2>1, <2>4 DEF Progress
  <2>6. Homes' /\ Working'
    BY <2>4 DEF Homes, Working
  <2>7. Headed'
    BY <2>4 DEF Headed, Funcs
  <2>8. \A f \in Funcs : InsideOut(f)' /\ NaturalFor(f)'
    BY <2>4 DEF InsideOut, NaturalFor, LoopsOf
  <2> QED
    BY <1>4, <2>5, <2>6, <2>7, <2>8 DEF Looped
<1>6. CASE func # 0
  <2>1. UNCHANGED <<basic_blocks, succ_bbs, pre_bbs>>
    BY <1>6
  <2>2. \A f : /\ Found(f)' = Found(f) /\ Doms(f)' = Doms(f) /\ LoopsOf(f)' = LoopsOf(f)
               /\ \A h : Natural(f, h)' = Natural(f, h) /\ LatchesOf(f, h)' = LatchesOf(f, h)
    BY <1>1, <2>1, GraphKept DEF LoopsOf
  <2>3. Progress'
    <3>1. loop # 0 => LoopsOf(func)' = LoopsOf(func)
      BY <1>1, <2>1 DEF LoopsOf, Found, Entry
    <3> QED
      BY <1>1, <1>2, <3>1 DEF Progress
  <2>4. Homes'
    BY <1>1, <1>2, <2>2 DEF Homes
  <2>5. Headed'
    <3>1. loop # 0 => LoopsOf(func)' = LoopsOf(func) /\ HeadedTo(func, place)' = HeadedTo(func, place)
      BY <1>1, <2>1 DEF LoopsOf, Found, Entry, HeadedTo, LatchesOf
    <3> QED
      BY <1>1, <1>2, <2>2, <3>1 DEF Headed
  <2>6. Working'
    <3>1. loop # 0 => Natural(func, loop)' = Natural(func, loop) /\ LatchesOf(func, loop)' = LatchesOf(func, loop)
      BY <1>1, <2>1 DEF Natural, LatchesOf, Entry
    <3>2. In(loop)' = In(loop)
      BY <1>1 DEF In
    <3> QED
      BY <1>1, <1>2, <2>1, <3>1, <3>2 DEF Working
  <2>7. \A f \in Funcs : InsideOut(f)'
    BY <1>1, <1>2, <2>2 DEF InsideOut
  <2>8. \A f \in Funcs : NaturalFor(f)'
    BY <1>1, <1>2, <1>3, <2>2 DEF NaturalFor
  <2> QED
    BY <1>4, <2>3, <2>4, <2>5, <2>6, <2>7, <2>8 DEF Looped
<1> QED
  BY <1>5, <1>6

LEMMA LoopedStep ==
    ASSUME Ready, Placed, Searched, Trees, Living, Ranked, Looped, Detect
    PROVE  Looped'
<1>1. /\ func = detected + 1 /\ pc = "idle" /\ place \in Nat /\ detected \in Nat
  BY DEF Detect, Looped, Books, L!TypeOK
<1>2. UNCHANGED <<basic_blocks, succ_bbs, pre_bbs, pc, func, dom_tree_L>>
  BY DEF Detect, builder_vars, dom_vars
<1>3. PICK f, R, dom : Ground(f, R, dom)
  BY <1>1, GroundIs
<1>4. f = detected + 1
  BY <1>1, <1>3 DEF Ground
<1>5. ASSUME NEW b \in Blocks, L!NewLoop(b) PROVE Looped'
  BY <1>1, <1>2, <1>3, <1>4, <1>5, LoopedNewLoop
<1>6. L!LoopsOfFuncDone => Looped'
  BY <1>1, <1>2, <1>3, <1>4, LoopedDone
<1>7. L!NewBlock => Looped'
  BY <1>1, <1>2, <1>3, <1>4, LoopedNewBlock
<1>8. L!OwnBlock => Looped'
  BY <1>1, <1>2, <1>3, <1>4, LoopedOwnBlock
<1>9. L!SubLoop => Looped'
  BY <1>1, <1>2, <1>3, <1>4, LoopedSubLoop
<1> QED
  BY <1>5, <1>6, <1>7, <1>8, <1>9 DEF Detect, L!NextLoops

LEMMA LoopedInit == InitAnalysis => Looped
<1> SUFFICES ASSUME InitAnalysis PROVE Looped
  OBVIOUS
<1>1. func = 0 /\ pc = "idle"
  BY DEF InitAnalysis, D!InitDominators
<1>2. /\ detected = 0 /\ place = Cardinality(Blocks) + 1 /\ loop = 0 /\ work_list = <<>> /\ loops = <<>>
      /\ bb_to_loop = [b \in Blocks |-> 0] /\ latches = [b \in Blocks |-> {}]
      /\ loop_blocks = [b \in Blocks |-> <<>>] /\ parent = [b \in Blocks |-> 0]
      /\ sub_loops = [b \in Blocks |-> <<>>]
  <2>1. L!Cardinality(Blocks) = Cardinality(Blocks)
    BY DEF L!Cardinality, Cardinality
  <2> QED
    BY <2>1 DEF InitAnalysis, L!InitLoops, L!NoLoop
<1>3. ToSet(loops) = {} /\ DOMAIN loops = {} /\ 0 \notin Blocks
  BY <1>2 DEF ToSet, Blocks
<1>4. L!TypeOK
  BY <1>2, BlocksFinite DEF L!TypeOK, L!NoLoop
<1>5. Membership
  BY <1>2, <1>3 DEF Membership
<1>6. Nesting
  <2>1. \A h \in Blocks : sub_loops[h] = <<>> /\ parent[h] = 0
    BY <1>2
  <2>2. IsInjective(<<>>) /\ ToSet(<<>>) = {}
    BY DEF IsInjective, ToSet
  <2> QED
    BY <1>3, <2>1, <2>2 DEF Nesting
<1>7. Progress /\ Homes /\ Headed /\ Working
  BY <1>1, <1>2, <1>3 DEF Progress, Homes, Headed, Working, Funcs
<1>8. \A f \in Funcs : InsideOut(f) /\ NaturalFor(f)
  BY <1>3 DEF InsideOut, NaturalFor, LoopsOf
<1> QED
  BY <1>4, <1>5, <1>6, <1>7, <1>8 DEF Looped, Books

LEMMA LoopedAlways == SpecAnalysis => []Looped
<1>1. Built /\ Placed /\ Searched /\ Trees /\ Living /\ Ranked /\ Looped /\ [NextAnalysis]_all_vars => Looped'
  <2> SUFFICES ASSUME Built, Placed, Searched, Trees, Living, Ranked, Looped, [NextAnalysis]_all_vars
               PROVE  Looped'
    OBVIOUS
  <2>1. (func # 0 => compiled) /\ func \in Nat
    BY DEF Placed, Places, D!TypeOK, Funcs
  <2>2. /\ detected <= func /\ func <= detected + 1 /\ detected \in Nat
        /\ loop # 0 => pc = "idle" /\ func = detected + 1
    BY DEF Looped, Progress, Books, L!TypeOK
  <2>3. func # 0 => builder_vars' = builder_vars
    BY <2>1, AnalysisStep
  <2>4. func # 0 => UNCHANGED <<basic_blocks, succ_bbs, pre_bbs>>
    BY <2>3 DEF builder_vars
  <2>5. CASE Build \/ UNCHANGED all_vars
    <3>1. UNCHANGED loop_vars /\ UNCHANGED <<pc, func, dom_tree_L>>
      BY <2>5 DEF Build, all_vars, dom_vars
    <3> QED
      BY <2>1, <2>2, <2>4, <3>1, LoopedKept
  <2>6. CASE Analyse
    <3>1. UNCHANGED loop_vars /\ D!NextDominators /\ (pc = "idle" => detected = func)
      BY <2>6 DEF Analyse
    <3>2. loop = 0
      BY <2>2, <3>1
    <3>3. D!RunOnFunc \/ D!FrontierBlock \/ D!Runner \/ D!CreateDomTree \/ func' = func
      BY <3>1, StepKinds
    <3>4. func' = func \/ (pc = "idle" /\ func' = func + 1)
      BY <3>3 DEF D!RunOnFunc, D!FrontierBlock, D!Runner, D!CreateDomTree
    <3>5. detected <= func' /\ func' <= detected + 1
      BY <2>1, <2>2, <3>1, <3>4
    <3> QED
      BY <2>1, <2>4, <3>1, <3>2, <3>5, LoopedKept
  <2>7. CASE Detect
    <3>1. func # 0
      BY <2>2, <2>7 DEF Detect
    <3>2. Ready
      BY <2>1, <3>1 DEF Ready, Built
    <3> QED
      BY <2>7, <3>2, LoopedStep
  <2> QED
    BY <2>5, <2>6, <2>7 DEF NextAnalysis, Run
<1> QED
  BY BuiltAlways, PlacedAlways, SearchedAlways, TreesAlways, LivingAlways, RankedAlways, LoopedInit,
     <1>1, PTL DEF SpecAnalysis

-----------------------------------------------------------------------------
(* The results.                                                             *)

(* The state of the builder, the analysis and the loop detection keeps its  *)
(* types: every link leads to a block or nowhere, and no iterator leaves    *)
(* its list.                                                                *)
THEOREM AnalysisTyped == SpecAnalysis => []Typed
<1>1. Placed /\ Looped => D!TypeOK /\ L!TypeOK
  BY DEF Placed, Looped, Books
<1> QED
  BY AnalysisReads, BuilderTypes, PlacedAlways, LoopedAlways, <1>1, PTL DEF Typed

(* The definitions that LoopDetection measures its results by.              *)
LEMMA LoopIs ==
    /\ \A succ, start : L!DominatedBy(succ, start) = DominatedBy(succ, start)
    /\ \A succ, start, h : L!NaturalLoop(succ, start, h) = NaturalLoop(succ, start, h)
    /\ \A s : L!ToSet(s) = ToSet(s) /\ (L!IsInjective(s) <=> IsInjective(s))
<1>1. \A S : L!Cardinality(S) = Cardinality(S)
  BY DEF L!Cardinality, Cardinality
<1>2. \A s : L!ToSet(s) = ToSet(s) /\ (L!IsInjective(s) <=> IsInjective(s))
  BY DEF L!ToSet, ToSet, L!IsInjective, IsInjective
<1>3. \A succ, start, avoid : L!Reach(succ, start, avoid) = Reach(succ, start, avoid)
  BY <1>1 DEF L!Reach, Reach, L!ToSet, ToSet
<1>4. \A succ, start : L!DominatedBy(succ, start) = DominatedBy(succ, start)
  BY <1>3 DEF L!DominatedBy, DominatedBy
<1>5. \A succ, start, h : L!NaturalLoop(succ, start, h) = NaturalLoop(succ, start, h)
  BY <1>3, <1>4 DEF L!NaturalLoop, NaturalLoop, L!ToSet, ToSet
<1> QED
  BY <1>2, <1>4, <1>5

(* A function that has been searched. *)
LEMMA LoopsFound ==
    ASSUME Built, Placed, Looped, NEW f \in 1 .. detected
    PROVE  /\ f \in Funcs /\ Ready
           /\ {l \in ToSet(loops) : l \in BlocksOf(f)} = LoopsOf(f)
           /\ \A h \in Found(f) : LatchesOf(f, h) # {} <=> h \in LoopsOf(f)
           /\ \A h \in LoopsOf(f) :
                 /\ h \in Found(f) /\ h \in Blocks /\ In(h) = Natural(f, h) /\ latches[h] = LatchesOf(f, h)
                 /\ In(h) \subseteq Doms(f)[h] /\ IsInjective(loop_blocks[h])
<1>1. /\ detected \in Nat /\ detected <= func /\ func <= detected + 1 /\ loops \in Seq(Blocks)
      /\ loop # 0 => func = detected + 1 /\ loop \in LoopsOf(func)
      /\ Homes /\ Headed /\ Membership /\ \A g \in Funcs : NaturalFor(g)
  BY DEF Looped, Progress, Books, L!TypeOK
<1>2. func \in Funcs /\ f \in Funcs /\ f # detected + 1
  <2>1. func \in Funcs \cup {0} /\ Funcs = 1 .. MaxFuncs /\ MaxFuncs \in Nat
    BY BuilderAssumption DEF Placed, D!TypeOK, Funcs, BuilderAssumption
  <2> QED
    BY <1>1, <2>1
<1>3. Ready
  <2>1. func # 0
    BY <1>2 DEF Funcs
  <2> QED
    BY <2>1 DEF Ready, Built, Placed, Places
<1>4. \A g \in Funcs : Found(g) \subseteq BlocksOf(g) /\ IsFlowGraph(succ_bbs, Entry(g))
  BY <1>3, FoundFacts
<1>5. \A g \in Funcs \ {f} : BlocksOf(f) \cap BlocksOf(g) = {}
  BY <1>2, <1>3, GraphFacts
<1>6. {l \in ToSet(loops) : l \in BlocksOf(f)} = LoopsOf(f)
  <2>1. ASSUME NEW l \in ToSet(loops), l \in BlocksOf(f) PROVE l \in Found(f)
    <3>1. PICK g \in Funcs : l \in Found(g)
      BY <1>1, <2>1 DEF Homes
    <3> QED
      BY <1>4, <1>5, <2>1, <3>1
  <2> QED
    BY <1>2, <1>4, <2>1 DEF LoopsOf
<1>7. ASSUME NEW h \in LoopsOf(f)
      PROVE  /\ h \in Found(f) /\ h \in Blocks /\ In(h) = Natural(f, h) /\ latches[h] = LatchesOf(f, h)
             /\ In(h) \subseteq Doms(f)[h] /\ IsInjective(loop_blocks[h]) /\ latches[h] # {}
  <2>1. h \in Found(f) /\ h \in ToSet(loops)
    BY DEF LoopsOf
  <2>2. h \in Blocks
    <3>1. ToSet(loops) \subseteq Blocks
      BY <1>1, Elements
    <3> QED
      BY <2>1, <3>1
  <2>3. h # loop
    <3> SUFFICES ASSUME h = loop, loop # 0 PROVE FALSE
      BY <2>2 DEF Blocks
    <3>1. h \in Found(func) /\ func # f
      BY <1>1, <1>2 DEF LoopsOf
    <3> QED
      BY <1>2, <1>4, <1>5, <2>1, <3>1
  <2>4. In(h) = Natural(f, h) /\ latches[h] = LatchesOf(f, h) /\ latches[h] # {}
    BY <1>1, <1>2, <2>3 DEF NaturalFor
  <2>5. Natural(f, h) \subseteq Doms(f)[h]
    BY <1>2, <1>4, <2>1, NaturalValue DEF Natural, Found, Doms
  <2> QED
    BY <1>1, <2>1, <2>2, <2>4, <2>5 DEF Membership
<1>8. \A h \in Found(f) : LatchesOf(f, h) # {} <=> h \in LoopsOf(f)
  BY <1>1, <1>2, <1>7 DEF Headed, LoopsOf
<1> QED
  BY <1>2, <1>3, <1>6, <1>7, <1>8

(* Every loop that the loop detection records is the natural loop of its    *)
(* header, complete and without repetition, with the sources of its         *)
(* branches back as latches, and every header has one.                      *)
THEOREM LoopsAreNatural == SpecAnalysis => []LoopsNatural
<1>1. Built /\ Placed /\ Looped => LoopsNatural
  <2> SUFFICES ASSUME Built, Placed, Looped PROVE LoopsNatural
    OBVIOUS
  <2>1. ASSUME NEW f \in 1 .. detected
        PROVE  LET found == {l \in ToSet(loops) : l \in BlocksOf(f)}
               IN  /\ found = {h \in DOMAIN Doms(f) : \E p \in Doms(f)[h] : h \in ToSet(succ_bbs[p])}
                   /\ \A h \in found :
                         /\ ToSet(loop_blocks[h]) = Natural(f, h)
                         /\ IsInjective(loop_blocks[h])
                         /\ latches[h] = ToSet(loop_blocks[h]) \cap ToSet(pre_bbs[h])
    <3>1. /\ f \in Funcs /\ Ready
          /\ {l \in ToSet(loops) : l \in BlocksOf(f)} = LoopsOf(f)
          /\ \A h \in Found(f) : LatchesOf(f, h) # {} <=> h \in LoopsOf(f)
          /\ \A h \in LoopsOf(f) :
                /\ h \in Found(f) /\ h \in Blocks /\ In(h) = Natural(f, h) /\ latches[h] = LatchesOf(f, h)
                /\ In(h) \subseteq Doms(f)[h] /\ IsInjective(loop_blocks[h])
      BY LoopsFound
    <3>2. IsFlowGraph(succ_bbs, Entry(f)) /\ DOMAIN Doms(f) = Found(f) /\ Found(f) \subseteq Blocks
      <4>1. IsFlowGraph(succ_bbs, Entry(f)) /\ Found(f) \subseteq BlocksOf(f) /\ BlocksOf(f) \subseteq Blocks
        BY <3>1, FoundFacts, ListFacts
      <4> QED
        BY <4>1, DomValue DEF Doms, Found
    <3>3. \A h : LatchesOf(f, h) = {p \in Doms(f)[h] : h \in ToSet(succ_bbs[p])}
      BY DEF LatchesOf, Latches, Doms
    <3>4. LoopsOf(f) = {h \in DOMAIN Doms(f) : \E p \in Doms(f)[h] : h \in ToSet(succ_bbs[p])}
      <4>1. \A h \in Found(f) : h \in LoopsOf(f) <=> \E p \in Doms(f)[h] : h \in ToSet(succ_bbs[p])
        BY <3>1, <3>3
      <4> QED
        BY <3>1, <3>2, <4>1
    <3>5. ASSUME NEW h \in LoopsOf(f) PROVE latches[h] = In(h) \cap ToSet(pre_bbs[h])
      <4>1. \A a, b \in Blocks : a \in ToSet(pre_bbs[b]) <=> b \in ToSet(succ_bbs[a])
        BY <3>1, GraphFacts
      <4>2. In(h) \subseteq Blocks /\ h \in Blocks /\ h \in Found(f)
        BY <3>1, <3>2, NaturalIn
      <4>3. LatchesOf(f, h) \subseteq Natural(f, h)
        BY <3>2, <4>2, NaturalValue DEF LatchesOf, Natural, Found
      <4> QED
        BY <3>1, <3>3, <4>1, <4>2, <4>3
    <3> QED
      BY <3>1, <3>4, <3>5 DEF In
  <2>2. \A f : L!Own(f) = BlocksOf(f) /\ L!Headers(f) =
                  {h \in DOMAIN Doms(f) : \E p \in Doms(f)[h] : h \in ToSet(succ_bbs[p])}
    BY LoopIs DEF L!Own, L!Headers, BlocksOf, Doms, Entry
  <2>3. \A f, h : L!NaturalLoop(succ_bbs, basic_blocks[f][1], h) = Natural(f, h)
    BY LoopIs DEF Natural, Entry
  <2> QED
    BY <2>1, <2>2, <2>3, LoopIs DEF LoopsNatural, L!LoopsNatural
<1> QED
  BY BuiltAlways, PlacedAlways, LoopedAlways, <1>1, PTL

(* The first place of a loop in the list. *)
FirstAt(h) == LET I == {i \in 1 .. Len(loops) : loops[i] = h}
              IN  IF I # {} THEN L!Min(I) ELSE 0

LEMMA FirstIs ==
    ASSUME loops \in Seq(Blocks), NEW h \in ToSet(loops)
    PROVE  FirstAt(h) \in 1 .. Len(loops) /\ loops[FirstAt(h)] = h
<1>1. PICK I : I = {i \in 1 .. Len(loops) : loops[i] = h}
  OBVIOUS
<1>2. DOMAIN loops = 1 .. Len(loops)
  BY Elements
<1>3. I # {} /\ I \subseteq Nat
  BY <1>1, <1>2 DEF ToSet
<1>4. FirstAt(h) = L!Min(I)
  BY <1>1, <1>3 DEF FirstAt
<1>5. \E i \in I : \A j \in I : i <= j
  BY <1>3, LeastNumber
<1>6. L!Min(I) \in I
  BY <1>5 DEF L!Min
<1> QED
  BY <1>1, <1>4, <1>6

Inside(h, found) == {g \in found \ {h} : g \in In(h)}
Direct(h, found) == {g \in Inside(h, found) : \A m \in Inside(h, found) : g \notin Inside(m, found)}

NestedIn(found) ==
    \A h \in found :
        /\ ToSet(sub_loops[h]) = Direct(h, found)
        /\ IsInjective(sub_loops[h])
        /\ \A g \in found : parent[g] = h <=> g \in Direct(h, found)
        /\ \A g \in Inside(h, found) : FirstAt(g) < FirstAt(h)

LEMMA NestedIs ==
    ASSUME \A f \in 1 .. detected : NestedIn({l \in ToSet(loops) : l \in BlocksOf(f)})
    PROVE  LoopsNested
BY DEF LoopsNested, L!LoopsNested, NestedIn, Direct, Inside, FirstAt, In, BlocksOf, ToSet, IsInjective,
       L!Own, L!ToSet, L!IsInjective, L!SelectInSeq

(* The links between the loops are the nesting of their headers, with       *)
(* nothing left out between a loop and its parent, and a loop is recorded   *)
(* after all loops inside it.                                               *)
THEOREM LoopsAreNested == SpecAnalysis => []LoopsNested
<1>1. Built /\ Placed /\ Looped => LoopsNested
  <2> SUFFICES ASSUME Built, Placed, Looped, NEW f \in 1 .. detected
               PROVE  NestedIn(LoopsOf(f))
    BY NestedIs, LoopsFound
  <2>1. /\ f \in Funcs /\ Ready
        /\ \A h \in LoopsOf(f) :
              /\ h \in Found(f) /\ h \in Blocks /\ In(h) = Natural(f, h) /\ In(h) \subseteq Doms(f)[h]
    BY LoopsFound
  <2>2. /\ loops \in Seq(Blocks) /\ Nesting /\ InsideOut(f) /\ sub_loops \in [Blocks -> Seq(Blocks)]
    BY <2>1 DEF Looped, Books, L!TypeOK
  <2>3. IsFlowGraph(succ_bbs, Entry(f)) /\ 0 \notin Blocks
    BY <2>1, FoundFacts DEF Blocks
  <2> DEFINE inside(h) == Inside(h, LoopsOf(f))
             direct(h) == Direct(h, LoopsOf(f))
  <2> USE DEF Inside, Direct
  <2>4. ASSUME NEW h \in LoopsOf(f), NEW m \in inside(h), h \in In(m) PROVE FALSE
    <3>1. m \in Doms(f)[h] /\ h \in Doms(f)[m] /\ m # h /\ h \in Found(f)
      BY <2>1, <2>4
    <3> QED
      BY <2>3, <3>1, DomAntisymmetric DEF Doms, Found
  <2>5. ASSUME NEW g \in Blocks, NEW h \in LoopsOf(f), parent[g] = h PROVE g \in direct(h)
    <3>1. g # h /\ g \in In(h) /\ g \in ToSet(loops)
      BY <2>1, <2>2, <2>3, <2>5 DEF Nesting
    <3>2. g \in inside(h)
      <4>1. g \in Found(f)
        BY <2>1, <3>1, NaturalIn
      <4> QED
        BY <3>1, <4>1 DEF LoopsOf
    <3>3. ASSUME NEW m \in inside(h), g \in inside(m) PROVE FALSE
      <4>1. parent[g] = m \/ parent[g] \in In(m)
        <5>1. m \in ToSet(loops) /\ g \in In(m) \ {m}
          BY <3>3 DEF LoopsOf
        <5> QED
          BY <2>2, <3>1, <5>1 DEF Nesting
      <4> QED
        BY <2>4, <2>5, <3>3, <4>1
    <3> QED
      BY <3>2, <3>3
  <2>6. ASSUME NEW h \in LoopsOf(f), NEW g \in direct(h) PROVE parent[g] = h
    <3>1. g \in LoopsOf(f) /\ g \in In(h) \ {h} /\ g \in ToSet(loops) /\ h \in ToSet(loops) /\ g \in Blocks
      BY <2>1, <2>6 DEF LoopsOf
    <3>2. PICK p : p = parent[g]
      OBVIOUS
    <3>3. p # 0 /\ (p = h \/ p \in In(h))
      BY <2>2, <3>1, <3>2 DEF Nesting
    <3> SUFFICES ASSUME p # h PROVE FALSE
      BY <3>2
    <3>4. p \in ToSet(loops) /\ p # g /\ g \in In(p)
      BY <2>2, <3>1, <3>2, <3>3 DEF Nesting
    <3>5. p \in LoopsOf(f)
      <4>1. p \in Found(f)
        BY <2>1, <3>3, NaturalIn
      <4> QED
        BY <3>4, <4>1 DEF LoopsOf
    <3>6. p \in inside(h) /\ g \in inside(p)
      BY <3>1, <3>3, <3>4, <3>5
    <3> QED
      BY <2>6, <3>6
  <2>7. ASSUME NEW h \in LoopsOf(f) PROVE ToSet(sub_loops[h]) = direct(h)
    <3>1. ToSet(sub_loops[h]) \subseteq Blocks /\ h \in Blocks
      <4>1. sub_loops[h] \in Seq(Blocks) /\ h \in Blocks
        BY <2>1, <2>2
      <4> QED
        BY <4>1, Elements
    <3>2. \A g \in Blocks : g \in ToSet(sub_loops[h]) <=> parent[g] = h
      BY <2>2, <3>1 DEF Nesting
    <3>3. \A g \in direct(h) : g \in Blocks
      BY <2>1
    <3> QED
      BY <2>5, <2>6, <3>1, <3>2, <3>3
  <2>8. ASSUME NEW h \in LoopsOf(f), NEW g \in inside(h)
        PROVE  FirstAt(g) < FirstAt(h)
    <3>1. PICK i, j : i = FirstAt(g) /\ j = FirstAt(h)
      OBVIOUS
    <3>2. g \in ToSet(loops) /\ h \in ToSet(loops) /\ g \in Found(f) /\ h \in Found(f)
      BY <2>8 DEF LoopsOf
    <3>3. i \in 1 .. Len(loops) /\ loops[i] = g /\ j \in 1 .. Len(loops) /\ loops[j] = h
      BY <2>2, <3>1, <3>2, FirstIs
    <3>4. g \in Doms(f)[h] /\ g # h
      BY <2>1, <2>8
    <3>5. ~(j < i)
      <4>1. DOMAIN loops = 1 .. Len(loops)
        BY <2>2, Elements
      <4> QED
        BY <2>2, <3>2, <3>3, <3>4, <4>1 DEF InsideOut
    <3>6. i < j
      BY <2>2, <3>3, <3>4, <3>5, Elements
    <3> QED
      BY <3>1, <3>6
  <2>9. \A h \in LoopsOf(f) : IsInjective(sub_loops[h])
    BY <2>1, <2>2 DEF Nesting
  <2>10. \A h \in LoopsOf(f) : \A g \in LoopsOf(f) : parent[g] = h <=> g \in direct(h)
    BY <2>1, <2>5, <2>6
  <2> QED
    BY <2>7, <2>8, <2>9, <2>10 DEF NestedIn
<1> QED
  BY BuiltAlways, PlacedAlways, LoopedAlways, <1>1, PTL

-----------------------------------------------------------------------------
(* How statements nest in the graph that is built.  Each block gets a rank  *)
(* when it is created, above the insertion point and below all that was     *)
(* above it: edges go up in rank, but for the branches back of the loops    *)
(* that are done.                                                           *)

(* A block that ends in a branch with a condition. *)
TwoWays(b)   == \E x, y : x # y /\ ToSet(succ_bbs[b]) = {x, y}

(* The blocks where the functions begin. *)
Beginnings ==
    {x \in Created : \E f \in Funcs : basic_blocks[f] # <<>> /\ x = basic_blocks[f][1]}

(* No function begins in S, and no edge leads into S but to h. *)
Sealed(S, h) == /\ S \cap Beginnings = {}
                /\ \A p \in Blocks \ S : ToSet(succ_bbs[p]) \cap S \subseteq {h}

(* The blocks of a statement that edges may still lead to.                  *)
Wants(v)    == Pends(v) \ {0}
Owned(v)    == Wants(v) \cup (IF v.kind = "while" THEN {v.back} ELSE {})
OwnedBy(vs) == UNION {Owned(vs[i]) : i \in DOMAIN vs}

(* A branch back to the header of a loop, which no edge will enter any more *)
(* but at the header.                                                       *)
Latch(a, h) ==
    /\ TwoWays(h)
    /\ \E S \in SUBSET Created : /\ a \in S /\ h \in S /\ Sealed(S, h)
                                 /\ S \cap OwnedBy(visiting) = {}

(* All other branches go up in the rank r.                                  *)
Edges(r) == \A a \in Blocks : \A b \in ToSet(succ_bbs[a]) : r[a] < r[b] \/ Latch(a, b)

(* The blocks of a loop that is being visited: those made since, but for    *)
(* the one behind it.                                                       *)
Region(v) == {b \in Created : b >= v.back /\ b # v.next}

OpenLoop(v) == v.kind = "while" =>
    /\ insert_block >= v.back /\ v.next # v.back
    /\ v.phase = "body" \/ insert_block # v.back => TwoWays(v.back)
    /\ Sealed(Region(v), v.back)

(* What a statement will fill is above the insertion point.                 *)
Ahead(r, v) == /\ \A p \in Wants(v) : r[insert_block] < r[p]
               /\ v.kind = "if" /\ v.phase = "then" /\ v.back # 0 => r[v.back] < r[v.next]

(* The statement w is inside of v.                                          *)
Within(r, v, w) == /\ \A x \in Owned(v), y \in Owned(w) : x < y
                   /\ \A p \in Wants(v), q \in Wants(w) : r[q] < r[p]

Stacked(r) == /\ \A i \in DOMAIN visiting : Ahead(r, visiting[i]) /\ OpenLoop(visiting[i])
              /\ \A i, j \in DOMAIN visiting : i < j => Within(r, visiting[i], visiting[j])

Struct(r) == r \in [Blocks -> Nat] /\ Edges(r) /\ Stacked(r)

LEMMA BlocksNat == Blocks \subseteq Nat
BY BuilderAssumption DEF Blocks, BuilderAssumption

LEMMA GraphIn ==
    ASSUME BuilderInv
    PROVE  /\ \A x \in Blocks : ToSet(succ_bbs[x]) \subseteq Created
           /\ \A x \in Blocks : x \notin Created => ToSet(succ_bbs[x]) = {}
           /\ \A x \in Blocks : ToSet(succ_bbs[x]) # {} => is_terminated(x)
           /\ Created \subseteq Blocks /\ 0 \notin Blocks
<1>1. /\ NumInv /\ \A b \in Blocks : terminator[b] = "br" <=> succ_bbs[b] # <<>>
      /\ \A f \in Funcs : \A b \in BlocksOf(f) : ToSet(succ_bbs[b]) \subseteq Inner(f)
      /\ \A b \in Blocks : b \notin Created => ~is_terminated(b)
  BY DEF BuilderInv, Core, GraphOK, Graph
<1>2. \A x \in Blocks : ToSet(succ_bbs[x]) # {} => is_terminated(x)
  BY <1>1 DEF is_terminated, ToSet
<1>3. \A x \in Blocks : x \notin Created => ToSet(succ_bbs[x]) = {}
  BY <1>1, <1>2
<1>4. \A x \in Created : ToSet(succ_bbs[x]) \subseteq Created
  <2> SUFFICES ASSUME NEW x \in Created PROVE ToSet(succ_bbs[x]) \subseteq Created
    OBVIOUS
  <2>1. PICK f \in Funcs : x \in BlocksOf(f)
    BY DEF Created, BlocksOf
  <2>2. Inner(f) \subseteq BlocksOf(f) /\ BlocksOf(f) \subseteq Created
    BY <1>1, <2>1, CreatedBlocks
  <2> QED
    BY <1>1, <2>1, <2>2
<1>5. Created \subseteq Blocks
  BY <1>1, CreatedBlocks
<1> QED
  BY <1>2, <1>3, <1>4, <1>5 DEF Blocks

(* A step: new blocks, and edges from the insertion point to B.             *)
EdgeStep(new, B) ==
    /\ \A x \in Blocks : ToSet(succ_bbs'[x]) =
           IF x = insert_block THEN ToSet(succ_bbs[x]) \cup B ELSE ToSet(succ_bbs[x])
    /\ Created' = Created \cup new /\ Created \cap new = {} /\ new \subseteq Blocks
    /\ \A x \in Created, y \in new : x < y
    /\ B # {} => insert_block \in Created /\ ~is_terminated(insert_block)
    /\ B \subseteq new \cup OwnedBy(visiting)
    /\ Beginnings' \subseteq Beginnings \cup new
    /\ visiting # <<>> => Beginnings' \subseteq Beginnings

(* The new blocks come between the insertion point and what was above it.   *)
Keeps(r, s) == s \in [Blocks -> Nat] /\ \A x, y \in Created : r[x] < r[y] => s[x] < s[y]
Moved(r, s, new) ==
    /\ Keeps(r, s)
    /\ \A x \in Created, y \in new : r[insert_block] < r[x] => s[y] < s[x]
    /\ \A y \in new : s[insert_block] < s[y]

(* A branch stays what it is. *)
LEMMA TwoWaysKept ==
    ASSUME BuilderInv, NEW new, NEW B, EdgeStep(new, B), NEW h \in Blocks, TwoWays(h)
    PROVE  TwoWays(h)'
<1>1. ToSet(succ_bbs[h]) # {}
  BY DEF TwoWays
<1>2. is_terminated(h)
  BY <1>1, GraphIn
<1>3. h = insert_block => B = {}
  BY <1>2 DEF EdgeStep
<1>4. ToSet(succ_bbs'[h]) = ToSet(succ_bbs[h])
  <2>1. ToSet(succ_bbs'[h]) = IF h = insert_block THEN ToSet(succ_bbs[h]) \cup B ELSE ToSet(succ_bbs[h])
    BY DEF EdgeStep
  <2> QED
    BY <1>3, <2>1
<1> QED
  BY <1>4 DEF TwoWays

(* A loop that is done stays sealed. *)
LEMMA LatchKept ==
    ASSUME BuilderInv, NEW new, NEW B, EdgeStep(new, B),
           OwnedBy(visiting') \subseteq OwnedBy(visiting) \cup new,
           NEW a \in Blocks, NEW h \in Blocks, Latch(a, h)
    PROVE  Latch(a, h)'
<1>1. PICK S \in SUBSET Created : a \in S /\ h \in S /\ S \cap OwnedBy(visiting) = {} /\ Sealed(S, h)
  BY DEF Latch
<1>2. TwoWays(h)'
  BY TwoWaysKept DEF Latch
<1>3. S \subseteq Created' /\ S \cap B = {} /\ S \cap OwnedBy(visiting') = {}
  BY <1>1 DEF EdgeStep
<1>4. \A p \in Blocks \ S : ToSet(succ_bbs'[p]) \cap S \subseteq {h}
  BY <1>1, <1>3 DEF EdgeStep, Sealed
<1>5. S \cap Beginnings' = {}
  BY <1>1 DEF EdgeStep, Sealed
<1>7. Sealed(S, h)'
  BY <1>4, <1>5 DEF Sealed
<1>6. OwnedBy(visiting)' = OwnedBy(visiting')
  BY DEF OwnedBy, Owned, Wants, Pends
<1> QED
  BY <1>1, <1>2, <1>3, <1>6, <1>7 DEF Latch

LEMMA EdgesStep ==
    ASSUME BuilderInv, NEW r, NEW s, NEW new, NEW B, EdgeStep(new, B), Edges(r), Keeps(r, s),
           OwnedBy(visiting') \subseteq OwnedBy(visiting) \cup new,
           NEW c, c = insert_block, \A b \in B : s[c] < s[b] \/ Latch(c, b)'
    PROVE  Edges(s)'
<1>1. ASSUME NEW a \in Blocks, NEW b \in ToSet(succ_bbs'[a]) PROVE s[a] < s[b] \/ Latch(a, b)'
  <2>1. CASE b \in ToSet(succ_bbs[a])
    <3>1. a \in Created /\ b \in Created /\ Created \subseteq Blocks
      BY <2>1, GraphIn
    <3>2. r[a] < r[b] \/ Latch(a, b)
      BY <2>1 DEF Edges
    <3> QED
      BY <3>1, <3>2, LatchKept DEF Keeps
  <2>2. CASE b \notin ToSet(succ_bbs[a])
    <3>1. a = c /\ b \in B
      BY <2>2 DEF EdgeStep
    <3> QED
      BY <3>1
  <2> QED
    BY <2>1, <2>2
<1> QED
  BY <1>1 DEF Edges

(* A loop that is being visited stays sealed: the insertion point is inside. *)
LEMMA RegionKept ==
    ASSUME BuilderInv, NEW new, NEW B, EdgeStep(new, B), NEW v, NEW w, w.back = v.back,
           w.next = v.next \/ (v.next = 0 /\ w.next \in new),
           insert_block \in Created, insert_block >= v.back, insert_block # v.next,
           visiting # <<>>, Sealed(Region(v), v.back)
    PROVE  Sealed(Region(w), w.back)'
<1>0. Region(w)' \cap Beginnings' = {}
  <2> SUFFICES ASSUME NEW y \in Region(w)', y \in Beginnings' PROVE FALSE
    OBVIOUS
  <2>1. y \in Beginnings /\ y \in Created
    BY DEF EdgeStep, Beginnings
  <2>2. y # 0 /\ y >= v.back /\ y # w.next
    BY <2>1, GraphIn DEF Region
  <2>3. y # v.next
    BY <2>1, <2>2 DEF EdgeStep
  <2> QED
    BY <2>1, <2>2, <2>3 DEF Region, Sealed
<1> SUFFICES ASSUME NEW p \in Blocks, p \notin Region(w)', NEW y \in ToSet(succ_bbs'[p]), y \in Region(w)'
             PROVE  y = w.back
  BY <1>0 DEF Sealed
<1>1. Region(w)' = {b \in Created \cup new : b >= v.back /\ b # w.next}
  BY DEF EdgeStep, Region
<1>2. insert_block \in Region(w)'
  BY <1>1 DEF EdgeStep
<1>3. y \in ToSet(succ_bbs[p])
  BY <1>2 DEF EdgeStep
<1>4. p \in Created /\ y \in Created
  BY <1>3, GraphIn
<1>5. p \notin Region(v)
  BY <1>1, <1>4 DEF Region, EdgeStep
<1>6. y \in Region(v)
  <2>1. y # 0
    BY <1>4, GraphIn
  <2> QED
    BY <1>1, <1>4, <2>1 DEF Region
<1> QED
  BY <1>3, <1>5, <1>6 DEF Sealed

(* The blocks of a statement have been made. *)
LEMMA OwnedCreated ==
    ASSUME BuilderInv, NEW i \in DOMAIN visiting, NEW v, v = visiting[i]
    PROVE  /\ Owned(v) \subseteq Created /\ Wants(v) \subseteq Owned(v)
           /\ FrameOK(v, i = 1, i = Len(visiting), Inner(current_func))
           /\ insert_block \in Created /\ i \in 1 .. Len(visiting) /\ visiting # <<>>
<1>1. visiting # <<>>
  <2>1. DOMAIN <<>> = {}
    OBVIOUS
  <2> QED
    BY <2>1
<1>2. PICK f \in Funcs :
         /\ f = current_func /\ insert_block \in BlocksOf(f)
         /\ Inner(f) \subseteq BlocksOf(f) /\ BlocksOf(f) \subseteq Created
         /\ FramesOK(visiting, Inner(f))
  BY <1>1, InBody
<1>3. FrameOK(v, i = 1, i = Len(visiting), Inner(f)) /\ i \in 1 .. Len(visiting)
  <2>1. visiting \in Seq(Frames)
    BY <1>2 DEF FramesOK
  <2>2. DOMAIN visiting = 1 .. Len(visiting)
    BY <2>1, LenProperties
  <2> QED
    BY <1>2, <2>2 DEF FramesOK
<1>4. Owned(v) \subseteq Inner(f)
  BY <1>3 DEF Owned, Wants, Pends, FrameOK, NoBlock, Frames
<1> QED
  BY <1>1, <1>2, <1>3, <1>4 DEF Owned

LEMMA InnerCreated ==
    ASSUME BuilderInv, visiting # <<>>
    PROVE  Inner(current_func) \subseteq Created
BY InBody

LEMMA PairKept ==
    ASSUME NEW r, NEW s, NEW new, Moved(r, s, new), NEW v, NEW w,
           Wants(v) \subseteq Created, Wants(w) \subseteq Created, Within(r, v, w)
    PROVE  Within(s, v, w)
BY DEF Within, Moved, Keeps

(* A statement that goes on. *)
LEMMA FrameKept ==
    ASSUME BuilderInv, NEW r, NEW s, NEW new, NEW B, r \in [Blocks -> Nat], Stacked(r),
           EdgeStep(new, B), Moved(r, s, new),
           NEW i \in DOMAIN visiting, NEW v, v = visiting[i],
           NEW c, c = insert_block',
           c \in new \cup {insert_block} \/ (i < Len(visiting) /\ c \in Wants(Top)),
           v.kind = "while" /\ v.phase = "cond" /\ c # v.back => TwoWays(v.back)'
    PROVE  Ahead(s, v)' /\ OpenLoop(v)'
<1>1. /\ Owned(v) \subseteq Created /\ Wants(v) \subseteq Owned(v)
      /\ FrameOK(v, i = 1, i = Len(visiting), Inner(current_func))
      /\ insert_block \in Created /\ i \in 1 .. Len(visiting) /\ visiting # <<>>
  BY OwnedCreated
<1>2. Ahead(r, v) /\ OpenLoop(v) /\ Created \subseteq Blocks /\ 0 \notin Blocks
  BY GraphIn DEF Stacked
<1>3. (\A p \in Wants(v) : s[c] < s[p]) /\ (v.kind = "while" => c >= v.back)
  <2>1. CASE c = insert_block
    BY <1>1, <1>2, <2>1 DEF Ahead, OpenLoop, Moved, Keeps
  <2>2. CASE c \in new
    <3>1. \A p \in Wants(v) : s[c] < s[p]
      BY <1>1, <1>2, <2>2 DEF Ahead, Moved, Keeps
    <3>2. ASSUME v.kind = "while" PROVE c >= v.back
      <4>1. v.back \in Created
        BY <1>1, <3>2 DEF Owned
      <4>2. v.back < c
        BY <2>2, <4>1 DEF EdgeStep
      <4>3. v.back \in Nat /\ c \in Nat
        BY <1>2, <2>2, <4>1, BlocksNat DEF EdgeStep
      <4> QED
        BY <4>2, <4>3
    <3> QED
      BY <3>1, <3>2
  <2>3. CASE i < Len(visiting) /\ c \in Wants(Top)
    <3>1. PICK n \in DOMAIN visiting : n = Len(visiting) /\ i < n /\ Top = visiting[n]
      <4>1. visiting \in Seq(Frames)
        BY DEF BuilderInv, VisitInv, FramesOK
      <4>2. DOMAIN visiting = 1 .. Len(visiting) /\ Len(visiting) \in Nat
        BY <4>1, LenProperties
      <4>3. Len(visiting) \in 1 .. Len(visiting)
        BY <1>1, <2>3, <4>2
      <4> QED
        BY <2>3, <4>2, <4>3 DEF Top
    <3>2. Within(r, v, Top) /\ Owned(Top) \subseteq Created /\ Wants(Top) \subseteq Owned(Top)
      BY <3>1, OwnedCreated DEF Stacked
    <3>3. \A p \in Wants(v) : s[c] < s[p]
      BY <1>1, <2>3, <3>2 DEF Within, Moved, Keeps
    <3>4. ASSUME v.kind = "while" PROVE c >= v.back
      <4>1. v.back \in Created /\ c \in Created /\ v.back < c
        BY <1>1, <2>3, <3>2, <3>4 DEF Owned, Within
      <4>2. v.back \in Nat /\ c \in Nat
        BY <1>2, <4>1, BlocksNat
      <4> QED
        BY <4>1, <4>2
    <3> QED
      BY <3>3, <3>4
  <2> QED
    BY <2>1, <2>2, <2>3
<1>4. Ahead(s, v)'
  <2>1. v.kind = "if" /\ v.phase = "then" /\ v.back # 0 => s[v.back] < s[v.next]
    <3> SUFFICES ASSUME v.kind = "if", v.phase = "then", v.back # 0 PROVE s[v.back] < s[v.next]
      OBVIOUS
    <3>1. v.next # 0
      <4>1. v.next \in Inner(current_func)
        BY <1>1 DEF FrameOK
      <4>2. Inner(current_func) \subseteq Created
        BY <1>1, InnerCreated
      <4> QED
        BY <1>2, <4>1, <4>2
    <3>2. v.back \in Wants(v) /\ v.next \in Wants(v)
      BY <3>1 DEF Wants, Pends
    <3> QED
      BY <1>1, <1>2, <3>2 DEF Ahead, Moved, Keeps
  <2> QED
    BY <1>3, <2>1 DEF Ahead
<1>5. ASSUME v.kind = "while" PROVE OpenLoop(v)'
  <2>1. v.back \in Created /\ insert_block >= v.back /\ Sealed(Region(v), v.back)
    BY <1>1, <1>2, <1>5 DEF Owned, OpenLoop
  <2>2. insert_block # v.next
    <3>1. CASE v.next = 0
      BY <1>1, <1>2, <3>1
    <3>2. CASE v.next # 0
      <4>1. v.next \in Wants(v)
        BY <3>2 DEF Wants, Pends
      <4>2. r[insert_block] < r[v.next] /\ r[insert_block] \in Nat
        BY <1>1, <1>2, <4>1 DEF Ahead
      <4> QED
        BY <4>2
    <3> QED
      BY <3>1, <3>2
  <2>3. Sealed(Region(v), v.back)'
    BY <1>1, <2>1, <2>2, RegionKept
  <2>4. v.phase = "body" \/ c # v.back => TwoWays(v.back)'
    <3>1. CASE TwoWays(v.back)
      BY <1>2, <2>1, <3>1, TwoWaysKept
    <3>2. CASE ~TwoWays(v.back)
      <4>1. v.phase # "body" /\ v.phase \in {"cond", "body"}
        BY <1>1, <1>2, <1>5, <3>2 DEF OpenLoop, FrameOK
      <4> QED
        BY <1>5, <4>1
    <3> QED
      BY <3>1, <3>2
  <2> QED
    BY <1>2, <1>3, <1>5, <2>3, <2>4 DEF OpenLoop
<1>6. v.kind # "while" => OpenLoop(v)'
  BY DEF OpenLoop
<1> QED
  BY <1>4, <1>5, <1>6

(* A step of the visitor: the statements below the one on top go on; that   *)
(* one goes on, ends, or becomes another one, or another one is entered.    *)
(* Of the l statements that are visited m go on, and then there are k: w is *)
(* the one on top if it is not among these.  The new ranks are s; the       *)
(* insertion point is a, and then c; h is the header of a loop on top.      *)
StepIs(r, s, new, B, l, m, k, vs, a, c, h, w) ==
    /\ Struct(r) /\ EdgeStep(new, B) /\ Moved(r, s, new)
    /\ l \in Nat /\ m \in Nat /\ k \in Nat
    /\ l = Len(visiting) /\ (m = l \/ m + 1 = l) /\ (k = m \/ k = m + 1)
    /\ vs = visiting' /\ k = Len(vs) /\ \A i \in 1 .. m : vs[i] = visiting[i]
    /\ a = insert_block /\ \A b \in B : s[a] < s[b] \/ Latch(a, b)'
    /\ c = insert_block' /\ (c \in new \cup {a} \/ (m # l /\ c \in Wants(Top)))
    /\ l # 0 => h = Top.back
    /\ l # 0 /\ m = l /\ Top.phase = "cond" /\ c # h => TwoWays(h)'
    /\ k = m + 1 => w = vs[k] /\ Ahead(s, w)' /\ OpenLoop(w)'
    /\ k = m + 1 => /\ Owned(w) \subseteq new \cup (IF m # l THEN Owned(Top) ELSE {})
                    /\ Wants(w) \subseteq new \cup (IF m # l THEN Wants(Top) ELSE {})

LEMMA StructStep ==
    ASSUME BuilderInv, BuilderInv', NEW r, NEW s, NEW new, NEW B, NEW l, NEW m, NEW k, NEW vs,
           NEW a, NEW c, NEW h, NEW w, StepIs(r, s, new, B, l, m, k, vs, a, c, h, w)
    PROVE  Struct(s)'
<1> SUFFICES ASSUME Struct(r), EdgeStep(new, B), Moved(r, s, new),
                    l \in Nat, l = Len(visiting), m \in Nat, m = l \/ m + 1 = l,
                    vs = visiting', k \in Nat, k = Len(vs), k = m \/ k = m + 1,
                    \A i \in 1 .. m : vs[i] = visiting[i],
                    a = insert_block, \A b \in B : s[a] < s[b] \/ Latch(a, b)',
                    c = insert_block', c \in new \cup {a} \/ (m # l /\ c \in Wants(Top)),
                    l # 0 => h = Top.back,
                    l # 0 /\ m = l /\ Top.phase = "cond" /\ c # h => TwoWays(h)',
                    k = m + 1 => w = vs[k] /\ Ahead(s, w)' /\ OpenLoop(w)',
                    k = m + 1 => /\ Owned(w) \subseteq new \cup (IF m # l THEN Owned(Top) ELSE {})
                                 /\ Wants(w) \subseteq new \cup (IF m # l THEN Wants(Top) ELSE {})
             PROVE  Struct(s)'
  BY DEF StepIs
<1>1. /\ visiting \in Seq(Frames) /\ vs \in Seq(Frames)
      /\ DOMAIN visiting = 1 .. l /\ DOMAIN vs = 1 .. k
  <2>1. visiting \in Seq(Frames) /\ visiting' \in Seq(Frames)
    BY DEF BuilderInv, VisitInv, FramesOK
  <2> QED
    BY <2>1, LenProperties
<1>2. /\ 1 .. m \subseteq 1 .. l /\ 1 .. m \subseteq 1 .. k
      /\ \A i \in 1 .. k : i \in 1 .. m \/ (i = k /\ k = m + 1)
      /\ \A i \in 1 .. l : i \in 1 .. m \/ (i = l /\ l = m + 1)
  OBVIOUS
<1>3. l # 0 => l \in 1 .. l /\ Top = visiting[l]
  BY DEF Top
<1>4. r \in [Blocks -> Nat] /\ Edges(r) /\ Stacked(r) /\ s \in [Blocks -> Nat]
  BY DEF Struct, Moved, Keeps
<1>5. ASSUME NEW i \in 1 .. m PROVE Ahead(s, vs[i])' /\ OpenLoop(vs[i])'
  <2>1. PICK v : v = visiting[i] /\ v = vs[i]
    OBVIOUS
  <2>2. i \in DOMAIN visiting
    BY <1>1, <1>2
  <2>3. c \in new \cup {insert_block} \/ (i < Len(visiting) /\ c \in Wants(Top))
    <3>1. m # l => i < l
      OBVIOUS
    <3> QED
      BY <3>1
  <2>4. v.kind = "while" /\ v.phase = "cond" /\ c # v.back => TwoWays(v.back)'
    <3> SUFFICES ASSUME v.phase = "cond", c # v.back PROVE TwoWays(v.back)'
      OBVIOUS
    <3>1. i = l
      BY <2>1, <2>2, OwnedCreated DEF FrameOK
    <3>2. l # 0 /\ m = l /\ h = v.back
      BY <1>3, <2>1, <3>1
    <3>3. TwoWays(h)'
      BY <1>3, <2>1, <3>1, <3>2
    <3> QED
      BY <3>2, <3>3
  <2>5. Ahead(s, v)' /\ OpenLoop(v)'
    BY <1>4, <2>1, <2>2, <2>3, <2>4, FrameKept
  <2> QED
    BY <2>1, <2>5
<1>6. ASSUME NEW i \in 1 .. m, k = m + 1 PROVE Within(s, vs[i], w)
  <2>1. PICK v : v = visiting[i] /\ v = vs[i]
    OBVIOUS
  <2>2. /\ i \in DOMAIN visiting /\ Owned(v) \subseteq Created /\ Wants(v) \subseteq Owned(v)
        /\ insert_block \in Created
    BY <1>1, <1>2, <2>1, OwnedCreated
  <2>3. Ahead(r, v)
    BY <1>4, <2>1, <2>2 DEF Stacked
  <2>4. m # l => /\ Within(r, v, Top) /\ Owned(Top) \subseteq Created /\ Wants(Top) \subseteq Owned(Top)
    <3> SUFFICES ASSUME m # l
                 PROVE  /\ Within(r, v, Top) /\ Owned(Top) \subseteq Created
                        /\ Wants(Top) \subseteq Owned(Top)
      OBVIOUS
    <3>1. l \in DOMAIN visiting /\ i < l /\ Top = visiting[l]
      BY <1>1, <1>3
    <3> QED
      BY <1>4, <2>1, <2>2, <3>1, OwnedCreated DEF Stacked
  <2>5. ASSUME NEW x \in Owned(v), NEW y \in Owned(w) PROVE x < y
    <3>1. y \in new \/ (m # l /\ y \in Owned(Top))
      BY <1>6
    <3>2. x \in Created
      BY <2>2
    <3> QED
      BY <2>4, <3>1, <3>2 DEF EdgeStep, Within
  <2>6. ASSUME NEW p \in Wants(v), NEW q \in Wants(w) PROVE s[q] < s[p]
    <3>1. q \in new \/ (m # l /\ q \in Wants(Top))
      BY <1>6
    <3>2. p \in Created
      BY <2>2
    <3>3. CASE q \in new
      BY <2>3, <3>2, <3>3 DEF Ahead, Moved, Keeps
    <3>4. CASE m # l /\ q \in Wants(Top)
      BY <2>4, <3>2, <3>4 DEF Within, Moved, Keeps
    <3> QED
      BY <3>1, <3>3, <3>4
  <2> QED
    BY <2>1, <2>5, <2>6 DEF Within
<1>7. ASSUME NEW i \in 1 .. m, NEW j \in 1 .. m, i < j PROVE Within(s, vs[i], vs[j])
  <2>1. PICK v, u : v = visiting[i] /\ u = visiting[j]
    OBVIOUS
  <2>2. i \in DOMAIN visiting /\ j \in DOMAIN visiting
    BY <1>1, <1>2
  <2>3. Within(r, v, u) /\ Wants(v) \subseteq Created /\ Wants(u) \subseteq Created
    BY <1>4, <1>7, <2>1, <2>2, OwnedCreated DEF Stacked
  <2>4. Within(s, v, u)
    BY <2>3, PairKept
  <2> QED
    BY <2>1, <2>4
<1>8. OwnedBy(vs) \subseteq OwnedBy(visiting) \cup new
  <2> SUFFICES ASSUME NEW i \in 1 .. k, NEW x \in Owned(vs[i]) PROVE x \in OwnedBy(visiting) \cup new
    BY <1>1 DEF OwnedBy
  <2>1. CASE i \in 1 .. m
    <3>1. x \in Owned(visiting[i]) /\ i \in DOMAIN visiting
      BY <1>1, <1>2, <2>1
    <3> QED
      BY <3>1 DEF OwnedBy
  <2>2. CASE i = k /\ k = m + 1
    <3>1. x \in new \/ (m # l /\ x \in Owned(Top))
      BY <2>2
    <3>2. m # l => l \in DOMAIN visiting /\ Top = visiting[l]
      BY <1>1, <1>3
    <3> QED
      BY <3>1, <3>2 DEF OwnedBy
  <2> QED
    BY <1>2, <2>1, <2>2
<1>9. Edges(s)'
  BY <1>4, <1>8, EdgesStep DEF Moved
<1>10. ASSUME NEW i \in 1 .. k PROVE Ahead(s, vs[i])' /\ OpenLoop(vs[i])'
  BY <1>2, <1>5
<1>11. ASSUME NEW i \in 1 .. k, NEW j \in 1 .. k, i < j PROVE Within(s, vs[i], vs[j])
  <2>1. i \in 1 .. m
    <3>1. i # k
      BY <1>11
    <3> QED
      BY <1>2, <3>1
  <2> QED
    BY <1>2, <1>6, <1>7, <1>11, <2>1
<1>12. Stacked(s)'
  BY <1>1, <1>10, <1>11 DEF Stacked
<1> QED
  BY <1>4, <1>9, <1>12 DEF Struct

(* What is known of the statement on top. *)
TopIs(r, l, v, S) ==
    /\ l \in Nat \ {0} /\ l = Len(visiting) /\ l \in DOMAIN visiting
    /\ v = Top /\ v = visiting[l] /\ FrameOK(v, l = 1, TRUE, S) /\ S = Inner(current_func)
    /\ Ahead(r, v) /\ OpenLoop(v)
    /\ Wants(v) \subseteq Owned(v) /\ Owned(v) \subseteq OwnedBy(visiting)
    /\ Owned(v) \subseteq Created /\ S \subseteq Created
    /\ insert_block \in Created /\ Created \subseteq Blocks /\ 0 \notin Blocks
    /\ \A i \in DOMAIN visiting : i # l => \A x \in Owned(visiting[i]), y \in Owned(v) : x < y

LEMMA AtTop ==
    ASSUME BuilderInv, visiting # <<>>, NEW r, Struct(r)
    PROVE  \E l, v, S : TopIs(r, l, v, S)
<1>1. visiting \in Seq(Frames)
  BY DEF BuilderInv, VisitInv, FramesOK
<1>2. PICK l \in Nat \ {0} : l = Len(visiting) /\ DOMAIN visiting = 1 .. l
  BY <1>1, LenProperties, EmptySeq
<1>3. l \in DOMAIN visiting /\ \A i \in DOMAIN visiting : i # l => i < l
  BY <1>2
<1>4. PICK v, S : v = visiting[l] /\ v = Top /\ S = Inner(current_func)
  BY <1>2 DEF Top
<1>5. /\ Owned(v) \subseteq Created /\ Wants(v) \subseteq Owned(v) /\ insert_block \in Created
      /\ FrameOK(v, l = 1, TRUE, S)
  BY <1>2, <1>3, <1>4, OwnedCreated
<1>6. Owned(v) \subseteq OwnedBy(visiting)
  BY <1>3, <1>4 DEF OwnedBy
<1>7. Ahead(r, v) /\ OpenLoop(v)
  BY <1>3, <1>4 DEF Struct, Stacked
<1>8. S \subseteq Created /\ Created \subseteq Blocks /\ 0 \notin Blocks
  BY <1>4, GraphIn, InnerCreated
<1>9. \A i \in DOMAIN visiting : i # l => \A x \in Owned(visiting[i]), y \in Owned(v) : x < y
  BY <1>3, <1>4 DEF Struct, Stacked, Within
<1> QED
  BY <1>2, <1>3, <1>4, <1>5, <1>6, <1>7, <1>8, <1>9 DEF TopIs

(* Where the functions begin. *)
LEMMA FirstBlock ==
    ASSUME NumInv, NEW f \in Funcs, basic_blocks[f] # <<>>
    PROVE  basic_blocks[f][1] \in BlocksOf(f)
<1>1. PICK s \in Seq(Blocks) : s = basic_blocks[f]
  BY DEF NumInv
<1>2. Len(s) \in Nat \ {0} /\ DOMAIN s = 1 .. Len(s)
  BY <1>1, EmptySeq, LenProperties
<1>3. 1 \in DOMAIN s
  BY <1>2
<1> QED
  BY <1>1, <1>3 DEF BlocksOf, ToSet

LEMMA SameBeginnings ==
    ASSUME NumInv, NEW f \in Funcs, basic_blocks[f] # <<>>, NEW new, GrownBy(f, new)
    PROVE  Beginnings' \subseteq Beginnings
<1> SUFFICES ASSUME NEW g \in Funcs, basic_blocks'[g] # <<>> PROVE basic_blocks'[g][1] \in Beginnings
  BY DEF Beginnings
<1>1. basic_blocks[g] # <<>> /\ basic_blocks'[g][1] = basic_blocks[g][1]
  BY DEF GrownBy
<1>2. basic_blocks[g][1] \in Created
  BY <1>1, FirstBlock, CreatedBlocks
<1> QED
  BY <1>1, <1>2 DEF Beginnings

(* A step of the visitor in the graph. *)
LEMMA EdgeStepIs ==
    ASSUME BuilderInv, visiting # <<>>, NEW f \in Funcs, f = current_func,
           NEW new, GrownBy(f, new), new \subseteq Blocks,
           \A y \in new : fresh < y,
           NEW B, NEW E, GraphStep(insert_block, B, E),
           B # {} => ~is_terminated(insert_block), B \subseteq new \cup OwnedBy(visiting)
    PROVE  EdgeStep(new, B)
<1>1. fresh \in Nat /\ Created = 1 .. fresh
  BY DEF BuilderInv, Core, NumInv
<1>2. \A x \in Created, y \in new : x < y
  <2> SUFFICES ASSUME NEW x \in Created, NEW y \in new PROVE x < y
    OBVIOUS
  <2>1. y \in Nat /\ fresh < y /\ x \in Nat /\ x <= fresh
    BY <1>1 DEF Blocks
  <2> QED
    BY <1>1, <2>1
<1>3. insert_block \in Created
  BY InBody
<1>4. \A x \in Blocks : ToSet(succ_bbs'[x]) =
          IF x = insert_block THEN ToSet(succ_bbs[x]) \cup B ELSE ToSet(succ_bbs[x])
  BY DEF GraphStep, Grown, Graph
<1>5. Beginnings' \subseteq Beginnings
  BY InBody, SameBeginnings
<1> QED
  BY <1>2, <1>3, <1>4, <1>5 DEF EdgeStep, GrownBy

(* Nothing new needs no new ranks. *)
LEMMA SameRank == \A r \in [Blocks -> Nat] : Moved(r, r, {})
BY DEF Moved, Keeps

(* The ranks of the new blocks. *)
LEMMA NewRanks ==
    ASSUME BuilderInv, NEW r \in [Blocks -> Nat], NEW new \in SUBSET Blocks, Created \cap new = {},
           insert_block \in Created, NEW m \in Nat, NEW n \in Nat,
           \A x \in new : x \in Nat /\ x - m \in 1 .. n
    PROVE  \E s : Moved(r, s, new) /\ \A x, y \in new : x < y => s[x] < s[y]
<1>1. Created \subseteq Blocks
  BY GraphIn
<1>2. PICK d \in [new -> 1 .. n] : \A x \in new : d[x] = x - m
  <2>1. PICK d : d = [x \in new |-> x - m]
    OBVIOUS
  <2>2. \A x \in new : x - m \in 1 .. n
    OBVIOUS
  <2> QED
    BY <2>1, <2>2
<1>3. \A x, y \in new : x < y => d[x] < d[y]
  <2> SUFFICES ASSUME NEW x \in new, NEW y \in new, x < y PROVE d[x] < d[y]
    OBVIOUS
  <2>1. d[x] = x - m /\ d[y] = y - m
    BY <1>2
  <2> QED
    BY <2>1
<1>4. PICK k \in Nat : k = r[insert_block]
  BY <1>1
<1>5. PICK s : s = [x \in Blocks |-> IF x \in new THEN k + d[x] ELSE IF r[x] > k THEN r[x] + n ELSE r[x]]
  OBVIOUS
<1>6. /\ \A x \in Blocks \ new : s[x] = IF r[x] > k THEN r[x] + n ELSE r[x]
      /\ \A x \in new : s[x] = k + d[x] /\ d[x] \in 1 .. n
  BY <1>5
<1>7. s \in [Blocks -> Nat]
  <2>1. \A x \in Blocks : (IF x \in new THEN k + d[x] ELSE IF r[x] > k THEN r[x] + n ELSE r[x]) \in Nat
    <3> SUFFICES ASSUME NEW x \in Blocks
                 PROVE  (IF x \in new THEN k + d[x] ELSE IF r[x] > k THEN r[x] + n ELSE r[x]) \in Nat
      OBVIOUS
    <3>1. r[x] \in Nat /\ (x \in new => d[x] \in Nat)
      OBVIOUS
    <3> QED
      BY <3>1
  <2> QED
    BY <1>5, <2>1
<1>8. ASSUME NEW x \in Created, NEW y \in Created, r[x] < r[y] PROVE s[x] < s[y]
  <2>1. x \in Blocks \ new /\ y \in Blocks \ new /\ r[x] \in Nat /\ r[y] \in Nat
    BY <1>1
  <2> QED
    BY <1>6, <1>8, <2>1
<1>9. ASSUME NEW x \in Created, NEW y \in new, k < r[x] PROVE s[y] < s[x]
  <2>1. x \in Blocks \ new /\ r[x] \in Nat
    BY <1>1
  <2> QED
    BY <1>6, <1>9, <2>1
<1>10. ASSUME NEW y \in new PROVE s[insert_block] < s[y]
  <2>1. s[insert_block] = k
    BY <1>4, <1>6, <1>1
  <2> QED
    BY <1>6, <2>1
<1>11. ASSUME NEW x \in new, NEW y \in new, d[x] < d[y] PROVE s[x] < s[y]
  BY <1>6, <1>11
<1> QED
  BY <1>4, <1>7, <1>8, <1>9, <1>10, <1>11, <1>3 DEF Moved, Keeps

(* The condition of a loop is a block without a branch until it is complete. *)
LEMMA CondBranches ==
    ASSUME BuilderInv, NEW r, NEW l, NEW v, NEW S, TopIs(r, l, v, S), v.kind = "while",
           NEW new, NEW x, NEW y, x # y, EdgeStep(new, {x, y})
    PROVE  TwoWays(v.back)'
<1>1. v.back \in Blocks
  BY DEF TopIs, Owned
<1>2. CASE insert_block = v.back
  <2>1. ToSet(succ_bbs[v.back]) = {}
    BY <1>1, <1>2, GraphIn DEF EdgeStep
  <2>2. ToSet(succ_bbs'[v.back]) = {x, y}
    BY <1>1, <1>2, <2>1 DEF EdgeStep
  <2> QED
    BY <2>2 DEF TwoWays
<1>3. CASE insert_block # v.back
  <2>1. TwoWays(v.back)
    BY <1>3 DEF TopIs, OpenLoop
  <2> QED
    BY <1>1, <2>1, TwoWaysKept
<1> QED
  BY <1>2, <1>3

(* The steps of the visitor. *)
LEMMA ReturnStruct ==
    ASSUME BuilderInv, BuilderInv', ReturnStmt, NEW r, Struct(r)
    PROVE  \E s : Struct(s)'
<1>1. /\ visiting # <<>> /\ Top.phase # "cond" /\ ~is_terminated(insert_block)
      /\ Emit(create_ret(Graph, insert_block))
      /\ UNCHANGED <<basic_blocks, insert_block, visiting, built>>
  BY DEF ReturnStmt, NextStatement
<1>2. PICK f \in Funcs :
         /\ f = current_func /\ insert_block \in Blocks /\ NumInv /\ GraphOK(Graph)
  BY <1>1, InBody
<1>3. GraphStep(insert_block, {}, {insert_block})
  BY <1>1, <1>2, StepRet
<1>4. EdgeStep({}, {})
  <2>1. GrownBy(f, {})
    BY <1>1, <1>2, NothingCreated
  <2> QED
    BY <1>1, <1>2, <1>3, <2>1, EdgeStepIs
<1>5. PICK l, v, S : TopIs(r, l, v, S)
  BY <1>1, AtTop
<1>6. Moved(r, r, {})
  BY SameRank DEF Struct
<1>7. Struct(r)'
  <2>1. PICK vs, a, h : vs = visiting' /\ vs = visiting /\ a = insert_block /\ h = Top.back
    BY <1>1
  <2>2. l \in Nat /\ l = Len(visiting) /\ l = Len(vs) /\ l # l + 1
    BY <1>5, <2>1 DEF TopIs
  <2>3. StepIs(r, r, {}, {}, l, l, l, vs, a, a, h, 0)
    BY <1>1, <1>4, <1>6, <2>1, <2>2 DEF StepIs
  <2> QED
    BY <2>3, StructStep
<1> QED
  BY <1>7

LEMMA IndexedVarStruct ==
    ASSUME BuilderInv, BuilderInv', IndexedVar, NEW r, Struct(r)
    PROVE  \E s : Struct(s)'
<1>1. PICK k, x, c : k = fresh /\ x = k + 1 /\ c = k + 2
  OBVIOUS
<1>2. /\ visiting # <<>> /\ ~is_terminated(insert_block)
      /\ Create(2)
      /\ Emit(create_ret(create_cond_br(Graph, insert_block, x, c), x))
      /\ insert_block' = c
      /\ UNCHANGED <<visiting, built>>
  BY <1>1 DEF IndexedVar, NextExpression, NextStatement, BuilderInv, VisitInv
<1>3. PICK f \in Funcs :
         /\ f = current_func /\ insert_block \in Blocks /\ NumInv /\ GraphOK(Graph)
  BY <1>2, InBody
<1>4. k \in Nat /\ (k + 1) .. (k + 2) = {x, c} /\ x < c /\ x # c /\ k < x /\ k < c /\ Created = 1 .. k
  BY <1>1, <1>3 DEF NumInv
<1>5. /\ GrownBy(f, {x, c}) /\ x \in Blocks /\ c \in Blocks
      /\ ~is_terminated(x) /\ insert_block # x
  <2>1. (fresh + 1) .. (fresh + 2) = {x, c} /\ 2 \in Nat
    BY <1>1, <1>4
  <2> QED
    BY <1>2, <1>3, <2>1, NewBlocks
<1>6. EdgeStep({x, c}, {x, c})
  <2>1. GraphStep(insert_block, {x, c}, {insert_block, x})
    BY <1>2, <1>3, <1>4, <1>5, StepExcept
  <2>2. \A y \in {x, c} : fresh < y
    BY <1>1, <1>4
  <2> QED
    BY <1>2, <1>3, <1>5, <2>1, <2>2, EdgeStepIs
<1>7. PICK l, v, S : TopIs(r, l, v, S)
  BY <1>2, AtTop
<1>8. PICK s : Moved(r, s, {x, c})
  <2>1. r \in [Blocks -> Nat] /\ Created \cap {x, c} = {} /\ insert_block \in Created /\ 2 \in Nat
        /\ {x, c} \in SUBSET Blocks
    BY <1>5, <1>6, <1>7 DEF Struct, EdgeStep, TopIs
  <2>2. \A z \in {x, c} : z \in Nat /\ z - k \in 1 .. 2
    BY <1>4
  <2> QED
    BY <1>4, <2>1, <2>2, NewRanks
<1>9. Struct(s)'
  <2>1. PICK vs, a, h : vs = visiting' /\ vs = visiting /\ a = insert_block /\ h = v.back
    BY <1>2
  <2>2. l \in Nat /\ l = Len(visiting) /\ l = Len(vs) /\ l # l + 1 /\ h = Top.back
    BY <1>7, <2>1 DEF TopIs
  <2>3. \A b \in {x, c} : s[a] < s[b]
    BY <1>8, <2>1 DEF Moved, Keeps
  <2>4. Top.phase = "cond" => TwoWays(h)'
    <3> SUFFICES ASSUME v.phase = "cond" PROVE TwoWays(v.back)'
      BY <1>7, <2>1 DEF TopIs
    <3>1. v.kind = "while"
      BY <1>7 DEF TopIs, FrameOK, Frames
    <3> QED
      BY <1>4, <1>6, <1>7, <3>1, CondBranches
  <2>5. StepIs(r, s, {x, c}, {x, c}, l, l, l, vs, a, c, h, 0)
    BY <1>2, <1>6, <1>8, <2>1, <2>2, <2>3, <2>4 DEF StepIs
  <2> QED
    BY <2>5, StructStep
<1> QED
  BY <1>9

LEMMA SelectionStruct ==
    ASSUME BuilderInv, BuilderInv', NEW has_else \in BOOLEAN, SelectionStmt(has_else), NEW r, Struct(r)
    PROVE  \E s : Struct(s)'
<1>1. PICK k : k = fresh
  OBVIOUS
<1>2. PICK n, x, y, c :
         /\ n = IF has_else THEN 3 ELSE 2
         /\ x = k + 1
         /\ y = IF has_else THEN k + 2 ELSE NoBlock
         /\ c = IF has_else THEN k + 3 ELSE k + 2
  OBVIOUS
<1>3. PICK w, e : /\ w = [kind |-> "if", phase |-> "then", back |-> y, next |-> c]
                  /\ e = IF has_else THEN y ELSE c
  OBVIOUS
<1>4. /\ visiting # <<>> /\ Top.phase # "cond" /\ ~is_terminated(insert_block)
      /\ Create(n)
      /\ Emit(create_cond_br(Graph, insert_block, x, e))
      /\ insert_block' = x
      /\ visiting' = Append(visiting, w)
  BY <1>1, <1>2, <1>3 DEF SelectionStmt, NextStatement, Enter
<1>5. PICK f \in Funcs :
         /\ f = current_func /\ insert_block \in Blocks /\ NumInv /\ GraphOK(Graph)
         /\ visiting \in Seq(Frames)
  BY <1>4, InBody DEF FramesOK
<1>6. k \in Nat /\ n \in Nat /\ Created = 1 .. k
  BY <1>1, <1>2, <1>5 DEF NumInv
<1>7. PICK new : new = (k + 1) .. (k + n)
  OBVIOUS
<1>8. /\ x \in new /\ c \in new /\ x < c /\ e \in new /\ x # e
      /\ y # 0 => y \in new /\ x < y /\ y < c
      /\ \A z \in new : k < z
  BY <1>2, <1>3, <1>6, <1>7 DEF NoBlock
<1>9. GrownBy(f, new) /\ new \subseteq Blocks
  BY <1>1, <1>4, <1>5, <1>6, <1>7, NewBlocks
<1>10. EdgeStep(new, {x, e})
  <2>1. GraphStep(insert_block, {x, e}, {insert_block})
    BY <1>4, <1>5, <1>8, <1>9, StepCondBr
  <2> QED
    BY <1>1, <1>4, <1>5, <1>8, <1>9, <2>1, EdgeStepIs
<1>11. PICK l, v, S : TopIs(r, l, v, S)
  BY <1>4, AtTop
<1>12. PICK s : Moved(r, s, new) /\ \A p, q \in new : p < q => s[p] < s[q]
  <2>1. r \in [Blocks -> Nat] /\ Created \cap new = {} /\ insert_block \in Created
        /\ new \in SUBSET Blocks
    BY <1>9, <1>10, <1>11 DEF Struct, EdgeStep, TopIs
  <2>2. \A z \in new : z \in Nat /\ z - k \in 1 .. n
    BY <1>6, <1>7
  <2> QED
    BY <1>6, <2>1, <2>2, NewRanks
<1>13. Wants(w) \subseteq new /\ Owned(w) = Wants(w) /\ \A p \in Wants(w) : p = c \/ (p = y /\ y # 0)
  BY <1>3, <1>8 DEF Wants, Owned, Pends
<1>14. Ahead(s, w)'
  <2>1. \A p \in Wants(w) : s[x] < s[p]
    BY <1>8, <1>12, <1>13
  <2>2. w.back # 0 => s[w.back] < s[w.next]
    BY <1>3, <1>8, <1>12
  <2> QED
    BY <1>4, <2>1, <2>2 DEF Ahead
<1>15. OpenLoop(w)'
  BY <1>3 DEF OpenLoop
<1>16. Struct(s)'
  <2>1. PICK vs, a, h, m : vs = visiting' /\ a = insert_block /\ h = Top.back /\ m = l + 1
    OBVIOUS
  <2>2. l \in Nat /\ l = Len(visiting)
    BY <1>11 DEF TopIs
  <2>3. m \in Nat /\ m = Len(vs) /\ (\A i \in 1 .. l : vs[i] = visiting[i]) /\ vs[m] = w
    <3>1. w \in Frames
      BY <1>3, <1>8, <1>9 DEF Frames, NoBlock
    <3> QED
      BY <1>4, <1>5, <2>1, <2>2, <3>1, AppendProperties
  <2>4. \A b \in {x, e} : s[a] < s[b]
    BY <1>8, <1>12, <2>1 DEF Moved, Keeps
  <2>5. x \in new
    BY <1>8
  <2>6. StepIs(r, s, new, {x, e}, l, l, m, vs, a, x, h, w)
    BY <1>4, <1>10, <1>12, <1>13, <1>14, <1>15, <2>1, <2>2, <2>3, <2>4, <2>5 DEF StepIs
  <2> QED
    BY <2>6, StructStep
<1> QED
  BY <1>16

LEMMA FrontIs ==
    ASSUME NEW S, NEW vs \in Seq(S), NEW n \in Nat, Len(vs) = n + 1
    PROVE  Front(vs) \in Seq(S) /\ Len(Front(vs)) = n /\ \A i \in 1 .. n : Front(vs)[i] = vs[i]
<1>1. PICK t : t = Front(vs)
  OBVIOUS
<1>2. \A i \in 1 .. n : vs[i] \in S /\ 1 + i - 1 = i /\ n - 1 + 1 = n
  BY ElementOfSeq
<1>3. t = SubSeq(vs, 1, n)
  BY <1>1 DEF Front
<1>4. /\ t \in Seq(S) /\ Len(t) = IF 1 <= n THEN n - 1 + 1 ELSE 0
      /\ \A i \in 1 .. n - 1 + 1 : t[i] = vs[1 + i - 1]
  BY <1>2, <1>3, SubSeqProperties
<1>5. Len(t) = n /\ \A i \in 1 .. n : t[i] = vs[i]
  BY <1>2, <1>4
<1> QED
  BY <1>1, <1>4, <1>5

LEMMA ReturnFrames ==
    ASSUME BuilderInv, NEW l \in Nat \ {0}, l = Len(visiting), Return, NEW i \in DOMAIN visiting'
    PROVE  i \in DOMAIN visiting /\ i # l /\ visiting'[i] = visiting[i]
<1>1. PICK m \in Nat : m + 1 = l
  <2>1. l - 1 \in Nat /\ (l - 1) + 1 = l
    OBVIOUS
  <2> QED
    BY <2>1
<1>2. visiting \in Seq(Frames)
  BY DEF BuilderInv, VisitInv, FramesOK
<1>3. PICK vs : vs = visiting'
  OBVIOUS
<1>4. vs \in Seq(Frames) /\ Len(vs) = m /\ \A j \in 1 .. m : vs[j] = visiting[j]
  BY <1>1, <1>2, <1>3, FrontIs DEF Return
<1>5. DOMAIN visiting = 1 .. l /\ DOMAIN vs = 1 .. m
  BY <1>2, <1>4, LenProperties
<1>6. i \in 1 .. m
  BY <1>3, <1>5
<1>7. i \in 1 .. l /\ i # l
  BY <1>1, <1>6
<1> QED
  BY <1>3, <1>4, <1>5, <1>6, <1>7

(* The insertion point falls through to b. *)
LEMMA FallEdge ==
    ASSUME BuilderInv, visiting # <<>>, NEW b \in OwnedBy(visiting) \cap Blocks,
           Emit(fall_through(Graph, b)), UNCHANGED basic_blocks
    PROVE  \E B \in SUBSET {b} : EdgeStep({}, B)
<1>1. PICK f \in Funcs :
         /\ f = current_func /\ insert_block \in Blocks /\ NumInv /\ GraphOK(Graph)
  BY InBody
<1>2. GrownBy(f, {})
  BY <1>1, NothingCreated
<1>3. CASE is_terminated(insert_block)
  <2>1. UNCHANGED <<succ_bbs, pre_bbs, terminator>>
    BY <1>3 DEF fall_through, Emit, Graph
  <2>2. GraphStep(insert_block, {}, {})
    BY <1>1, <2>1, StepNone
  <2>3. EdgeStep({}, {})
    BY <1>1, <1>2, <2>2, EdgeStepIs
  <2> QED
    BY <2>3
<1>4. CASE ~is_terminated(insert_block)
  <2>1. GraphStep(insert_block, {b}, {insert_block})
    BY <1>1, <1>4, StepBr DEF fall_through
  <2>2. EdgeStep({}, {b})
    BY <1>1, <1>2, <1>4, <2>1, EdgeStepIs
  <2> QED
    BY <2>2
<1> QED
  BY <1>3, <1>4

(* The statement on top is done. *)
LEMMA PopStruct ==
    ASSUME BuilderInv, BuilderInv', visiting # <<>>, NEW r, Struct(r),
           NEW l, NEW v, NEW S, TopIs(r, l, v, S), NEW B, EdgeStep({}, B), Return,
           insert_block' \in Wants(v) \cup {insert_block},
           NEW a, a = insert_block, \A b \in B : r[a] < r[b] \/ Latch(a, b)'
    PROVE  Struct(r)'
<1>1. PICK m \in Nat : m + 1 = l
  <2>1. l - 1 \in Nat /\ (l - 1) + 1 = l
    BY DEF TopIs
  <2> QED
    BY <2>1
<1>2. l \in Nat /\ l = Len(visiting) /\ v = Top /\ m # l /\ m # m + 1
  BY <1>1 DEF TopIs
<1>3. PICK vs : vs = visiting'
  OBVIOUS
<1>4. Len(vs) = m /\ \A i \in 1 .. m : vs[i] = visiting[i]
  <2>1. visiting \in Seq(Frames)
    BY DEF BuilderInv, VisitInv, FramesOK
  <2> QED
    BY <1>1, <1>2, <1>3, <2>1, FrontIs DEF Return
<1>5. Moved(r, r, {})
  BY SameRank DEF Struct
<1>6. PICK c, h : c = insert_block' /\ h = Top.back
  OBVIOUS
<1>7. c \in {} \cup {a} \/ (m # l /\ c \in Wants(Top))
  BY <1>2, <1>6
<1>8. StepIs(r, r, {}, B, l, m, m, vs, a, c, h, 0)
  BY <1>1, <1>2, <1>3, <1>4, <1>5, <1>6, <1>7 DEF StepIs
<1> QED
  BY <1>8, StructStep

LEMMA ThenEndStruct ==
    ASSUME BuilderInv, BuilderInv', SelectionThenEnd, NEW r, Struct(r)
    PROVE  \E s : Struct(s)'
<1>1. /\ visiting # <<>> /\ Top.kind = "if" /\ Top.phase = "then"
      /\ Emit(fall_through(Graph, Top.next))
      /\ UNCHANGED <<basic_blocks, built>>
  BY DEF SelectionThenEnd
<1>2. PICK l, v, S : TopIs(r, l, v, S)
  BY <1>1, AtTop
<1>3. /\ l \in Nat \ {0} /\ l = Len(visiting) /\ v = Top /\ v = visiting[l]
      /\ v \in Frames /\ v.kind = "if" /\ v.phase = "then"
      /\ v.next \in Blocks /\ v.next # 0 /\ v.next \in Wants(v) /\ Wants(v) = {v.next, v.back} \ {0}
      /\ Wants(v) \subseteq Owned(v) /\ Owned(v) \subseteq OwnedBy(visiting) /\ Ahead(r, v)
  BY <1>1, <1>2 DEF TopIs, FrameOK, Wants, Pends
<1>4. PICK B \in SUBSET {v.next} : EdgeStep({}, B)
  BY <1>1, <1>3, FallEdge
<1>5. PICK a : a = insert_block /\ \A b \in B : r[a] < r[b]
  BY <1>3 DEF Ahead
<1>6. CASE v.back = 0
  <2>1. insert_block' = v.next /\ Return
    BY <1>3, <1>6 DEF SelectionThenEnd, NoBlock
  <2>2. Struct(r)'
    BY <1>1, <1>2, <1>3, <1>4, <1>5, <2>1, PopStruct
  <2> QED
    BY <2>2
<1>7. CASE v.back # 0
  <2>1. PICK w : w = [v EXCEPT !.phase = "else"]
    OBVIOUS
  <2>2. insert_block' = v.back /\ visiting' = [visiting EXCEPT ![l] = w]
    BY <1>3, <1>7, <2>1 DEF SelectionThenEnd, Phase, NoBlock
  <2>3. w \in Frames /\ w.kind = "if" /\ w.phase = "else" /\ w.back = v.back /\ w.next = v.next
    BY <1>3, <2>1 DEF Frames
  <2>4. Wants(w) = {v.next} /\ Owned(w) = {v.next}
    BY <1>3, <2>3 DEF Wants, Owned, Pends
  <2>5. Ahead(r, w)' /\ OpenLoop(w)'
    <3>1. r[v.back] < r[v.next]
      BY <1>3, <1>7 DEF Ahead
    <3>2. \A p \in Wants(w) : r[insert_block'] < r[p]
      BY <2>2, <2>4, <3>1
    <3> QED
      BY <2>3, <3>2 DEF Ahead, OpenLoop
  <2>6. PICK m \in Nat : m + 1 = l
    <3>1. l - 1 \in Nat /\ (l - 1) + 1 = l
      BY <1>3
    <3> QED
      BY <3>1
  <2>7. PICK vs : vs = visiting'
    OBVIOUS
  <2>8. Len(vs) = l /\ vs[l] = w /\ \A i \in 1 .. m : vs[i] = visiting[i]
    <3>1. visiting \in Seq(Frames)
      BY DEF BuilderInv, VisitInv, FramesOK
    <3>2. DOMAIN visiting = 1 .. l /\ l \in 1 .. l /\ \A i \in 1 .. m : i \in 1 .. l /\ i # l
      BY <1>3, <2>6, <3>1, LenProperties
    <3>3. vs = [visiting EXCEPT ![l] = w]
      BY <2>2, <2>7
    <3> QED
      BY <1>3, <2>3, <3>1, <3>2, <3>3, ExceptSeq
  <2>9. Moved(r, r, {})
    BY SameRank DEF Struct
  <2>10. PICK c, h : c = insert_block' /\ h = Top.back
    OBVIOUS
  <2>11. m # l /\ c \in Wants(Top)
    BY <1>3, <1>7, <2>2, <2>6, <2>10
  <2>12. Owned(w) \subseteq Owned(Top) /\ Wants(w) \subseteq Wants(Top)
    BY <1>3, <2>4
  <2>13. Struct(r)'
    <3>1. l = m + 1 /\ l \in Nat
      BY <1>3, <2>6
    <3>2. Owned(w) \subseteq {} \cup (IF m # l THEN Owned(Top) ELSE {})
      BY <2>11, <2>12
    <3>3. Wants(w) \subseteq {} \cup (IF m # l THEN Wants(Top) ELSE {})
      BY <2>11, <2>12
    <3>4. StepIs(r, r, {}, B, l, m, l, vs, a, c, h, w)
      BY <1>3, <1>4, <1>5, <2>5, <2>6, <2>7, <2>8, <2>9, <2>10, <2>11, <3>1, <3>2, <3>3 DEF StepIs
    <3> QED
      BY <3>4, StructStep
  <2> QED
    BY <2>13
<1> QED
  BY <1>6, <1>7

LEMMA ElseEndStruct ==
    ASSUME BuilderInv, BuilderInv', SelectionElseEnd, NEW r, Struct(r)
    PROVE  \E s : Struct(s)'
<1>1. /\ visiting # <<>> /\ Top.kind = "if" /\ Top.phase = "else"
      /\ Emit(fall_through(Graph, Top.next))
      /\ insert_block' = Top.next /\ Return
      /\ UNCHANGED <<basic_blocks, built>>
  BY DEF SelectionElseEnd
<1>2. PICK l, v, S : TopIs(r, l, v, S)
  BY <1>1, AtTop
<1>3. /\ v = Top /\ v.next \in Blocks /\ v.next \in Wants(v)
      /\ Wants(v) \subseteq Owned(v) /\ Owned(v) \subseteq OwnedBy(visiting) /\ Ahead(r, v)
  BY <1>1, <1>2 DEF TopIs, FrameOK, Wants, Pends
<1>4. PICK B \in SUBSET {v.next} : EdgeStep({}, B)
  BY <1>1, <1>3, FallEdge
<1>5. PICK a : a = insert_block /\ \A b \in B : r[a] < r[b]
  BY <1>3 DEF Ahead
<1>6. Struct(r)'
  BY <1>1, <1>2, <1>3, <1>4, <1>5, PopStruct
<1> QED
  BY <1>6

LEMMA IterationStruct ==
    ASSUME BuilderInv, BuilderInv', IterationStmt, NEW r, Struct(r)
    PROVE  \E s : Struct(s)'
<1>1. PICK k, x : k = fresh /\ x = k + 1
  OBVIOUS
<1>2. PICK w : w = [kind |-> "while", phase |-> "cond", back |-> x, next |-> NoBlock]
  OBVIOUS
<1>3. /\ visiting # <<>> /\ Top.phase # "cond" /\ ~is_terminated(insert_block)
      /\ Create(1)
      /\ Emit(create_br(Graph, insert_block, x))
      /\ insert_block' = x
      /\ visiting' = Append(visiting, w)
  BY <1>1, <1>2 DEF IterationStmt, NextStatement, Enter, fall_through
<1>4. PICK f \in Funcs :
         /\ f = current_func /\ insert_block \in Blocks /\ NumInv /\ GraphOK(Graph)
         /\ visiting \in Seq(Frames)
  BY <1>3, InBody DEF FramesOK
<1>5. k \in Nat /\ (k + 1) .. (k + 1) = {x} /\ k < x /\ Created = 1 .. k
  BY <1>1, <1>4 DEF NumInv
<1>6. GrownBy(f, {x}) /\ x \in Blocks
  <2>1. (fresh + 1) .. (fresh + 1) = {x} /\ 1 \in Nat
    BY <1>1, <1>5
  <2> QED
    BY <1>3, <1>4, <2>1, NewBlocks
<1>7. EdgeStep({x}, {x})
  <2>1. GraphStep(insert_block, {x}, {insert_block})
    BY <1>3, <1>4, <1>6, StepBr
  <2> QED
    BY <1>1, <1>3, <1>4, <1>5, <1>6, <2>1, EdgeStepIs
<1>8. PICK l, v, S : TopIs(r, l, v, S)
  BY <1>3, AtTop
<1>9. PICK s : Moved(r, s, {x})
  <2>1. r \in [Blocks -> Nat] /\ Created \cap {x} = {} /\ insert_block \in Created /\ 1 \in Nat
        /\ {x} \in SUBSET Blocks
    BY <1>6, <1>7, <1>8 DEF Struct, EdgeStep, TopIs
  <2>2. \A z \in {x} : z \in Nat /\ z - k \in 1 .. 1
    BY <1>5
  <2> QED
    BY <1>5, <2>1, <2>2, NewRanks
<1>10. Wants(w) = {} /\ Owned(w) = {x}
  BY <1>2 DEF Wants, Owned, Pends, NoBlock
<1>11. Ahead(s, w)'
  BY <1>2, <1>10 DEF Ahead
<1>12. OpenLoop(w)'
  <2>1. Created' = 1 .. k \cup {x}
    BY <1>5, <1>7 DEF EdgeStep
  <2>2. Region(w)' \subseteq {x}
    BY <1>1, <1>2, <1>5, <2>1 DEF Region
  <2>3. x \notin Beginnings'
    BY <1>3, <1>7 DEF EdgeStep, Beginnings
  <2>4. Sealed(Region(w), w.back)'
    BY <1>2, <2>2, <2>3 DEF Sealed
  <2>5. x # 0 /\ x >= x /\ NoBlock = 0
    BY <1>1, <1>5 DEF NoBlock
  <2> QED
    BY <1>2, <1>3, <1>5, <2>4, <2>5 DEF OpenLoop
<1>13. Struct(s)'
  <2>1. PICK vs, a, h, m : vs = visiting' /\ a = insert_block /\ h = Top.back /\ m = l + 1
    OBVIOUS
  <2>2. l \in Nat /\ l = Len(visiting)
    BY <1>8 DEF TopIs
  <2>3. m \in Nat /\ m = Len(vs) /\ (\A i \in 1 .. l : vs[i] = visiting[i]) /\ vs[m] = w
    <3>1. w \in Frames
      BY <1>2, <1>6 DEF Frames, NoBlock
    <3> QED
      BY <1>3, <1>4, <2>1, <2>2, <3>1, AppendProperties
  <2>4. \A b \in {x} : s[a] < s[b]
    BY <1>9, <2>1 DEF Moved, Keeps
  <2>5. StepIs(r, s, {x}, {x}, l, l, m, vs, a, x, h, w)
    BY <1>3, <1>7, <1>9, <1>10, <1>11, <1>12, <2>1, <2>2, <2>3, <2>4 DEF StepIs
  <2> QED
    BY <2>5, StructStep
<1> QED
  BY <1>13

LEMMA IterationCondStruct ==
    ASSUME BuilderInv, BuilderInv', IterationCond, NEW r, Struct(r)
    PROVE  \E s : Struct(s)'
<1>1. PICK k, x, c : k = fresh /\ x = k + 1 /\ c = k + 2
  OBVIOUS
<1>2. /\ visiting # <<>> /\ Top.kind = "while" /\ Top.phase = "cond" /\ ~is_terminated(insert_block)
      /\ Create(2)
      /\ Emit(create_cond_br(Graph, insert_block, x, c))
      /\ insert_block' = x
      /\ visiting' = [visiting EXCEPT ![Len(visiting)].phase = "body",
                                      ![Len(visiting)].next = c]
  BY <1>1 DEF IterationCond, BuilderInv, VisitInv
<1>3. PICK f \in Funcs :
         /\ f = current_func /\ insert_block \in Blocks /\ NumInv /\ GraphOK(Graph)
         /\ visiting \in Seq(Frames)
  BY <1>2, InBody DEF FramesOK
<1>4. k \in Nat /\ (k + 1) .. (k + 2) = {x, c} /\ x < c /\ x # c /\ k < x /\ k < c /\ Created = 1 .. k
  BY <1>1, <1>3 DEF NumInv
<1>5. GrownBy(f, {x, c}) /\ x \in Blocks /\ c \in Blocks
  <2>1. (fresh + 1) .. (fresh + 2) = {x, c} /\ 2 \in Nat
    BY <1>1, <1>4
  <2> QED
    BY <1>2, <1>3, <2>1, NewBlocks
<1>6. EdgeStep({x, c}, {x, c})
  <2>1. GraphStep(insert_block, {x, c}, {insert_block})
    BY <1>2, <1>3, <1>4, <1>5, StepCondBr
  <2>2. \A y \in {x, c} : fresh < y
    BY <1>1, <1>4
  <2> QED
    BY <1>2, <1>3, <1>5, <2>1, <2>2, EdgeStepIs
<1>7. PICK l, v, S : TopIs(r, l, v, S)
  BY <1>2, AtTop
<1>8. PICK s : Moved(r, s, {x, c}) /\ s[x] < s[c]
  <2>1. r \in [Blocks -> Nat] /\ Created \cap {x, c} = {} /\ insert_block \in Created /\ 2 \in Nat
        /\ {x, c} \in SUBSET Blocks
    BY <1>5, <1>6, <1>7 DEF Struct, EdgeStep, TopIs
  <2>2. \A z \in {x, c} : z \in Nat /\ z - k \in 1 .. 2
    BY <1>4
  <2> QED
    BY <1>4, <2>1, <2>2, NewRanks
<1>9. /\ l \in Nat \ {0} /\ l = Len(visiting) /\ v = Top /\ v = visiting[l] /\ l \in DOMAIN visiting
      /\ v \in Frames /\ v.kind = "while" /\ v.phase = "cond" /\ v.next = 0 /\ v.back \in Owned(v)
      /\ v.back \in Created /\ OpenLoop(v) /\ insert_block \in Created /\ Created \subseteq Blocks
      /\ 0 \notin Blocks
  BY <1>2, <1>7 DEF TopIs, FrameOK, NoBlock, Owned
<1>10. PICK w : w = [v EXCEPT !.phase = "body", !.next = c]
  OBVIOUS
<1>11. /\ w \in Frames /\ w.kind = "while" /\ w.phase = "body" /\ w.back = v.back /\ w.next = c
       /\ visiting' = [visiting EXCEPT ![l] = w]
  <2>1. w \in Frames /\ w.kind = "while" /\ w.phase = "body" /\ w.back = v.back /\ w.next = c
    BY <1>5, <1>9, <1>10 DEF Frames
  <2>2. visiting' = [visiting EXCEPT ![l] = [[visiting[l] EXCEPT !.phase = "body"] EXCEPT !.next = c]]
    BY <1>2, <1>3, <1>9
  <2>3. w = [[visiting[l] EXCEPT !.phase = "body"] EXCEPT !.next = c]
    BY <1>9, <1>10
  <2> QED
    BY <2>1, <2>2, <2>3
<1>12. Wants(w) = {c} /\ Owned(w) = {c, v.back}
  <2>1. c # 0
    BY <1>5, <1>9
  <2> QED
    BY <1>11, <2>1 DEF Wants, Owned, Pends
<1>13. Ahead(s, w)'
  BY <1>2, <1>8, <1>11, <1>12 DEF Ahead
<1>14. OpenLoop(w)'
  <2>1. TwoWays(v.back)'
    BY <1>4, <1>6, <1>7, <1>9, CondBranches
  <2>2. insert_block >= v.back /\ insert_block # v.next /\ Sealed(Region(v), v.back)
    BY <1>9 DEF OpenLoop
  <2>3. Sealed(Region(w), w.back)'
    BY <1>6, <1>9, <1>11, <2>2, RegionKept
  <2>4. x >= v.back
    BY <1>4, <1>9
  <2>5. c # v.back
    BY <1>4, <1>9
  <2> QED
    BY <1>2, <1>11, <2>1, <2>3, <2>4, <2>5 DEF OpenLoop
<1>15. PICK m \in Nat : m + 1 = l
  <2>1. l - 1 \in Nat /\ (l - 1) + 1 = l
    BY <1>9
  <2> QED
    BY <2>1
<1>16. PICK vs : vs = visiting'
  OBVIOUS
<1>17. Len(vs) = l /\ vs[l] = w /\ \A i \in 1 .. m : vs[i] = visiting[i]
  <2>1. DOMAIN visiting = 1 .. l /\ l \in 1 .. l /\ \A i \in 1 .. m : i \in 1 .. l /\ i # l
    BY <1>3, <1>9, <1>15, LenProperties
  <2>2. vs = [visiting EXCEPT ![l] = w]
    BY <1>11, <1>16
  <2> QED
    BY <1>3, <1>9, <1>11, <2>1, <2>2, ExceptSeq
<1>18. PICK a, h : a = insert_block /\ h = Top.back
  OBVIOUS
<1>19. \A b \in {x, c} : s[a] < s[b]
  BY <1>8, <1>18 DEF Moved, Keeps
<1>20. l = m + 1 /\ m # l /\ l \in Nat
  BY <1>9, <1>15
<1>21. /\ Owned(w) \subseteq {x, c} \cup (IF m # l THEN Owned(Top) ELSE {})
       /\ Wants(w) \subseteq {x, c} \cup (IF m # l THEN Wants(Top) ELSE {})
  BY <1>9, <1>12, <1>20
<1>22. x \in {x, c} \cup {a}
  OBVIOUS
<1>23. StepIs(r, s, {x, c}, {x, c}, l, m, l, vs, a, x, h, w)
  BY <1>2, <1>6, <1>8, <1>9, <1>13, <1>14, <1>15, <1>16, <1>17, <1>18, <1>19, <1>20, <1>21, <1>22 DEF StepIs
<1>24. Struct(s)'
  BY <1>23, StructStep
<1> QED
  BY <1>24

LEMMA IterationEndStruct ==
    ASSUME BuilderInv, BuilderInv', IterationEnd, NEW r, Struct(r)
    PROVE  \E s : Struct(s)'
<1>1. /\ visiting # <<>> /\ Top.kind = "while" /\ Top.phase = "body"
      /\ Emit(fall_through(Graph, Top.back))
      /\ insert_block' = Top.next /\ Return
      /\ UNCHANGED <<basic_blocks, built>>
  BY DEF IterationEnd
<1>2. PICK l, v, S : TopIs(r, l, v, S)
  BY <1>1, AtTop
<1>3. /\ l \in Nat \ {0} /\ l = Len(visiting) /\ v = Top /\ v = visiting[l]
      /\ v.kind = "while" /\ v.phase = "body" /\ v.next \in Blocks /\ v.next \in Wants(v)
      /\ v.back \in Owned(v) /\ v.back \in Created /\ v.next \in Owned(v)
      /\ Owned(v) \subseteq OwnedBy(visiting) /\ Ahead(r, v) /\ OpenLoop(v)
      /\ insert_block \in Created /\ Created \subseteq Blocks /\ 0 \notin Blocks
  BY <1>1, <1>2 DEF TopIs, FrameOK, Wants, Owned, Pends
<1>4. PICK B \in SUBSET {v.back} : EdgeStep({}, B)
  BY <1>1, <1>3, FallEdge
<1>5. /\ insert_block >= v.back /\ TwoWays(v.back) /\ Sealed(Region(v), v.back)
      /\ insert_block # v.next
  <2>1. r[insert_block] < r[v.next] /\ r[insert_block] \in Nat
    BY <1>3 DEF Ahead, Struct
  <2>2. insert_block # v.next
    BY <2>1
  <2> QED
    BY <1>3, <2>2 DEF OpenLoop
<1>6. PICK a \in Blocks : a = insert_block
  BY <1>3
<1>7. Latch(a, v.back)'
  <2>1. TwoWays(v.back)'
    BY <1>3, <1>4, <1>5, TwoWaysKept
  <2>2. Sealed(Region(v), v.back)'
    BY <1>3, <1>4, <1>5, RegionKept
  <2>3. PICK T : T = Region(v)'
    OBVIOUS
  <2>4. T \subseteq Created' /\ a \in T /\ v.back \in T /\ T = {b \in Created : b >= v.back /\ b # v.next}
    <3>1. Created' = Created
      BY <1>4 DEF EdgeStep
    <3>2. v.back # v.next
      BY <1>3 DEF OpenLoop
    <3>3. v.back >= v.back
      <4>1. v.back \in Nat
        BY <1>3, BlocksNat
      <4> QED
        BY <4>1
    <3> QED
      BY <1>3, <1>5, <1>6, <2>3, <3>1, <3>2, <3>3 DEF Region
  <2>5. T \cap OwnedBy(visiting') = {}
    <3> SUFFICES ASSUME NEW i \in DOMAIN visiting', NEW x \in Owned(visiting'[i]), x \in T PROVE FALSE
      BY DEF OwnedBy
    <3>1. i \in DOMAIN visiting /\ i # l /\ visiting'[i] = visiting[i]
      BY <1>1, <1>3, ReturnFrames
    <3>2. x < v.back /\ x \in Created
      BY <1>2, <1>3, <2>4, <3>1 DEF TopIs
    <3>3. x \in Nat /\ v.back \in Nat /\ x >= v.back
      BY <1>3, <2>4, <3>2, BlocksNat
    <3> QED
      BY <3>2, <3>3
  <2>6. (T \cap OwnedBy(visiting) = {})'
    <3>1. OwnedBy(visiting') = OwnedBy(visiting)'
      BY DEF OwnedBy, Owned, Wants, Pends
    <3> QED
      BY <2>5, <3>1
  <2>7. Sealed(T, v.back)'
    BY <2>2, <2>3 DEF Sealed, Region
  <2> QED
    BY <2>1, <2>4, <2>6, <2>7 DEF Latch
<1>8. Struct(r)'
  <2>1. \A b \in B : r[a] < r[b] \/ Latch(a, b)'
    BY <1>7
  <2> QED
    BY <1>1, <1>2, <1>3, <1>4, <1>6, <2>1, PopStruct
<1> QED
  BY <1>8

LEMMA FirstBlockNext ==
    (NumInv => \A f \in Funcs : basic_blocks[f] # <<>> => basic_blocks[f][1] \in BlocksOf(f))'
<1>1. NumInv => \A f \in Funcs : basic_blocks[f] # <<>> => basic_blocks[f][1] \in BlocksOf(f)
  BY FirstBlock
<1> QED
  BY <1>1, PTL

LEMMA DeclarationStruct ==
    ASSUME BuilderInv, BuilderInv', FunDeclaration, NEW r, Struct(r)
    PROVE  \E s : Struct(s)'
<1>1. PICK k, x : k = fresh /\ x = k + 1
  OBVIOUS
<1>2. PICK w : w = [kind |-> "fun", phase |-> "body", back |-> NoBlock, next |-> NoBlock]
  OBVIOUS
<1>3. /\ visiting = <<>> /\ built < MaxFuncs
      /\ Create(1)
      /\ visiting' = Append(visiting, w)
      /\ UNCHANGED <<succ_bbs, pre_bbs, terminator, built>>
  BY <1>1, <1>2 DEF FunDeclaration, Enter
<1>4. NumInv /\ built \in 0 .. MaxFuncs
  BY DEF BuilderInv, Core
<1>5. PICK f \in Funcs : f = current_func
  <2>1. MaxFuncs \in Nat /\ Funcs = 1 .. MaxFuncs
    BY BuilderAssumption DEF Funcs, BuilderAssumption
  <2>2. current_func = built + 1
    BY DEF current_func
  <2> QED
    BY <1>3, <1>4, <2>1, <2>2
<1>6. k \in Nat /\ (k + 1) .. (k + 1) = {x} /\ Created = 1 .. k
  BY <1>1, <1>4 DEF NumInv
<1>7. GrownBy(f, {x})
  <2>1. (fresh + 1) .. (fresh + 1) = {x} /\ 1 \in Nat
    BY <1>1, <1>6
  <2> QED
    BY <1>3, <1>4, <1>5, <2>1, CreateFacts
<1>8. EdgeStep({x}, {})
  <2>1. NumInv' /\ Created' = Created \cup {x} /\ Created \cap {x} = {}
    BY <1>7 DEF GrownBy
  <2>2. {x} \subseteq Blocks
    <3>1. Created' \subseteq Blocks
      BY <2>1, CreatedBlocksNext
    <3> QED
      BY <2>1, <3>1
  <2>3. \A y \in Created : y < x
    BY <1>1, <1>6
  <2>4. Beginnings' \subseteq Beginnings \cup {x}
    <3> SUFFICES ASSUME NEW y \in Beginnings', y \notin Beginnings PROVE y = x
      OBVIOUS
    <3>1. PICK g \in Funcs : basic_blocks'[g] # <<>> /\ y = basic_blocks'[g][1]
      BY DEF Beginnings
    <3>2. g = f
      <4>1. basic_blocks'[g] = basic_blocks[g] \/ g = f
        BY <1>7 DEF GrownBy
      <4>2. basic_blocks[g] # <<>> => basic_blocks[g][1] \in Created
        BY <1>4, FirstBlock, CreatedBlocks
      <4> QED
        BY <3>1, <4>1, <4>2 DEF Beginnings
    <3>3. basic_blocks[f] = <<>>
      BY <1>3, <1>4, <1>5 DEF BuilderInv, VisitInv, current_func
    <3>4. BlocksOf(f)' = BlocksOf(f) \cup {x} /\ BlocksOf(f) = {}
      BY <1>7, <3>3 DEF GrownBy, BlocksOf, ToSet
    <3>5. y \in BlocksOf(f)'
      BY <2>1, <3>1, <3>2, FirstBlockNext
    <3> QED
      BY <3>4, <3>5
  <2> QED
    BY <1>3, <2>1, <2>2, <2>3, <2>4 DEF EdgeStep
<1>9. PICK vs : vs = visiting'
  OBVIOUS
<1>10. DOMAIN vs = {1} /\ vs[1] = w
  <2>1. vs = <<w>>
    BY <1>3, <1>9
  <2> QED
    BY <2>1
<1>11. Wants(w) = {} /\ Owned(w) = {}
  BY <1>2 DEF Wants, Owned, Pends, NoBlock
<1>12. OwnedBy(visiting') = {}
  BY <1>9, <1>10, <1>11 DEF OwnedBy
<1>13. Ahead(r, w)' /\ OpenLoop(w)'
  BY <1>2, <1>11 DEF Ahead, OpenLoop
<1>14. Stacked(r)'
  <2>1. \A i \in DOMAIN vs : Ahead(r, vs[i])' /\ OpenLoop(vs[i])'
    BY <1>10, <1>13
  <2>2. \A i, j \in DOMAIN vs : ~(i < j)
    BY <1>10
  <2> QED
    BY <1>9, <2>1, <2>2 DEF Stacked
<1>15. r \in [Blocks -> Nat] /\ Edges(r) /\ Keeps(r, r)
  BY DEF Struct, Keeps
<1>16. Edges(r)'
  <2>1. PICK a : a = insert_block
    OBVIOUS
  <2> QED
    BY <1>8, <1>12, <1>15, <2>1, EdgesStep
<1>17. Struct(r)'
  BY <1>14, <1>15, <1>16 DEF Struct
<1> QED
  BY <1>17

LEMMA DeclarationEndStruct ==
    ASSUME BuilderInv, BuilderInv', FunDeclarationEnd, NEW r, Struct(r)
    PROVE  \E s : Struct(s)'
<1>1. /\ visiting # <<>> /\ Top.kind = "fun"
      /\ Emit(IF is_terminated(insert_block) THEN Graph ELSE create_ret(Graph, insert_block))
      /\ Return
      /\ UNCHANGED <<basic_blocks, insert_block>>
  BY DEF FunDeclarationEnd
<1>2. PICK f \in Funcs :
         /\ f = current_func /\ insert_block \in Blocks /\ NumInv /\ GraphOK(Graph)
  BY <1>1, InBody
<1>3. PICK E : GraphStep(insert_block, {}, E)
  <2>1. CASE is_terminated(insert_block)
    <3>1. UNCHANGED <<succ_bbs, pre_bbs, terminator>>
      BY <1>1, <2>1 DEF Emit, Graph
    <3> QED
      BY <1>2, <3>1, StepNone
  <2>2. CASE ~is_terminated(insert_block)
    BY <1>1, <1>2, <2>2, StepRet
  <2> QED
    BY <2>1, <2>2
<1>4. EdgeStep({}, {})
  <2>1. GrownBy(f, {})
    BY <1>1, <1>2, NothingCreated
  <2> QED
    BY <1>1, <1>2, <1>3, <2>1, EdgeStepIs
<1>5. PICK l, v, S : TopIs(r, l, v, S)
  BY <1>1, AtTop
<1>6. Struct(r)'
  <2>1. PICK a : a = insert_block
    OBVIOUS
  <2> QED
    BY <1>1, <1>4, <1>5, <2>1, PopStruct
<1> QED
  BY <1>6

Structured == \E r : Struct(r)

LEMMA StructInit == Init => Structured
<1> SUFFICES ASSUME Init PROVE Structured
  OBVIOUS
<1>1. PICK r : r = [b \in Blocks |-> 0]
  OBVIOUS
<1>2. \A b \in Blocks : ToSet(succ_bbs[b]) = {}
  BY DEF Init, ToSet
<1>3. DOMAIN visiting = {}
  BY DEF Init
<1>4. Struct(r)
  BY <1>1, <1>2, <1>3 DEF Struct, Edges, Stacked
<1> QED
  BY <1>4 DEF Structured

LEMMA StructStutter ==
    ASSUME Structured, UNCHANGED builder_vars
    PROVE  Structured'
<1>1. PICK r : Struct(r)
  BY DEF Structured
<1>2. UNCHANGED <<basic_blocks, succ_bbs, pre_bbs, terminator, insert_block, visiting, built>>
  BY DEF builder_vars
<1>3. Created' = Created /\ Beginnings' = Beginnings /\ \A vs : OwnedBy(vs)' = OwnedBy(vs)
  BY <1>2 DEF Created, Beginnings, OwnedBy, Owned, Wants, Pends
<1>4. OwnedBy(visiting)' = OwnedBy(visiting)
  BY <1>2 DEF OwnedBy, Owned, Wants, Pends
<1>5. \A S, h : Sealed(S, h)' <=> Sealed(S, h)
  BY <1>2, <1>3 DEF Sealed
<1>6. \A h : TwoWays(h)' <=> TwoWays(h)
  BY <1>2 DEF TwoWays
<1>7. \A a, h : Latch(a, h)' <=> Latch(a, h)
  BY <1>3, <1>4, <1>5, <1>6 DEF Latch
<1>8. \A v : Region(v)' = Region(v)
  BY <1>3 DEF Region
<1>9. \A v : (Ahead(r, v)' <=> Ahead(r, v)) /\ (OpenLoop(v)' <=> OpenLoop(v))
  BY <1>2, <1>5, <1>6, <1>8 DEF Ahead, OpenLoop
<1>10. Struct(r)'
  <2>1. Edges(r)'
    BY <1>1, <1>2, <1>7 DEF Struct, Edges
  <2>2. Stacked(r)'
    BY <1>1, <1>2, <1>9 DEF Struct, Stacked
  <2> QED
    BY <1>1, <2>1, <2>2 DEF Struct
<1> QED
  BY <1>10 DEF Structured

LEMMA StructuredAlways == Spec => []Structured
<1>1. BuilderInv /\ BuilderInv' /\ Structured /\ [Next]_builder_vars => Structured'
  <2> SUFFICES ASSUME BuilderInv, BuilderInv', Structured, [Next]_builder_vars PROVE Structured'
    OBVIOUS
  <2>1. PICK r : Struct(r)
    BY DEF Structured
  <2>2. CASE FunDeclaration
    BY <2>1, <2>2, DeclarationStruct DEF Structured
  <2>3. CASE FunDeclarationEnd
    BY <2>1, <2>3, DeclarationEndStruct DEF Structured
  <2>4. CASE ReturnStmt
    BY <2>1, <2>4, ReturnStruct DEF Structured
  <2>5. CASE IndexedVar
    BY <2>1, <2>5, IndexedVarStruct DEF Structured
  <2>6. CASE \E has_else \in BOOLEAN : SelectionStmt(has_else)
    BY <2>1, <2>6, SelectionStruct DEF Structured
  <2>7. CASE SelectionThenEnd
    BY <2>1, <2>7, ThenEndStruct DEF Structured
  <2>8. CASE SelectionElseEnd
    BY <2>1, <2>8, ElseEndStruct DEF Structured
  <2>9. CASE IterationStmt
    BY <2>1, <2>9, IterationStruct DEF Structured
  <2>10. CASE IterationCond
    BY <2>1, <2>10, IterationCondStruct DEF Structured
  <2>11. CASE IterationEnd
    BY <2>1, <2>11, IterationEndStruct DEF Structured
  <2>12. CASE UNCHANGED builder_vars
    BY <2>12, StructStutter
  <2> QED
    BY <2>2, <2>3, <2>4, <2>5, <2>6, <2>7, <2>8, <2>9, <2>10, <2>11, <2>12 DEF Next
<1> QED
  BY BuilderInvariance, StructInit, <1>1, PTL DEF Spec

-----------------------------------------------------------------------------
(* The cycles of such a graph: from block to block the rank goes up, but    *)
(* for the edges of lat, whose targets dominate their sources.              *)
Climbing(succ, e, r, lat) ==
    /\ IsFlowGraph(succ, e) /\ r \in [DOMAIN succ -> Nat]
    /\ \A a \in All(succ, e) : e \notin ToSet(succ[a])
    /\ \A a \in All(succ, e) : \A b \in ToSet(succ[a]) :
          IF b \in lat[a] THEN a \in DominatedBy(succ, e)[b] ELSE r[a] < r[b]

(* Then no other branch goes back to a block that dominates its source.     *)
LEMMA OnlyLatches ==
    ASSUME NEW succ, NEW e, NEW r, NEW lat, Climbing(succ, e, r, lat),
           NEW a \in All(succ, e), NEW b \in ToSet(succ[a]), a \in DominatedBy(succ, e)[b]
    PROVE  b \in lat[a]
<1> SUFFICES ASSUME b \notin lat[a] PROVE FALSE
  OBVIOUS
<1>1. PICK R, dom : R = All(succ, e) /\ dom = DominatedBy(succ, e)
  OBVIOUS
<1>2. /\ IsFlowGraph(succ, e) /\ IsGraph(succ) /\ e \in DOMAIN succ /\ r \in [DOMAIN succ -> Nat]
      /\ \A x \in R : e \notin ToSet(succ[x])
      /\ \A x \in R : \A y \in ToSet(succ[x]) : IF y \in lat[x] THEN x \in dom[y] ELSE r[x] < r[y]
  BY <1>1 DEF Climbing, IsFlowGraph
<1>3. /\ R \subseteq DOMAIN succ /\ e \in R
      /\ \A x \in R : dom[x] = R \ Reach(succ, e, x) /\ x \in dom[x] /\ dom[x] \subseteq R
      /\ \A x \in R : ToSet(succ[x]) \subseteq R
  BY <1>1, <1>2, DomValue
<1>4. a \in R /\ b \in R /\ a \in dom[b] /\ r[a] < r[b] /\ b # e
  BY <1>1, <1>2, <1>3
<1>5. PICK y \in dom[b] : \A x \in dom[b] : r[y] <= r[x]
  <2>1. PICK T : T = {n \in Nat : \E x \in dom[b] : n = r[x]}
    OBVIOUS
  <2>2. \A x \in dom[b] : r[x] \in Nat
    BY <1>2, <1>3, <1>4
  <2>3. T \in SUBSET Nat /\ T # {}
    BY <1>4, <2>1, <2>2
  <2>4. PICK n \in T : \A m \in T : n <= m
    BY <2>3, LeastNumber
  <2> QED
    BY <2>1, <2>2, <2>4
<1>6. y \in R /\ y # b /\ r[y] \in Nat
  <2>1. r[y] <= r[a] /\ r[y] \in Nat /\ r[a] \in Nat /\ r[b] \in Nat
    BY <1>2, <1>3, <1>4, <1>5
  <2>2. r[y] # r[b]
    BY <1>4, <2>1
  <2> QED
    BY <1>3, <1>4, <1>5, <2>1, <2>2
<1>7. y # e
  <2>1. e = b \/ e \in Reach(succ, e, b)
    BY <1>2, Avoiding
  <2> QED
    BY <1>3, <1>4, <1>5, <2>1
<1>8. ASSUME NEW p \in R, y \in ToSet(succ[p]) PROVE p \in dom[y]
  <2>1. p \in dom[b]
    BY <1>1, <1>2, <1>4, <1>5, <1>6, <1>8, DomPredecessor
  <2>2. r[y] <= r[p] /\ r[p] \in Nat
    BY <1>2, <1>3, <1>5, <1>8, <2>1
  <2>3. ~(r[p] < r[y])
    BY <1>6, <2>2
  <2> QED
    BY <1>2, <1>8, <2>3
<1>9. PICK C : C = Reach(succ, e, y)
  OBVIOUS
<1>10. e \in C /\ y \notin C /\ \A x \in C : \A z \in ToSet(succ[x]) : z = y \/ z \in C
  BY <1>2, <1>7, <1>9, Avoiding
<1>11. C \subseteq R
  <2>1. Closed(succ, y, R)
    BY <1>3 DEF Closed
  <2> QED
    BY <1>2, <1>3, <1>9, <2>1, ReachLeast
<1>12. Closed(succ, 0, C)
  <2> SUFFICES ASSUME NEW x \in C, NEW z \in ToSet(succ[x]) PROVE z \in C
    BY DEF Closed
  <2>1. x \notin dom[y]
    BY <1>3, <1>6, <1>9
  <2>2. z # y
    BY <1>8, <1>11, <2>1
  <2> QED
    BY <1>10, <2>2
<1>13. R \subseteq C
  BY <1>1, <1>2, <1>10, <1>12, ReachLeast DEF All
<1> QED
  BY <1>6, <1>10, <1>13

(* A list of the elements of a finite set. *)
LEMMA ListOf ==
    ASSUME NEW S, IsFiniteSet(S)
    PROVE  ToSet(SetToSeq(S)) \subseteq S
<1>1. PICK n \in Nat : n = Cardinality(S) /\ ExistsBijection(1 .. n, S)
  BY FS_CountingElements, FS_CardinalityType
<1>2. PICK g \in Bijection(1 .. n, S) : TRUE
  BY <1>1 DEF ExistsBijection
<1>3. g \in [1 .. n -> S] /\ IsInjective(g)
  BY <1>2 DEF Bijection, Injection, Surjection, IsInjective
<1>4. SetToSeq(S) \in [1 .. n -> S]
  BY <1>1, <1>3 DEF SetToSeq
<1> QED
  BY <1>4 DEF ToSet

(* Without the edges of lat the rank only goes up. *)
LEMMA NoOtherCycle ==
    ASSUME NEW succ, NEW e, NEW r, NEW lat, Climbing(succ, e, r, lat),
           NEW fwd, DOMAIN fwd = All(succ, e),
           \A x \in All(succ, e) : ToSet(fwd[x]) \subseteq
               {y \in ToSet(succ[x]) : x \notin DominatedBy(succ, e)[y]},
           NEW a \in All(succ, e), NEW b \in ToSet(fwd[a])
    PROVE  a \notin Reach(fwd, b, 0)
<1>1. PICK R, dom : R = All(succ, e) /\ dom = DominatedBy(succ, e)
  OBVIOUS
<1>2. /\ IsFlowGraph(succ, e) /\ IsFiniteSet(DOMAIN succ) /\ r \in [DOMAIN succ -> Nat]
      /\ \A x \in R : \A y \in ToSet(succ[x]) : IF y \in lat[x] THEN x \in dom[y] ELSE r[x] < r[y]
  BY <1>1 DEF Climbing, IsFlowGraph, IsGraph
<1>3. R \subseteq DOMAIN succ /\ \A x \in R : ToSet(succ[x]) \subseteq R
  BY <1>1, <1>2, DomValue
<1>4. \A x \in R : \A y \in ToSet(fwd[x]) : y \in R /\ r[x] < r[y]
  BY <1>1, <1>2, <1>3
<1>5. IsGraph(fwd)
  <2>1. IsFiniteSet(R)
    BY <1>2, <1>3, FS_Subset
  <2> QED
    BY <1>1, <1>4, <2>1 DEF IsGraph
<1>6. PICK U : U = {x \in R : r[a] < r[x]}
  OBVIOUS
<1>7. a \in R /\ b \in R /\ b \in U /\ a \notin U /\ \A x \in R : r[x] \in Nat
  BY <1>1, <1>2, <1>3, <1>4, <1>6
<1>8. Closed(fwd, 0, U)
  <2> SUFFICES ASSUME NEW x \in U, NEW y \in ToSet(fwd[x]) PROVE y \in U
    BY DEF Closed
  <2>1. x \in R /\ y \in R /\ r[x] < r[y] /\ r[a] < r[x]
    BY <1>4, <1>6
  <2>2. r[x] \in Nat /\ r[y] \in Nat /\ r[a] \in Nat
    BY <1>7, <2>1
  <2> QED
    BY <1>6, <2>1, <2>2
<1>9. Reach(fwd, b, 0) \subseteq U
  BY <1>1, <1>5, <1>7, <1>8, ReachLeast
<1> QED
  BY <1>7, <1>9

(* Two ways are two targets. *)
LEMMA TwoTargets ==
    ASSUME NEW S, NEW s \in Seq(S), IsInjective(s), NEW x, NEW y, x # y, ToSet(s) = {x, y}
    PROVE  Len(s) = 2
<1>1. PICK n \in Nat : n = Len(s) /\ DOMAIN s = 1 .. n
  BY LenProperties
<1>2. ToSet(s) = {s[i] : i \in 1 .. n}
  BY <1>1 DEF ToSet
<1>3. PICK i \in 1 .. n, j \in 1 .. n : s[i] = x /\ s[j] = y
  BY <1>2
<1>4. i # j /\ \A k \in 1 .. n : k = i \/ k = j
  <2> SUFFICES ASSUME NEW k \in 1 .. n PROVE k = i \/ k = j
    BY <1>3
  <2>1. s[k] = x \/ s[k] = y
    BY <1>2
  <2> QED
    BY <1>1, <1>3, <2>1 DEF IsInjective
<1>5. n >= 2
  BY <1>4
<1>6. ~(n >= 3)
  <2> SUFFICES ASSUME n >= 3 PROVE FALSE
    OBVIOUS
  <2>1. 1 \in 1 .. n /\ 2 \in 1 .. n /\ 3 \in 1 .. n
    OBVIOUS
  <2> QED
    BY <1>4, <2>1
<1> QED
  BY <1>1, <1>5, <1>6

(* The graph of a function that is complete climbs. *)
LEMMA GraphClimbs ==
    ASSUME BuilderInv, ListsInv, NEW r, Struct(r), NEW f \in Funcs, f <= built,
           NEW lat, lat = [a \in Blocks |-> {b \in Blocks : Latch(a, b)}]
    PROVE  /\ Climbing(succ_bbs, basic_blocks[f][1], r, lat)
           /\ DOMAIN succ_bbs = Blocks
           /\ \A b \in Blocks : ToSet(succ_bbs[b]) \subseteq Blocks
<1>1. PICK e : e = basic_blocks[f][1]
  OBVIOUS
<1>2. e \in BlocksOf(f) /\ e \in Created /\ e \in Blocks /\ e \in Beginnings
  <2>1. NumInv /\ basic_blocks[f] # <<>>
    BY DEF BuilderInv, Core, ListsInv
  <2>2. e \in BlocksOf(f) /\ e \in Created /\ e \in Blocks
    BY <1>1, <2>1, FirstBlock, CreatedBlocks
  <2> QED
    BY <1>1, <2>1, <2>2 DEF Beginnings
<1>3. succ_bbs \in [Blocks -> Seq(Blocks)]
  BY DEF BuilderInv, Core, GraphOK, GraphType, Graph
<1>4. IsFlowGraph(succ_bbs, e)
  <2>1. IsFiniteSet(Blocks)
    BY BuilderAssumption, FS_Interval DEF Blocks, BuilderAssumption
  <2>2. (\A b \in Blocks : ToSet(succ_bbs[b]) \subseteq Blocks) /\ 0 \notin Blocks
    BY GraphIn
  <2> QED
    BY <1>2, <1>3, <2>1, <2>2 DEF IsFlowGraph, IsGraph
<1>5. PICK R, dom : R = All(succ_bbs, e) /\ dom = DominatedBy(succ_bbs, e)
  OBVIOUS
<1>6. /\ R \subseteq Blocks
      /\ \A a \in R : ToSet(succ_bbs[a]) \subseteq R
      /\ \A a \in R : dom[a] = R \ Reach(succ_bbs, e, a)
  BY <1>3, <1>4, <1>5, DomValue
<1>7. \A a \in R : e \notin ToSet(succ_bbs[a])
  <2> SUFFICES ASSUME NEW a \in Blocks, e \in ToSet(succ_bbs[a]) PROVE FALSE
    BY <1>6
  <2>1. a \in Created
    BY GraphIn
  <2>2. PICK g \in Funcs : a \in BlocksOf(g)
    BY <2>1 DEF Created, BlocksOf
  <2>3. e \in Inner(g)
    BY <2>2 DEF BuilderInv, Core
  <2>4. g = f
    <3>1. NumInv /\ basic_blocks[g] # <<>>
      BY <2>2, CreatedBlocks DEF BuilderInv, Core
    <3>2. e \in BlocksOf(g)
      BY <2>3, <3>1, CreatedBlocks
    <3> QED
      BY <1>2, <3>1, <3>2 DEF NumInv
  <2>5. e \notin Inner(f)
    <3>1. PICK s \in Seq(Blocks) : s = basic_blocks[f] /\ s # <<>> /\ IsInjective(s)
      BY DEF BuilderInv, Core, NumInv, ListsInv
    <3>2. PICK n \in Nat : n = Len(s) /\ DOMAIN s = 1 .. n /\ n >= 1
      BY <3>1, LenProperties, EmptySeq
    <3>3. /\ Tail(s) \in Seq(Blocks) /\ Len(Tail(s)) = n - 1
          /\ \A i \in 1 .. n - 1 : Tail(s)[i] = s[i + 1]
      BY <3>1, <3>2, HeadTailProperties
    <3>4. DOMAIN Tail(s) = 1 .. n - 1
      BY <3>3, LenProperties
    <3>5. ASSUME NEW i \in 1 .. n - 1 PROVE Tail(s)[i] # s[1]
      <4>1. i + 1 \in 1 .. n /\ 1 \in 1 .. n /\ i + 1 # 1
        BY <3>2
      <4> QED
        BY <3>1, <3>2, <3>3, <4>1 DEF IsInjective
    <3>6. s[1] \notin ToSet(Tail(s))
      BY <3>4, <3>5 DEF ToSet
    <3> QED
      BY <1>1, <3>1, <3>6 DEF Inner
  <2> QED
    BY <2>3, <2>4, <2>5
<1>8. ASSUME NEW a \in R, NEW b \in ToSet(succ_bbs[a])
      PROVE  IF b \in lat[a] THEN a \in dom[b] ELSE r[a] < r[b]
  <2>1. a \in Blocks /\ b \in Blocks /\ b \in R
    BY <1>6
  <2>2. b \in lat[a] <=> Latch(a, b)
    BY <2>1
  <2>3. r[a] < r[b] \/ Latch(a, b)
    BY <2>1 DEF Struct, Edges
  <2>4. ASSUME Latch(a, b) PROVE a \in dom[b]
    <3>1. PICK S \in SUBSET Created : a \in S /\ b \in S /\ Sealed(S, b)
      BY <2>4 DEF Latch
    <3>2. e \notin S /\ \A p \in Blocks \ S : ToSet(succ_bbs[p]) \cap S \subseteq {b}
      BY <1>2, <3>1 DEF Sealed
    <3>3. Closed(succ_bbs, b, Blocks \ S)
      <4>1. \A x \in Blocks : ToSet(succ_bbs[x]) \subseteq Blocks
        BY <1>3, <1>4 DEF IsFlowGraph, IsGraph
      <4> QED
        BY <3>2, <4>1 DEF Closed
    <3>4. Reach(succ_bbs, e, b) \subseteq Blocks \ S
      BY <1>2, <1>4, <3>2, <3>3, ReachLeast DEF IsFlowGraph
    <3> QED
      BY <1>6, <2>1, <3>1, <3>4
  <2> QED
    BY <2>2, <2>3, <2>4
<1>9. r \in [DOMAIN succ_bbs -> Nat]
  BY <1>3 DEF Struct
<1> QED
  BY <1>1, <1>3, <1>4, <1>5, <1>7, <1>8, <1>9 DEF Climbing, IsFlowGraph, IsGraph

(* CyclesHaveHeaders: the code's branches back are those of while, from the *)
(* end of its body to its condition, and nothing jumps into a body.         *)
LEMMA HeadersHold == BuilderInv /\ EdgesMirror /\ ListsInv /\ Structured => CyclesHaveHeaders
<1> SUFFICES ASSUME BuilderInv, EdgesMirror, ListsInv, Structured, NEW f \in 1 .. built
             PROVE  LET dom == DominatedBy(succ_bbs, basic_blocks[f][1])
                        backward(a) == {b \in ToSet(succ_bbs[a]) : a \in dom[b]}
                        forward == [a \in DOMAIN dom |-> SetToSeq(ToSet(succ_bbs[a]) \ backward(a))]
                    IN  \A a \in DOMAIN dom :
                            /\ \A b \in ToSet(forward[a]) : a \notin Reach(forward, b, NoBlock)
                            /\ \A b \in backward(a) : Len(succ_bbs[b]) = 2
  BY DEF CyclesHaveHeaders
<1>1. PICK r : Struct(r)
  BY DEF Structured
<1>2. f \in Funcs /\ f <= built
  BY BuilderAssumption DEF BuilderInv, Core, Funcs, BuilderAssumption
<1>3. PICK e, lat : e = basic_blocks[f][1] /\ lat = [a \in Blocks |-> {b \in Blocks : Latch(a, b)}]
  OBVIOUS
<1>4. PICK succ, R, dom : succ = succ_bbs /\ R = All(succ, e) /\ dom = DominatedBy(succ, e)
  OBVIOUS
<1>5. /\ Climbing(succ, e, r, lat) /\ IsFlowGraph(succ, e) /\ DOMAIN succ = Blocks
      /\ \A b \in Blocks : ToSet(succ[b]) \subseteq Blocks
  BY <1>1, <1>2, <1>3, <1>4, GraphClimbs DEF Climbing
<1>6. DOMAIN dom = R /\ R \subseteq Blocks /\ IsFiniteSet(R) /\ \A a \in R : ToSet(succ[a]) \subseteq R
  <2>1. DOMAIN dom = R /\ R \subseteq Blocks /\ \A a \in R : ToSet(succ[a]) \subseteq R
    BY <1>4, <1>5, DomValue
  <2>2. IsFiniteSet(R)
    BY <1>5, <2>1, FS_Subset DEF IsFlowGraph, IsGraph
  <2> QED
    BY <2>1, <2>2
<1> DEFINE backward(a) == {b \in ToSet(succ[a]) : a \in dom[b]}
           forward == [a \in R |-> SetToSeq(ToSet(succ[a]) \ backward(a))]
<1>7. \A a \in R : ToSet(forward[a]) \subseteq {b \in ToSet(succ[a]) : a \notin dom[b]}
  <2> SUFFICES ASSUME NEW a \in R PROVE ToSet(forward[a]) \subseteq {b \in ToSet(succ[a]) : a \notin dom[b]}
    OBVIOUS
  <2>1. PICK S : S = ToSet(succ[a]) \ backward(a)
    OBVIOUS
  <2>2. IsFiniteSet(S)
    BY <1>6, <2>1, FS_Subset
  <2>3. forward[a] = SetToSeq(S)
    BY <2>1
  <2>4. ToSet(SetToSeq(S)) \subseteq S
    BY <2>2, ListOf
  <2> QED
    BY <2>1, <2>3, <2>4
<1>8. DOMAIN forward = R
  OBVIOUS
<1> PICK fwd : fwd = forward
  OBVIOUS
<1>9. ASSUME NEW a \in R, NEW b \in ToSet(fwd[a]) PROVE a \notin Reach(fwd, b, 0)
  <2>1. /\ DOMAIN fwd = All(succ, e)
        /\ \A x \in All(succ, e) : ToSet(fwd[x]) \subseteq
              {y \in ToSet(succ[x]) : x \notin DominatedBy(succ, e)[y]}
    BY <1>4, <1>7, <1>8
  <2> QED
    BY <1>4, <1>5, <2>1, NoOtherCycle
<1>10. ASSUME NEW a \in R, NEW b \in backward(a) PROVE Len(succ[b]) = 2
  <2>1. b \in lat[a] /\ a \in Blocks /\ b \in Blocks
    BY <1>4, <1>5, <1>6, OnlyLatches
  <2>2. Latch(a, b)
    BY <1>3, <2>1
  <2>3. PICK x, y : x # y /\ ToSet(succ[b]) = {x, y}
    BY <1>4, <2>2 DEF Latch, TwoWays
  <2>4. succ[b] \in Seq(Blocks) /\ IsInjective(succ[b])
    BY <1>4, <2>1 DEF EdgesMirror, BuilderInv, Core, GraphOK, GraphType, Graph
  <2> QED
    BY <2>3, <2>4, TwoTargets
<1> QED
  BY <1>3, <1>4, <1>6, <1>9, <1>10 DEF NoBlock

(* CyclesHaveHeaders is an invariant of the builder, for every number of    *)
(* functions and blocks and any depth of nesting ...                        *)
THEOREM HeadersOnCycles == Spec => []CyclesHaveHeaders
BY BuilderInvariance, EdgesAgree, ListsAlways, StructuredAlways, HeadersHold, PTL

(* ... and of the analysis that reads its graphs. *)
THEOREM HeadersForLoops == SpecAnalysis => []CyclesHaveHeaders
BY AnalysisReads, HeadersOnCycles, PTL
=============================================================================
