----------------------------- MODULE Dominators -----------------------------
(***************************************************************************)
(* The dominator analysis, passes/Dominators.cpp: for every function of a  *)
(* module a depth-first post order, the iterative computation of immediate *)
(* dominators over it, the dominance frontiers, the dominator tree and its *)
(* interval numbering.  One Dominators object analyses all functions, so   *)
(* what run_on_func leaves behind is there when it is called again.        *)
(*                                                                         *)
(* The graph is read only.  Every turn of a loop that follows pointers is  *)
(* a step, because whether those loops end is in question.                 *)
(***************************************************************************)
EXTENDS FlowGraph, Sequences

CONSTANTS
    Blocks,   \* the basic blocks of the module, positive integers
    Funcs     \* the functions, 1 .. n, in the order run() takes them

NoBlock == 0   \* nullptr

VARIABLES
    basic_blocks,      \* the blocks of every function, its entry first
    succ_bbs,          \* successors and ...
    pre_bbs,           \* ... predecessors of every block, in list order
    pc,                \* the part of run_on_func that is running
    func,              \* the function under analysis
    visited,           \* blocks the running depth-first search has entered
    path,              \* the activations of that search, innermost last
    post_order_vec,    \* post_order_vec_
    post_order,        \* post_order_: a block's place in it, 0 if it has none
    idom,              \* idom_
    changed,           \* the flag of create_idom
    cursor,            \* the block iterator of the running loop
    pre,               \* its predecessor iterator
    new_idom,          \* the candidate of create_idom
    b1, b2,            \* the two fingers of intersect; b1 is also the runner
    dom_frontier,      \* dom_frontier_
    dom_tree_succ,     \* dom_tree_succ_blocks_
    dom_tree_L,        \* dom_tree_L_
    dom_tree_R,        \* dom_tree_R_
    order              \* the clock of create_dom_dfs_order

cfg_vars    == <<basic_blocks, succ_bbs, pre_bbs>>
search_vars == <<visited, path>>
po_vars     == <<post_order_vec, post_order>>
local_vars  == <<pre, new_idom, b1, b2>>
tree_vars   == <<dom_tree_succ, dom_tree_L, dom_tree_R, order>>
dom_vars    == <<pc, func, search_vars, po_vars, idom, changed, cursor, local_vars,
                 dom_frontier, tree_vars>>
vars        == <<cfg_vars, dom_vars>>

Own(f)   == ToSet(basic_blocks[f])
entry(f) == basic_blocks[f][1]
last     == path[Len(path)]
locals   == pre' = 1 /\ new_idom' = NoBlock /\ b1' = NoBlock /\ b2' = NoBlock

-----------------------------------------------------------------------------
InitDominators ==
    /\ pc = "idle" /\ func = 0
    /\ visited = {} /\ path = <<>>
    /\ post_order_vec = <<>> /\ post_order = [b \in Blocks |-> 0]
    /\ idom = [b \in Blocks |-> NoBlock]
    /\ changed = FALSE /\ cursor = 0
    /\ pre = 1 /\ new_idom = NoBlock /\ b1 = NoBlock /\ b2 = NoBlock
    /\ dom_frontier = [b \in Blocks |-> {}]
    /\ dom_tree_succ = [b \in Blocks |-> {}]
    /\ dom_tree_L = [b \in Blocks |-> 0] /\ dom_tree_R = [b \in Blocks |-> 0]
    /\ order = 0

(* run_on_func: the maps get an entry for every block (map::insert leaves   *)
(* an old one alone), post_order_vec_ and post_order_ stay as they are, and *)
(* the search enters the entry block.                                       *)
RunOnFunc ==
    /\ pc = "idle"
    /\ func + 1 \in Funcs
    /\ func' = func + 1
    /\ visited' = {entry(func + 1)}
    /\ path' = <<entry(func + 1)>>
    /\ pc' = "dfs"
    /\ UNCHANGED <<po_vars, idom, changed, cursor, local_vars, dom_frontier, tree_vars>>

(* dfs: enter the first successor not visited yet. *)
DfsEnter ==
    /\ pc = "dfs"
    /\ path # <<>>
    /\ \E i \in DOMAIN succ_bbs[last] :
          /\ succ_bbs[last][i] \notin visited
          /\ \A j \in 1 .. i - 1 : succ_bbs[last][j] \in visited
          /\ visited' = visited \cup {succ_bbs[last][i]}
          /\ path' = Append(path, succ_bbs[last][i])
    /\ UNCHANGED <<pc, func, po_vars, idom, changed, cursor, local_vars,
                   dom_frontier, tree_vars>>

(* Faulty: numbered by the depth of the search. *)
depth_number == Len(path)

(* post_order_.size(), counted from 1 here. *)
next_number == Len(post_order_vec) + 1

(* dfs: all successors are visited, the block takes the next number. *)
DfsLeave ==
    /\ pc = "dfs"
    /\ path # <<>>
    /\ ToSet(succ_bbs[last]) \subseteq visited
    /\ post_order_vec' = Append(post_order_vec, last)
    /\ post_order' = [post_order EXCEPT ![last] = next_number]
    /\ path' = SubSeq(path, 1, Len(path) - 1)
    /\ UNCHANGED <<pc, func, visited, idom, changed, cursor, local_vars,
                   dom_frontier, tree_vars>>

-----------------------------------------------------------------------------
(* Faulty: the entry is taken off the end twice. *)
rbegin_late == Len(post_order_vec) - 2

(* post_order_vec_.rbegin() *)
rbegin == Len(post_order_vec)

(* create_idom: all blocks of the function unknown, the entry its own       *)
(* dominator; then sweep over post_order_vec_ from its end.                 *)
CreateIdom ==
    /\ pc = "dfs"
    /\ path = <<>>
    /\ idom' = [b \in Blocks |-> IF b = entry(func) THEN b
                                 ELSE IF b \in Own(func) THEN NoBlock ELSE idom[b]]
    /\ changed' = FALSE
    /\ cursor' = rbegin
    /\ pc' = "sweep"
    /\ UNCHANGED <<func, search_vars, po_vars, local_vars, dom_frontier, tree_vars>>

(* One block of the sweep: the entry is skipped. *)
SweepBlock ==
    /\ pc = "sweep"
    /\ cursor > 0
    /\ IF post_order_vec[cursor] = entry(func)
       THEN cursor' = cursor - 1 /\ UNCHANGED pc
       ELSE pc' = "preds" /\ UNCHANGED cursor
    /\ UNCHANGED <<func, search_vars, po_vars, idom, changed, local_vars,
                   dom_frontier, tree_vars>>

(* The sweep is repeated until it changes nothing. *)
SweepEnd ==
    /\ pc = "sweep"
    /\ cursor = 0
    /\ IF changed
       THEN changed' = FALSE /\ cursor' = rbegin /\ UNCHANGED pc
       ELSE pc' = "frontier" /\ cursor' = 1 /\ UNCHANGED changed
    /\ UNCHANGED <<func, search_vars, po_vars, idom, local_vars, dom_frontier, tree_vars>>

(* Faulty: a predecessor counts before it has an idom. *)
any_pred(p) == TRUE

(* get_idom(pre_bb) != nullptr *)
processed(p) == idom[p] # NoBlock

(* A predecessor that has an idom: the first one is the candidate, any      *)
(* later one is intersected with it.                                        *)
NextPred ==
    LET bb == post_order_vec[cursor]
        p  == pre_bbs[bb][pre]
    IN  /\ pc = "preds"
        /\ pre <= Len(pre_bbs[bb])
        /\ \/ /\ ~processed(p)
              /\ pre' = pre + 1
              /\ UNCHANGED <<pc, new_idom, b1, b2>>
           \/ /\ processed(p) /\ new_idom = NoBlock
              /\ new_idom' = p
              /\ pre' = pre + 1
              /\ UNCHANGED <<pc, b1, b2>>
           \/ /\ processed(p) /\ new_idom # NoBlock
              /\ b1' = new_idom
              /\ b2' = p
              /\ pc' = "intersect"
              /\ UNCHANGED <<pre, new_idom>>
        /\ UNCHANGED <<func, search_vars, po_vars, idom, changed, cursor,
                       dom_frontier, tree_vars>>

(* All predecessors are seen: the candidate becomes the idom. *)
SetIdom ==
    LET bb == post_order_vec[cursor]
    IN  /\ pc = "preds"
        /\ pre > Len(pre_bbs[bb])
        /\ idom' = [idom EXCEPT ![bb] = new_idom]
        /\ changed' = (changed \/ idom[bb] # new_idom)
        /\ cursor' = cursor - 1
        /\ pc' = "sweep"
        /\ locals
        /\ UNCHANGED <<func, search_vars, po_vars, dom_frontier, tree_vars>>

(* Faulty: the finger with the larger number climbs. *)
below_reversed(x, y) == post_order[x] > post_order[y]

(* get_post_order(x) < get_post_order(y) *)
below(x, y) == post_order[x] < post_order[y]

(* intersect: the finger with the smaller number climbs.  nullptr has no    *)
(* number: post_order_.at throws.                                           *)
Intersect ==
    /\ pc = "intersect"
    /\ b1 # b2
    /\ IF NoBlock \in {b1, b2}
       THEN pc' = "crash" /\ UNCHANGED <<b1, b2>>
       ELSE IF below(b1, b2)
            THEN b1' = idom[b1] /\ UNCHANGED <<pc, b2>>
            ELSE b2' = idom[b2] /\ UNCHANGED <<pc, b1>>
    /\ UNCHANGED <<func, search_vars, po_vars, idom, changed, cursor, pre, new_idom,
                   dom_frontier, tree_vars>>

(* Faulty: the fingers have met and climb once more. *)
IntersectEndAbove ==
    /\ pc = "intersect"
    /\ b1 = b2
    /\ new_idom' = idom[b1]
    /\ pre' = pre + 1
    /\ b1' = NoBlock /\ b2' = NoBlock
    /\ pc' = "preds"
    /\ UNCHANGED <<func, search_vars, po_vars, idom, changed, cursor,
                   dom_frontier, tree_vars>>

(* The fingers have met. *)
IntersectEnd ==
    /\ pc = "intersect"
    /\ b1 = b2
    /\ new_idom' = b1
    /\ pre' = pre + 1
    /\ b1' = NoBlock /\ b2' = NoBlock
    /\ pc' = "preds"
    /\ UNCHANGED <<func, search_vars, po_vars, idom, changed, cursor,
                   dom_frontier, tree_vars>>

-----------------------------------------------------------------------------
(* Faulty: the last predecessor is left out. *)
joins_but_last(bb) == Len(pre_bbs[bb]) > 1 /\ pre < Len(pre_bbs[bb])

(* A block with several predecessors of which some are left. *)
joins(bb) == Len(pre_bbs[bb]) > 1 /\ pre <= Len(pre_bbs[bb])

(* create_dominance_frontier: only blocks with several predecessors; from   *)
(* each predecessor a runner climbs to the idom of the block.               *)
FrontierBlock ==
    LET bbs == basic_blocks[func]
        bb  == bbs[cursor]
    IN  /\ pc = "frontier"
        /\ cursor <= Len(bbs)
        /\ IF joins(bb)
           THEN /\ b1' = pre_bbs[bb][pre]
                /\ pc' = "runner"
                /\ UNCHANGED <<cursor, pre>>
           ELSE /\ cursor' = cursor + 1
                /\ pre' = 1
                /\ UNCHANGED <<pc, b1>>
        /\ UNCHANGED <<func, search_vars, po_vars, idom, changed, new_idom, b2,
                       dom_frontier, tree_vars>>

(* One turn of the runner.  When it has climbed to nullptr, idom_.at throws. *)
Runner ==
    LET bb == basic_blocks[func][cursor]
    IN  /\ pc = "runner"
        /\ IF b1 = idom[bb]
           THEN /\ pc' = "frontier"
                /\ pre' = pre + 1
                /\ b1' = NoBlock
                /\ UNCHANGED dom_frontier
           ELSE IF b1 = NoBlock
           THEN pc' = "crash" /\ UNCHANGED <<pre, b1, dom_frontier>>
           ELSE /\ dom_frontier' = [dom_frontier EXCEPT ![b1] = @ \cup {bb}]
                /\ b1' = idom[b1]
                /\ UNCHANGED <<pc, pre>>
        /\ UNCHANGED <<func, search_vars, po_vars, idom, changed, cursor, new_idom, b2,
                       tree_vars>>

(* create_dom_tree_succ, and the first call of the search that numbers the  *)
(* tree: create_dom_dfs_order.                                              *)
CreateDomTree ==
    /\ pc = "frontier"
    /\ cursor > Len(basic_blocks[func])
    /\ dom_tree_succ' = [b \in Blocks |-> dom_tree_succ[b] \cup
           {c \in Own(func) \ {entry(func)} : idom[c] = b}]
    /\ visited' = {entry(func)}
    /\ path' = <<entry(func)>>
    /\ order' = 1
    /\ dom_tree_L' = [dom_tree_L EXCEPT ![entry(func)] = 1]
    /\ pc' = "order"
    /\ UNCHANGED <<func, po_vars, idom, changed, cursor, local_vars, dom_frontier,
                   dom_tree_R>>

(* The children are kept in a set of pointers: they come in any order. *)
OrderEnter(c) ==
    /\ pc = "order"
    /\ path # <<>>
    /\ c \in dom_tree_succ[last] \ visited
    /\ visited' = visited \cup {c}
    /\ path' = Append(path, c)
    /\ order' = order + 1
    /\ dom_tree_L' = [dom_tree_L EXCEPT ![c] = order + 1]
    /\ UNCHANGED <<pc, func, po_vars, idom, changed, cursor, local_vars, dom_frontier,
                   dom_tree_succ, dom_tree_R>>

(* Faulty: R is the number of the block, not of its last descendant. *)
number_at_entry == dom_tree_L[last]

(* The clock when the subtree is done. *)
number_at_exit == order

OrderLeave ==
    /\ pc = "order"
    /\ path # <<>>
    /\ dom_tree_succ[last] \subseteq visited
    /\ dom_tree_R' = [dom_tree_R EXCEPT ![last] = number_at_exit]
    /\ path' = SubSeq(path, 1, Len(path) - 1)
    /\ UNCHANGED <<pc, func, visited, po_vars, idom, changed, cursor, local_vars,
                   dom_frontier, dom_tree_succ, dom_tree_L, order>>

(* run_on_func returns; what later calls do not read is forgotten. *)
FuncDone ==
    /\ pc = "order"
    /\ path = <<>>
    /\ pc' = "idle"
    /\ cursor' = 0
    /\ visited' = {}
    /\ UNCHANGED <<func, path, po_vars, idom, changed, local_vars, dom_frontier, tree_vars>>

-----------------------------------------------------------------------------
NextDominators ==
    \/ RunOnFunc
    \/ DfsEnter
    \/ DfsLeave
    \/ CreateIdom
    \/ SweepBlock
    \/ SweepEnd
    \/ NextPred
    \/ SetIdom
    \/ Intersect
    \/ IntersectEnd
    \/ FrontierBlock
    \/ Runner
    \/ CreateDomTree
    \/ \E c \in Blocks : OrderEnter(c)
    \/ OrderLeave
    \/ FuncDone

-----------------------------------------------------------------------------
(* What the analysis should find: dom[a] is all that a dominates.           *)
Dom(f) == DominatedBy(succ_bbs, entry(f))

(* is_dominate(bb1, bb2) *)
is_dominate(bb1, bb2) ==
    dom_tree_L[bb1] <= dom_tree_L[bb2] /\ dom_tree_R[bb1] >= dom_tree_L[bb2]

(* A block and what its idom links lead to. *)
Chain(b) ==
    LET up[n \in Nat] ==
            IF n = 0 THEN {b}
            ELSE LET near == up[n - 1]
                 IN  near \cup {idom[x] : x \in near \ {NoBlock}}
    IN  up[Cardinality(Blocks)] \ {NoBlock}

Sweeping  == pc \in {"sweep", "preds", "intersect"}
IdomDone  == pc \in {"frontier", "runner", "order", "idle"} /\ func # 0
FrontiersOf == {f \in Funcs : f < func \/ (f = func /\ pc \in {"order", "idle"})}
OrdersOf    == {f \in Funcs : f < func \/ (f = func /\ pc = "idle")}

(* The types of the state. *)
Phases == {"idle", "dfs", "sweep", "preds", "intersect", "frontier", "runner",
           "order", "crash"}
Maybe  == Blocks \cup {NoBlock}

TypeOK ==
    /\ pc \in Phases /\ func \in Funcs \cup {0}
    /\ visited \subseteq Blocks /\ path \in Seq(Blocks)
    /\ post_order_vec \in Seq(Blocks) /\ post_order \in [Blocks -> Nat]
    /\ idom \in [Blocks -> Maybe]
    /\ changed \in BOOLEAN /\ cursor \in Nat /\ pre \in Nat \ {0}
    /\ new_idom \in Maybe /\ b1 \in Maybe /\ b2 \in Maybe
    /\ dom_frontier \in [Blocks -> SUBSET Blocks]
    /\ dom_tree_succ \in [Blocks -> SUBSET Blocks]
    /\ dom_tree_L \in [Blocks -> Nat] /\ dom_tree_R \in [Blocks -> Nat]
    /\ order \in Nat

(* When create_idom ends, the idom of every block of the function is its    *)
(* immediate dominator: it strictly dominates the block, and whatever else  *)
(* does dominates it.  Blocks out of reach have none.                       *)
IdomCorrect ==
    IdomDone =>
        LET dom == Dom(func)
        IN  \A b \in Own(func) \ {entry(func)} :
                LET strict == {a \in DOMAIN dom \ {b} : b \in dom[a]}
                IN  IF b \notin DOMAIN dom THEN idom[b] = NoBlock
                    ELSE /\ idom[b] \in strict
                         /\ \A a \in strict : idom[b] \in dom[a]

(* While the sweeps run the links are an approximation from above: a true   *)
(* dominator of a block is on its chain from its first idom on, so a later  *)
(* sweep only ever has to drop candidates.                                  *)
DominatorsOnChain ==
    Sweeping =>
        LET dom == Dom(func)
        IN  \A b \in DOMAIN dom : idom[b] # NoBlock =>
                {a \in DOMAIN dom : b \in dom[a]} \subseteq Chain(b)

(* What makes intersect end: within the function under analysis every step  *)
(* from a block to its idom goes to a larger post order number.             *)
IdomClimbs ==
    (Sweeping \/ IdomDone) =>
        \A b \in Own(func) \ {entry(func)} :
            idom[b] # NoBlock => post_order[idom[b]] > post_order[b]

(* The dominance frontiers of the functions analysed so far are exact, and  *)
(* stay so while later functions are analysed: Mem2Reg places the phis of   *)
(* all functions by them.                                                   *)
FrontierExact ==
    \A f \in FrontiersOf :
        LET dom == Dom(f)
        IN  \A a \in DOMAIN dom : dom_frontier[a] = Frontier(succ_bbs, dom, a)

(* The interval numbers decide dominance, whatever order the children were  *)
(* visited in, and also after later functions reused the numbers.           *)
OrderDecidesDominance ==
    \A f \in OrdersOf :
        LET dom == Dom(f)
        IN  \A a, b \in DOMAIN dom : is_dominate(a, b) <=> b \in dom[a]

(* The only null dereference is the runner's: intersect never reaches       *)
(* nullptr, not even among the blocks of earlier functions that it sweeps   *)
(* again, and the runner does only when it started from a predecessor that  *)
(* the entry does not reach.                                                *)
CrashOnlyAtDeadPred ==
    pc = "crash" =>
        LET dom == Dom(func)
            bb  == basic_blocks[func][cursor]
        IN  /\ new_idom = NoBlock
            /\ bb \in DOMAIN dom
            /\ pre_bbs[bb][pre] \notin DOMAIN dom

(* The search of every function is followed by a complete analysis, as the *)
(* comments of run_on_func and create_idom promise.                         *)
AnalysisEnds == pc = "dfs" ~> pc \in {"idle", "crash"}
=============================================================================
