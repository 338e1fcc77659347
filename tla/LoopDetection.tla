--------------------------- MODULE LoopDetection ---------------------------
(***************************************************************************)
(* The loop detection, passes/LoopDetection.cpp.  For every function, right *)
(* after the dominator analysis of that function: the blocks in the order  *)
(* of get_dom_post_order, a loop for each that dominates a predecessor,    *)
(* and a work list that collects the blocks of the loop and takes over the *)
(* loops found before that lie inside.  A loop is named by its header.     *)
(***************************************************************************)
EXTENDS FlowGraph, Sequences

CONSTANTS
    Blocks,   \* the basic blocks of the module, positive integers
    Funcs     \* the functions, 1 .. n, in the order run() takes them

NoLoop == 0   \* a null pointer to a Loop

VARIABLES
    basic_blocks, succ_bbs, pre_bbs,   \* the graph, read only
    dom_tree_L, dom_tree_R,            \* what the analysis found, read only
    detected,      \* the functions that run_on_func has returned from
    place,         \* the place in get_dom_post_order, as a number of the tree
    loop,          \* the loop under discovery
    work_list,     \* the stack of discover_loop_and_sub_loops
    loops,         \* loops_, in the order of their discovery
    bb_to_loop,    \* bb_to_loop_
    latches,       \* Loop::latches_ of every loop
    loop_blocks,   \* Loop::blocks_
    parent,        \* Loop::parent_
    sub_loops      \* Loop::sub_loops_

loop_vars == <<detected, place, loop, work_list, loops, bb_to_loop, latches,
               loop_blocks, parent, sub_loops>>

Own(f) == ToSet(basic_blocks[f])

(* is_dominate(bb1, bb2) *)
is_dominate(bb1, bb2) ==
    dom_tree_L[bb1] <= dom_tree_L[bb2] /\ dom_tree_R[bb1] >= dom_tree_L[bb2]

-----------------------------------------------------------------------------
InitLoops ==
    /\ detected = 0
    /\ place = Cardinality(Blocks) + 1
    /\ loop = NoLoop
    /\ work_list = <<>>
    /\ loops = <<>>
    /\ bb_to_loop = [b \in Blocks |-> NoLoop]
    /\ latches = [b \in Blocks |-> {}]
    /\ loop_blocks = [b \in Blocks |-> <<>>]
    /\ parent = [b \in Blocks |-> NoLoop]
    /\ sub_loops = [b \in Blocks |-> <<>>]

(* The blocks of get_dom_post_order that are still to come: the search      *)
(* order of the dominator tree, backwards.                                  *)
upcoming == {b \in Own(detected + 1) : dom_tree_L[b] \in 1 .. place - 1}

(* The predecessors of a block that it dominates.                           *)
back_edges(b) == {p \in ToSet(pre_bbs[b]) : is_dominate(b, p)}

(* run_on_func: the next block with back edges becomes the header of a new  *)
(* loop.  The latches are a set of pointers, they enter the stack in any    *)
(* order.                                                                   *)
NewLoop(b) ==
    /\ work_list = <<>>
    /\ b \in upcoming
    /\ back_edges(b) # {}
    /\ \A c \in upcoming : back_edges(c) # {} => dom_tree_L[c] <= dom_tree_L[b]
    /\ place' = dom_tree_L[b]
    /\ loop' = b
    /\ bb_to_loop' = [bb_to_loop EXCEPT ![b] = b]
    /\ loop_blocks' = [loop_blocks EXCEPT ![b] = <<b>>]
    /\ latches' = [latches EXCEPT ![b] = back_edges(b)]
    /\ loops' = Append(loops, b)
    /\ work_list' \in SetToSeqs(back_edges(b))
    /\ UNCHANGED <<detected, parent, sub_loops>>

(* run_on_func has seen all blocks. *)
LoopsOfFuncDone ==
    /\ work_list = <<>>
    /\ \A b \in upcoming : back_edges(b) = {}
    /\ detected' = detected + 1
    /\ place' = Cardinality(Blocks) + 1
    /\ loop' = NoLoop
    /\ UNCHANGED <<work_list, loops, bb_to_loop, latches, loop_blocks, parent, sub_loops>>

-----------------------------------------------------------------------------
bb == Last(work_list)

(* discover_loop_and_sub_loops: a block of no loop yet joins this one, and  *)
(* its predecessors are looked at.                                          *)
NewBlock ==
    /\ work_list # <<>>
    /\ bb_to_loop[bb] = NoLoop
    /\ loop_blocks' = [loop_blocks EXCEPT ![loop] = Append(@, bb)]
    /\ bb_to_loop' = [bb_to_loop EXCEPT ![bb] = loop]
    /\ work_list' = Front(work_list) \o pre_bbs[bb]
    /\ UNCHANGED <<detected, place, loop, loops, latches, parent, sub_loops>>

(* The block is in this loop already. *)
OwnBlock ==
    /\ work_list # <<>>
    /\ bb_to_loop[bb] = loop
    /\ work_list' = Front(work_list)
    /\ UNCHANGED <<detected, place, loop, loops, bb_to_loop, latches, loop_blocks,
                   parent, sub_loops>>

(* The outermost loop around a loop so far. *)
outermost(l) ==
    LET up[n \in Nat] == IF n = 0 THEN l
                         ELSE LET h == up[n - 1]
                              IN  IF parent[h] = NoLoop THEN h ELSE parent[h]
    IN  up[Cardinality(Blocks)]

(* Faulty: the search ends at a sub-loop.                                   *)
no_entries(sub) == <<>>

(* Where the search goes on behind a sub-loop. *)
entries(sub) == pre_bbs[sub]

(* Faulty: the sub-loop does not learn of its parent.                       *)
SubLoopOrphan ==
    LET sub == outermost(bb_to_loop[bb])
    IN  /\ work_list # <<>>
        /\ bb_to_loop[bb] \notin {NoLoop, loop}
        /\ sub_loops' = [sub_loops EXCEPT ![loop] = Append(@, sub)]
        /\ loop_blocks' = [loop_blocks EXCEPT ![loop] = @ \o loop_blocks[sub]]
        /\ bb_to_loop' = [b \in Blocks |-> IF b \in ToSet(loop_blocks[sub])
                                           THEN loop ELSE bb_to_loop[b]]
        /\ work_list' = Front(work_list) \o entries(sub)
        /\ UNCHANGED <<detected, place, loop, loops, latches, parent>>

(* The block belongs to a loop found before: the outermost loop around it   *)
(* becomes a sub-loop of this one with all its blocks, and the search goes  *)
(* on at the predecessors of its header.                                    *)
SubLoop ==
    LET sub == outermost(bb_to_loop[bb])
    IN  /\ work_list # <<>>
        /\ bb_to_loop[bb] \notin {NoLoop, loop}
        /\ IF sub = loop
           THEN /\ work_list' = Front(work_list)
                /\ UNCHANGED <<parent, sub_loops, loop_blocks, bb_to_loop>>
           ELSE /\ parent' = [parent EXCEPT ![sub] = loop]
                /\ sub_loops' = [sub_loops EXCEPT ![loop] = Append(@, sub)]
                /\ loop_blocks' = [loop_blocks EXCEPT ![loop] = @ \o loop_blocks[sub]]
                /\ bb_to_loop' = [b \in Blocks |-> IF b \in ToSet(loop_blocks[sub])
                                                   THEN loop ELSE bb_to_loop[b]]
                /\ work_list' = Front(work_list) \o entries(sub)
        /\ UNCHANGED <<detected, place, loop, loops, latches>>

NextLoops ==
    \/ \E b \in Blocks : NewLoop(b)
    \/ LoopsOfFuncDone
    \/ NewBlock
    \/ OwnBlock
    \/ SubLoop

-----------------------------------------------------------------------------
TypeOK ==
    /\ detected \in Nat
    /\ place \in Nat
    /\ loop \in Blocks \cup {NoLoop}
    /\ work_list \in Seq(Blocks)
    /\ loops \in Seq(Blocks)
    /\ bb_to_loop \in [Blocks -> Blocks \cup {NoLoop}]
    /\ latches \in [Blocks -> SUBSET Blocks]
    /\ loop_blocks \in [Blocks -> Seq(Blocks)]
    /\ parent \in [Blocks -> Blocks \cup {NoLoop}]
    /\ sub_loops \in [Blocks -> Seq(Blocks)]

(* The loops of the graph: the headers are the targets of branches back to  *)
(* a dominating block, one loop for all branches back to a header.          *)
Headers(f) ==
    LET dom == DominatedBy(succ_bbs, basic_blocks[f][1])
    IN  {h \in DOMAIN dom : \E p \in dom[h] : h \in ToSet(succ_bbs[p])}

(* Every loop found is the natural loop of its header: the header and all   *)
(* blocks from which a branch back is reached without passing the header,   *)
(* each listed once, and its latches are the sources of these branches.     *)
(* The work list stops at a sub-loop and goes on at its header, so it is    *)
(* only right if the sub-loops were complete.                               *)
LoopsNatural ==
    \A f \in 1 .. detected :
        LET found == {l \in ToSet(loops) : l \in Own(f)}
        IN  /\ found = Headers(f)
            /\ \A h \in found :
                  /\ ToSet(loop_blocks[h]) = NaturalLoop(succ_bbs, basic_blocks[f][1], h)
                  /\ IsInjective(loop_blocks[h])
                  /\ latches[h] = ToSet(loop_blocks[h]) \cap ToSet(pre_bbs[h])

(* The sub-loops of a loop are those directly inside it, each listed once,  *)
(* the parent of a sub-loop is that loop, and loops come after the loops    *)
(* inside them: LICM moves code outwards loop by loop along these links.    *)
LoopsNested ==
    \A f \in 1 .. detected :
        LET found     == {l \in ToSet(loops) : l \in Own(f)}
            inside(h) == {g \in found \ {h} : g \in ToSet(loop_blocks[h])}
            FirstAt(h) == SelectInSeq(loops, LAMBDA l : l = h)
            direct(h) == {g \in inside(h) : \A m \in inside(h) : g \notin inside(m)}
        IN  \A h \in found :
                /\ ToSet(sub_loops[h]) = direct(h)
                /\ IsInjective(sub_loops[h])
                /\ \A g \in found : parent[g] = h <=> g \in direct(h)
                /\ \A g \in inside(h) : FirstAt(g) < FirstAt(h)
=============================================================================
