------------------------------ MODULE Analysis ------------------------------
(***************************************************************************)
(* The builder followed by the dominator analysis and the loop detection:  *)
(* the graphs that Dominators works on are those CminusfBuilder makes, as  *)
(* they are when Mem2Reg runs it; and the loops of a function are looked   *)
(* for when its dominators are known, before the next function is          *)
(* analysed.  Loops are looked for on the same graphs; in a compilation    *)
(* DeadCode has taken some unreachable blocks away from them before.       *)
(***************************************************************************)
EXTENDS CminusfBuilder

VARIABLES
    pc, func, visited, path, post_order_vec, post_order, idom, changed, cursor,
    pre, new_idom, b1, b2, dom_frontier, dom_tree_succ, dom_tree_L, dom_tree_R, order,
    detected, place, loop, work_list, loops, bb_to_loop, latches, loop_blocks,
    parent, sub_loops

D == INSTANCE Dominators
L == INSTANCE LoopDetection

dom_vars == <<pc, func, visited, path, post_order_vec, post_order, idom, changed,
              cursor, pre, new_idom, b1, b2, dom_frontier, dom_tree_succ,
              dom_tree_L, dom_tree_R, order>>
loop_vars == <<detected, place, loop, work_list, loops, bb_to_loop, latches,
               loop_blocks, parent, sub_loops>>
all_vars  == <<builder_vars, dom_vars, loop_vars>>

compiled == visiting = <<>> /\ built = MaxFuncs   \* the builder is done

InitAnalysis == Init /\ D!InitDominators /\ L!InitLoops

(* LoopDetection::run: the loops of a function after its dominators.        *)
Build   == Next /\ UNCHANGED <<dom_vars, loop_vars>>
Analyse == compiled /\ (pc = "idle" => detected = func) /\ D!NextDominators
           /\ UNCHANGED <<builder_vars, loop_vars>>
Detect  == detected + 1 = func /\ pc = "idle" /\ L!NextLoops
           /\ UNCHANGED <<builder_vars, dom_vars>>
Run     == Analyse \/ Detect

NextAnalysis == Build \/ Run

(* The compiler runs on; the program text is not obliged to.  *)
SpecAnalysis == InitAnalysis /\ [][NextAnalysis]_all_vars /\ WF_all_vars(Run)

(* The types of the state. *)
Typed == TypeOK /\ D!TypeOK /\ L!TypeOK

(* The properties of Dominators and LoopDetection, for the graphs of the    *)
(* builder.                                                                 *)
IdomCorrect           == D!IdomCorrect
DominatorsOnChain     == D!DominatorsOnChain
IdomClimbs            == D!IdomClimbs
FrontierExact         == D!FrontierExact
OrderDecidesDominance == D!OrderDecidesDominance
CrashOnlyAtDeadPred   == D!CrashOnlyAtDeadPred
LoopsNatural          == L!LoopsNatural
LoopsNested           == L!LoopsNested

(* The first function is analysed and its loops are collected: the sweeps   *)
(* reach a fixed point, the fingers of intersect and the runners meet, and  *)
(* the work lists of the loop detection run empty.                          *)
FirstFunctionEnds == func = 1 /\ pc = "dfs" ~> pc = "crash" \/ detected = 1
=============================================================================
