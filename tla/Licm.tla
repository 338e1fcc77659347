-------------------------------- MODULE Licm --------------------------------
(***************************************************************************)
(* Loop invariant code motion, passes/LICM.cpp, on one function, and the    *)
(* execution of the function before and after it side by side.             *)
(*                                                                         *)
(* The loops are those LoopDetection finds (LoopDetection.tla), a loop is   *)
(* named by its header.  An instruction is a number; its operation says     *)
(* what the pass asks about it: load and store name the global variable or *)
(* array they touch, a call is pure or not.  Terminators are kept apart.    *)
(***************************************************************************)
EXTENDS FlowGraph, Sequences, Integers

CONSTANTS
    Programs,   \* functions: [graph, code, inst, term], see Function
    Cells,      \* global variables
    Modulus     \* bound: values are 0 .. Modulus - 1

NoBlock == 0
NoLoop  == 0
Zero    == 0            \* the literal operand 0; instructions are 1, 2, ...

Headers(graph) ==
    LET dom == DominatedBy(graph, 1)
    IN  {h \in DOMAIN dom : \E p \in dom[h] : h \in ToSet(graph[p])}

targets(t) == IF t.op # "br" THEN <<>>
              ELSE IF Len(t.args) = 1 THEN t.args ELSE Tail(t.args)

(* A function: all blocks can be reached, an instruction is in one place,   *)
(* and the edges are those of the terminators.                              *)
Laid(p) ==
    LET blks == 1 .. Len(p.graph)
    IN  /\ p.graph \in Seq(Seq(blks)) /\ p.graph # <<>> /\ blks = Reach(p.graph, 1, 0)
        /\ p.code \in Seq(Seq(DOMAIN p.inst)) /\ Len(p.code) = Len(p.graph)
        /\ \A b, c \in blks : \A j \in DOMAIN p.code[b], k \in DOMAIN p.code[c] :
              p.code[b][j] = p.code[c][k] => b = c /\ j = k

Instructions(p) ==
    LET vals == {Zero} \cup DOMAIN p.inst
    IN  /\ DOMAIN p.inst = 1 .. Len(p.inst)
        /\ DOMAIN p.inst = UNION {ToSet(p.code[b]) : b \in DOMAIN p.graph}
        /\ \A ins \in ToSet(p.inst) :
              /\ ins \in [op : {"phi", "load", "store", "plain", "pure", "impure"},
                         args : {ins.args}, cell : Cells]
              /\ ins.args \in IF ins.op = "phi" THEN Seq(vals \X DOMAIN p.graph) ELSE Seq(vals)

Branches(p) ==
    /\ p.term \in Seq([op : {"br", "ret"}, args : Seq(Nat)]) /\ Len(p.term) = Len(p.graph)
    /\ \A b \in DOMAIN p.graph :
          /\ p.graph[b] = targets(p.term[b]) /\ IsInjective(p.graph[b])
          /\ Len(p.term[b].args) \in {1, 3}
          /\ p.term[b].op = "ret" => Len(p.term[b].args) = 1

IsFunction(p) == Laid(p) /\ Instructions(p) /\ Branches(p)

(* visit(ASTIterationStmt): a loop is entered by one branch, from a block    *)
(* that leads nowhere else.                                                 *)
EnteredOnce(graph) ==
    \A h \in Headers(graph) : \E e \in DOMAIN graph :
        /\ graph[e] = <<h>> /\ e \notin DominatedBy(graph, 1)[h]
        /\ \A b \in DOMAIN graph \ {e} : h \in ToSet(graph[b]) => b \in DominatedBy(graph, 1)[h]

(* Static single assignment, the promise of Mem2Reg: a phi has one pair for *)
(* each predecessor, and what computes an operand comes before its use on   *)
(* every path.                                                              *)
SingleAssignment(p) ==
    LET dom       == DominatedBy(p.graph, 1)
        at(v, b)  == v = Zero \/ \E a \in DOMAIN dom : v \in ToSet(p.code[a]) /\ b \in dom[a]
        earlier(v, b, k) == at(v, b) /\ \A j \in k .. Len(p.code[b]) : p.code[b][j] # v
    IN  \A b \in DOMAIN p.graph :
            /\ \A k \in DOMAIN p.code[b] :
                  LET ins == p.inst[p.code[b][k]]
                  IN  IF ins.op = "phi"
                      THEN /\ {a[2] : a \in ToSet(ins.args)} = {a \in DOMAIN p.graph : b \in ToSet(p.graph[a])}
                           /\ \A i, j \in DOMAIN ins.args : ins.args[i][2] = ins.args[j][2] => i = j
                           /\ \A a \in ToSet(ins.args) : at(a[1], a[2])
                      ELSE \A v \in ToSet(ins.args) : earlier(v, b, k)
            /\ Len(p.term[b].args) # 1 \/ p.term[b].op = "ret" => at(p.term[b].args[1], b)

(* No block of a loop stores what a load of that loop reads.                *)
Quiet(p) ==
    \A h \in Headers(p.graph) :
        LET all == {p.inst[i] : i \in UNION {ToSet(p.code[b]) : b \in NaturalLoop(p.graph, 1, h)}}
        IN  \A s, r \in all : s.op = "store" /\ r.op = "load" => s.cell # r.cell

ASSUME LicmAssumption ==
    /\ Modulus \in Nat /\ IsFiniteSet(Cells) /\ Cardinality(Cells) <= Modulus
    /\ \A p \in Programs : IsFunction(p) /\ EnteredOnce(p.graph) /\ SingleAssignment(p)

(* Without the elements of a set. *)
without(s, S) ==
    LET kept[k \in 0 .. Len(s)] ==
            IF k = 0 THEN <<>>
            ELSE IF s[k] \in S THEN kept[k - 1] ELSE Append(kept[k - 1], s[k])
    IN  kept[Len(s)]

VARIABLES
    original,       \* the function as the earlier passes leave it
    code,           \* the instructions of every block
    inst,           \* the instructions, phis with their pairs
    term,           \* the terminator of every block, ret or br with its operands
    succ_bbs,       \* BasicBlock::succ_bbs_
    pre_bbs,        \* BasicBlock::pre_bbs_
    blocks,         \* Loop::blocks_ of every loop
    preheader,      \* Loop::preheader_
    is_loop_done,   \* the loops with is_loop_done_
    loop,           \* the loop of the running run_on_loop
    loop_invariant, \* its instructions found invariant, in order
    phase,          \* what runs: traverse, mark, rewire, move, execute
    before, after   \* the execution of the original and of the new function

ir_vars   == <<code, inst, term, succ_bbs, pre_bbs>>
loop_vars == <<blocks, preheader, is_loop_done, loop, loop_invariant>>
vars      == <<original, ir_vars, loop_vars, phase, before, after>>

Count  == Len(original.graph)      \* blocks of the function, without preheaders
Loops  == DOMAIN blocks

(* Facts of LoopDetection: Loop::latches_, the loops inside a loop, itself  *)
(* included, and Loop::parent_.                                             *)
latches(h) ==
    {p \in blocks[h] \cap DOMAIN original.graph : h \in ToSet(original.graph[p])}

inner(h) == {l \in Loops : l \in blocks[h]}

parent(h) ==
    LET around == {l \in Loops \ {h} : h \in inner(l)}
    IN  IF around = {} THEN NoLoop
        ELSE CHOOSE l \in around : \A m \in around : l \in inner(m)

-----------------------------------------------------------------------------
(* The execution of a block.                                                *)
value(env, v) == IF v = Zero THEN 0 ELSE env[v]

(* The phis of a block take their values at once, by the block control      *)
(* comes from.                                                              *)
Phis(ins, body, env, from) ==
    [i \in DOMAIN env |->
        LET pairs == IF i \in ToSet(body) /\ ins[i].op = "phi"
                     THEN {a \in ToSet(ins[i].args) : a[2] = from} ELSE {}
        IN  IF pairs = {} THEN env[i] ELSE value(env, (CHOOSE a \in pairs : TRUE)[1])]

total(arg) == FoldLeft(LAMBDA s, x : s + x, 1, arg)

(* One instruction: a call that is not pure changes every global variable;  *)
(* a pure one, as FuncInfo finds it, does not even read one.                *)
Execute(ins, m, i) ==
    LET op  == ins[i].op
        arg == [k \in DOMAIN ins[i].args |-> IF op = "phi" THEN 0 ELSE value(m.env, ins[i].args[k])]
    IN  CASE op = "load"   -> [m EXCEPT !.env[i] = m.mem[ins[i].cell]]
          [] op = "store"  -> [m EXCEPT !.mem[ins[i].cell] = arg[1]]
          [] op \in {"plain", "pure"} -> [m EXCEPT !.env[i] = total(arg) % Modulus]
          [] op = "impure" -> [m EXCEPT !.mem = [c \in Cells |-> (@[c] + 1) % Modulus]]
          [] OTHER         -> m

Run(ins, body, m) ==
    LET run[k \in 0 .. Len(body)] ==
            IF k = 0 THEN m ELSE Execute(ins, run[k - 1], body[k])
    IN  run[Len(body)]

(* A machine stands before block at; it executes the block and knows what   *)
(* the terminator was given: the condition or the result.                   *)
Executed(ins, body, last, m) ==
    LET entered == [m EXCEPT !.env = Phis(ins, body, m.env, m.from)]
        left    == Run(ins, body, entered)
    IN  [left EXCEPT !.given = IF Len(last.args) # 1 \/ last.op = "ret"
                               THEN value(left.env, last.args[1]) ELSE 0]

(* Before the call: the global variables differ from one another.           *)
Machine(ins) == [at |-> 1, from |-> NoBlock, env |-> [i \in DOMAIN ins |-> 0],
                 mem |-> CHOOSE f \in [Cells -> 0 .. Modulus - 1] : IsInjective(f), given |-> 0]
-----------------------------------------------------------------------------
(* The lists of edges, one entry per edge, in the order of the blocks.      *)
Preds(graph, b) ==
    without([a \in DOMAIN graph |-> a], {a \in DOMAIN graph : b \notin ToSet(graph[a])})

Init ==
    /\ original \in Programs
    /\ code = original.code /\ inst = original.inst /\ term = original.term
    /\ succ_bbs = original.graph
    /\ pre_bbs = [b \in DOMAIN original.graph |-> Preds(original.graph, b)]
    /\ blocks = [h \in Headers(original.graph) |-> NaturalLoop(original.graph, 1, h)]
    /\ preheader = [h \in Loops |-> NoBlock]
    /\ is_loop_done = {}
    /\ loop = NoLoop
    /\ loop_invariant = <<>>
    /\ phase = "traverse"
    /\ before = Machine(inst) /\ after = Machine(inst)

(* traverse_loop: the sub-loops of a loop come first. *)
TraverseLoop(h) ==
    /\ phase = "traverse"
    /\ h \notin is_loop_done
    /\ inner(h) \ {h} \subseteq is_loop_done
    /\ is_loop_done' = is_loop_done \cup {h}
    /\ loop' = h
    /\ phase' = "mark"
    /\ UNCHANGED <<original, ir_vars, blocks, preheader, loop_invariant, before, after>>

(* collect_loop_info: the instructions of the loop and of its sub-loops.    *)
loop_instructions ==
    UNION {ToSet(code[b]) : b \in UNION {blocks[l] : l \in inner(loop)}}

contains_impure_call == \E i \in loop_instructions : inst[i].op = "impure"

(* Faulty: a phi counts as if it were computed outside of the loop.         *)
op_are_invariant_phi(i) ==
    \A v \in ToSet(inst[i].args) \cap loop_instructions :
        v \in ToSet(loop_invariant) \/ inst[v].op = "phi"

(* No operand is computed in the loop, but by an instruction found before.  *)
op_are_invariant(i) ==
    ToSet(inst[i].args) \cap loop_instructions \subseteq ToSet(loop_invariant)

(* The instructions that run_on_loop takes for invariant.  A load counts    *)
(* whatever the loop stores: updated_global is filled and never read.       *)
invariant(i) ==
    /\ inst[i].op \notin {"store", "phi"}
    /\ ~contains_impure_call
    /\ op_are_invariant(i)

(* run_on_loop: the instructions are in a set of pointers and are gone      *)
(* through until a round finds nothing new; so they are found in any order. *)
Mark(i) ==
    /\ phase = "mark"
    /\ i \in loop_instructions \ ToSet(loop_invariant)
    /\ invariant(i)
    /\ loop_invariant' = Append(loop_invariant, i)
    /\ UNCHANGED <<original, ir_vars, blocks, preheader, is_loop_done, loop, phase, before, after>>

(* The rounds are over.  A block for the preheader is created in any case,  *)
(* unless there is one, and used if there is something to move.             *)
Marked ==
    /\ phase = "mark"
    /\ \A i \in loop_instructions \ ToSet(loop_invariant) : ~invariant(i)
    /\ phase' = IF loop_invariant = <<>> THEN "traverse" ELSE "rewire"
    /\ IF preheader[loop] # NoBlock
       THEN UNCHANGED <<code, term, succ_bbs, pre_bbs, preheader>>
       ELSE /\ preheader' = [preheader EXCEPT ![loop] = Len(succ_bbs) + 1]
            /\ code' = Append(code, <<>>)
            /\ term' = Append(term, [op |-> "none", args |-> <<>>])
            /\ succ_bbs' = Append(succ_bbs, <<>>)
            /\ pre_bbs' = Append(pre_bbs, <<>>)
    /\ UNCHANGED <<original, inst, blocks, is_loop_done, loop, loop_invariant, before, after>>

(* Faulty: the phi keeps the block it had.                                  *)
retargeted_not(i) == inst[i].args

(* The pairs of a phi of the header: the first one that is not of a latch   *)
(* goes to the end, with the preheader for its block.                       *)
retargeted(i) ==
    LET pairs == inst[i].args
        outer == {k \in DOMAIN pairs : pairs[k][2] \notin latches(loop)}
    IN  IF outer = {} THEN pairs
        ELSE Append(RemoveAt(pairs, Min(outer)), <<pairs[Min(outer)][1], preheader[loop]>>)

(* The predecessors of the header but the latches now lead to the           *)
(* preheader: the lists are edited by hand, and operand 0 of their branch   *)
(* is overwritten.                                                          *)
Rewire ==
    LET p     == preheader[loop]
        outer == without(pre_bbs[loop], latches(loop))
    IN  /\ phase = "rewire"
        /\ inst' = [i \in DOMAIN inst |->
               IF i \in ToSet(code[loop]) /\ inst[i].op = "phi"
               THEN [inst[i] EXCEPT !.args = retargeted(i)] ELSE inst[i]]
        /\ succ_bbs' = [b \in DOMAIN succ_bbs |->
               CASE b = p            -> <<loop>>
                 [] b \in ToSet(outer) -> Append(without(succ_bbs[b], {loop}), p)
                 [] OTHER            -> succ_bbs[b]]
        /\ pre_bbs' = [pre_bbs EXCEPT ![p] = outer,
               ![loop] = without(pre_bbs[loop], ToSet(outer))]
        /\ term' = [b \in DOMAIN term |->
               IF b \in ToSet(outer) /\ term[b].op = "br"
               THEN [term[b] EXCEPT !.args[1] = p] ELSE term[b]]
        /\ phase' = "move"
        /\ UNCHANGED <<original, code, loop_vars, before, after>>

(* Faulty: the loop around does not learn of the preheader.                 *)
parent_blocks_kept == blocks

(* The preheader becomes a block of the loop directly around. *)
parent_blocks ==
    LET q == parent(loop)
    IN  IF q = NoLoop THEN blocks ELSE [blocks EXCEPT ![q] = @ \cup {preheader[loop]}]

(* The instructions move to the preheader in the order they were found, and *)
(* its branch to the header is created, which adds the edge once more.      *)
Move ==
    LET p == preheader[loop]
    IN  /\ phase = "move"
        /\ code' = [b \in DOMAIN code |->
               IF b = p THEN code[p] \o loop_invariant
               ELSE without(code[b], ToSet(loop_invariant))]
        /\ term' = [term EXCEPT ![p] = [op |-> "br", args |-> <<loop>>]]
        /\ succ_bbs' = [succ_bbs EXCEPT ![p] = Append(@, loop)]
        /\ pre_bbs' = [pre_bbs EXCEPT ![loop] = Append(@, p)]
        /\ blocks' = parent_blocks
        /\ loop_invariant' = <<>>
        /\ phase' = "traverse"
        /\ UNCHANGED <<original, inst, preheader, is_loop_done, loop, before, after>>

(* run has gone through all loops; the function is called. *)
Call ==
    /\ phase = "traverse"
    /\ is_loop_done = Loops
    /\ phase' = "execute"
    /\ UNCHANGED <<original, ir_vars, loop_vars, before, after>>

Licm == (\E h \in Loops : TraverseLoop(h)) \/ (\E i \in DOMAIN inst : Mark(i))
        \/ Marked \/ Rewire \/ Move \/ Call

-----------------------------------------------------------------------------
(* Both machines execute a block of the original function and take the same *)
(* way out, the k-th; the condition decides nothing, so that every path is  *)
(* taken.                                                                   *)
Leave(m, body, ins, last, k) ==
    [Executed(ins, body, last, m) EXCEPT !.at = targets(last)[k], !.from = m.at]

Block(k) ==
    LET b == before.at
    IN  /\ phase = "execute"
        /\ b = after.at
        /\ k \in DOMAIN targets(original.term[b])
        /\ before' = Leave(before, original.code[b], original.inst, original.term[b], k)
        /\ after' = Leave(after, code[b], inst, term[b], k)
        /\ UNCHANGED <<original, ir_vars, loop_vars, phase>>

(* The new function alone is in a preheader.                                *)
Preheader ==
    LET b == after.at
    IN  /\ phase = "execute"
        /\ b > Count
        /\ after' = [Leave(after, code[b], inst, term[b], 1) EXCEPT !.given = after.given]
        /\ UNCHANGED <<original, ir_vars, loop_vars, phase, before>>

(* The last block, and the result.                                          *)
Return ==
    LET b == before.at
    IN  /\ phase = "execute"
        /\ b = after.at
        /\ original.term[b].op = "ret"
        /\ before' = Executed(original.inst, original.code[b], original.term[b], before)
        /\ after' = Executed(inst, code[b], term[b], after)
        /\ phase' = "returned"
        /\ UNCHANGED <<original, ir_vars, loop_vars>>

Next == Licm \/ (\E k \in 1 .. 2 : Block(k)) \/ Preheader \/ Return

Spec == Init /\ [][Next]_vars

-----------------------------------------------------------------------------
(* Executed side by side along the same path, the function before and after *)
(* the pass come to the same blocks with the same global variables, give    *)
(* their branches the same conditions and return the same value.            *)
SameEffects ==
    /\ before.mem = after.mem
    /\ before.given = after.given
    /\ before.at = after.at \/
         /\ after.at > Count
         /\ before.at = CHOOSE h \in Loops : preheader[h] = after.at

(* When a loop is done, the edges are what the terminators say, both lists  *)
(* agree on them, and the phis of a block have one pair for each of its     *)
(* predecessors, although lists, branches and phis are edited one by one.   *)
(* A preheader that is not used has no edges at all.                        *)
EdgesAgree ==
    phase \in {"traverse", "execute"} =>
        \A b \in DOMAIN succ_bbs :
            /\ ToSet(succ_bbs[b]) = ToSet(targets(term[b]))
            /\ \A c \in DOMAIN succ_bbs : b \in ToSet(pre_bbs[c]) <=> c \in ToSet(succ_bbs[b])
            /\ IsInjective(pre_bbs[b])
            /\ \A i \in ToSet(code[b]) : inst[i].op = "phi" =>
                  /\ {a[2] : a \in ToSet(inst[i].args)} = ToSet(pre_bbs[b])
                  /\ Len(inst[i].args) = Len(pre_bbs[b])

(* After the pass no loop without an impure call holds an instruction       *)
(* whose operands all come from outside of it, also none that an inner loop *)
(* had before or that only became invariant when its operands had moved.    *)
NothingInvariantLeft ==
    phase = "traverse" /\ is_loop_done = Loops =>
        \A h \in Loops :
            LET all == UNION {ToSet(code[b]) : b \in NaturalLoop(succ_bbs, 1, h)}
            IN  (\A i \in all : inst[i].op # "impure") =>
                   \A i \in all : inst[i].op \in {"store", "phi"}
                                  \/ ToSet(inst[i].args) \cap all # {}
=============================================================================
