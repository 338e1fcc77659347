------------------------------ MODULE DeadCode ------------------------------
(***************************************************************************)
(* Dead code elimination, passes/DeadCode.cpp: until nothing changes, for  *)
(* every function, blocks without predecessors are deleted, instructions   *)
(* that something depends on are marked, and the others are deleted.       *)
(* Deleting an instruction makes the operands that refer to it null.       *)
(***************************************************************************)
EXTENDS FuncInfo

VARIABLES
    blocks,     \* the blocks that are left
    succ_bbs,   \* their successors and ...
    pre_bbs,    \* ... predecessors
    insts,      \* the instructions that are left
    operands,   \* their operands that are instructions and not null
    todo,       \* the functions the round has still to visit
    func,       \* the function it visits
    marked,     \* marked
    work_list,  \* work_list, whose order does not matter
    changed     \* changed

cfg_vars  == <<blocks, succ_bbs, pre_bbs>>
inst_vars == <<insts, operands>>
loop_vars == <<todo, func, changed>>
mark_vars == <<marked, work_list>>
vars == <<program_vars, pc, info_vars, cfg_vars, inst_vars, loop_vars, mark_vars>>

own(f) == {i \in insts : func_of(i) = f}

Init ==
    /\ InitInfo
    /\ blocks = Blocks
    /\ succ_bbs = [b \in Blocks |-> {}] /\ pre_bbs = [b \in Blocks |-> {}]
    /\ insts = {} /\ operands = <<>>
    /\ todo = {} /\ func = NoFunc /\ changed = FALSE
    /\ marked = {} /\ work_list = {}

(* FuncInfo, which run() calls first. *)
Purity == InfoNext /\ UNCHANGED <<cfg_vars, inst_vars, loop_vars, mark_vars>>

Begin ==
    /\ pc = "process"
    /\ worklist = {}
    /\ succ_bbs' = graph
    /\ pre_bbs' = [b \in Blocks |-> {a \in Blocks : b \in graph[a]}]
    /\ insts' = Insts
    /\ operands' = [i \in Insts |-> code[i].uses]
    /\ todo' = Defined
    /\ pc' = "clear"
    /\ UNCHANGED <<program_vars, info_vars, blocks, func, changed, mark_vars>>

-----------------------------------------------------------------------------
(* Deletes instructions: they leave their blocks, and the operands that     *)
(* refer to them.                                                           *)
Deleted(dead) ==
    /\ insts' = insts \ dead
    /\ operands' = [i \in Insts |-> IF i \in dead THEN {} ELSE operands[i] \ dead]

(* Faulty: the entry has no predecessor either.                             *)
to_erase_any(f) == {b \in blocks : block_func[b] = f /\ pre_bbs[b] = {}}

to_erase(f) == {b \in blocks : block_func[b] = f /\ pre_bbs[b] = {} /\ b # entry[f]}

(* clear_basic_blocks.  Function::remove takes the block out of the edge    *)
(* lists of its neighbours.                                                 *)
ClearBasicBlocks(f) ==
    LET gone == to_erase(f)
    IN  /\ pc = "clear"
        /\ f \in todo
        /\ blocks' = blocks \ gone
        /\ succ_bbs' = [b \in Blocks |-> succ_bbs[b] \ gone]
        /\ pre_bbs' = [b \in Blocks |-> pre_bbs[b] \ gone]
        /\ Deleted({i \in insts : code[i].block \in gone})
        /\ changed' = (changed \/ gone # {})
        /\ func' = f /\ todo' = todo \ {f}
        /\ pc' = "critical"
        /\ UNCHANGED <<program_vars, info_vars, mark_vars>>

(* is_critical: a call of a pure function is not. *)
is_critical(i) ==
    \/ code[i].op \in {"br", "store"}
    \/ code[i].op = "call" /\ ~is_pure[code[i].callee]

(* mark(func), the first loop. *)
MarkCritical ==
    /\ pc = "critical"
    /\ marked' = {i \in own(func) : is_critical(i)}
    /\ work_list' = marked'
    /\ pc' = "mark"
    /\ UNCHANGED <<program_vars, info_vars, cfg_vars, inst_vars, loop_vars>>

(* Faulty: put on the list, but not marked.                                 *)
MarkUnset(i) ==
    LET new == {d \in operands[i] \ marked : func_of(d) = func_of(i)}
    IN  /\ pc = "mark"
        /\ i \in work_list
        /\ work_list' = (work_list \ {i}) \cup new
        /\ UNCHANGED <<program_vars, pc, info_vars, cfg_vars, inst_vars, loop_vars, marked>>

(* mark(ins): an operand of the same function that has no mark yet.         *)
Mark(i) ==
    LET new == {d \in operands[i] \ marked : func_of(d) = func_of(i)}
    IN  /\ pc = "mark"
        /\ i \in work_list
        /\ marked' = marked \cup new
        /\ work_list' = (work_list \ {i}) \cup new
        /\ UNCHANGED <<program_vars, pc, info_vars, cfg_vars, inst_vars, loop_vars>>

(* Faulty: the flag survives into the next round.                           *)
NextFunctionSticky(change) ==
    IF todo # {} THEN changed' = change /\ pc' = "clear" /\ UNCHANGED todo
    ELSE /\ changed' = change
         /\ IF change THEN pc' = "clear" /\ todo' = Defined
                      ELSE pc' = "done" /\ UNCHANGED todo

(* Faulty: only the last function of a round decides about another one.     *)
NextFunctionAlone(change) ==
    IF todo # {} THEN changed' = FALSE /\ pc' = "clear" /\ UNCHANGED todo
    ELSE /\ changed' = FALSE
         /\ IF change THEN pc' = "clear" /\ todo' = Defined
                      ELSE pc' = "done" /\ UNCHANGED todo

(* The round goes on with the next function, or a new round begins, or the  *)
(* pass is done.                                                            *)
NextFunction(change) ==
    IF todo # {} THEN changed' = change /\ pc' = "clear" /\ UNCHANGED todo
    ELSE /\ changed' = FALSE
         /\ IF change THEN pc' = "clear" /\ todo' = Defined
                      ELSE pc' = "done" /\ UNCHANGED todo

(* sweep: what is not marked loses its operands, then its place.            *)
Sweep ==
    LET wait_del == own(func) \ marked
    IN  /\ pc = "mark"
        /\ work_list = {}
        /\ Deleted(wait_del)
        /\ NextFunction(changed \/ wait_del # {})
        /\ UNCHANGED <<program_vars, info_vars, cfg_vars, func, mark_vars>>

Run == Begin \/ (\E f \in Defined : ClearBasicBlocks(f)) \/ MarkCritical
       \/ (\E i \in Insts : Mark(i)) \/ Sweep

Next == Purity \/ Run

(* The pass is sequential code: it runs on while it can. *)
Spec == Init /\ [][Next]_vars /\ WF_vars(Next)

-----------------------------------------------------------------------------
Eliminating == pc \in {"clear", "critical", "mark", "done"}

(* The types of the state. *)
TypeOK ==
    /\ pc \in {"trivial", "process", "clear", "critical", "mark", "done"}
    /\ graph \in [Blocks -> SUBSET Blocks] /\ code \in Seq(Instr(Len(code)))
    /\ arrays \subseteq Defined
    /\ is_pure \in [Funcs -> BOOLEAN] /\ worklist \subseteq Funcs
    /\ blocks \subseteq Blocks
    /\ succ_bbs \in [Blocks -> SUBSET Blocks] /\ pre_bbs \in [Blocks -> SUBSET Blocks]
    /\ insts \subseteq Insts
    /\ Eliminating => operands \in [Insts -> SUBSET Insts]
    /\ todo \subseteq Defined /\ func \in Defined \cup {NoFunc} /\ changed \in BOOLEAN
    /\ marked \subseteq Insts /\ work_list \subseteq marked

(* What the program needs: the critical instructions of the blocks that can *)
(* be reached, and with an instruction all of its operands.                 *)
Needed ==
    LET first  == {i \in Insts : is_critical(i) /\ code[i].block \in Live}
        closed == {S \in SUBSET Insts : /\ first \subseteq S
                                        /\ \A i \in S : code[i].uses \subseteq S}
    IN  {i \in Insts : \A S \in closed : i \in S}

(* Whatever is deleted, in whatever order, a block that can be reached      *)
(* keeps its place and its branches, and an instruction that is needed      *)
(* stays with all of its operands.                                          *)
NeededStays ==
    Eliminating =>
        /\ \A b \in Live : b \in blocks /\ succ_bbs[b] = graph[b]
        /\ \A i \in Needed : i \in insts /\ operands[i] = code[i].uses

(* What is left and serves something critical, through the operands it      *)
(* still has.                                                               *)
Useful ==
    LET first  == {i \in insts : is_critical(i)}
        closed == {S \in SUBSET insts : /\ first \subseteq S
                                        /\ \A i \in S : operands[i] \subseteq S}
    IN  {i \in insts : \A S \in closed : i \in S}

(* In the end nothing is left that the pass could see to be dead: a block   *)
(* has a predecessor or is an entry, and something critical depends on      *)
(* every instruction.                                                       *)
DeadGone ==
    pc = "done" =>
        /\ \A f \in Defined : to_erase(f) = {}
        /\ insts = Useful

(* A round that deletes nothing comes: the pass ends.                       *)
DeadCodeEnds == <>(pc = "done")
=============================================================================
