--------------------------- MODULE CminusfBuilder ---------------------------
(***************************************************************************)
(* The control flow graph that CminusfBuilder (cminusf_builder.cpp) emits. *)
(*                                                                         *)
(* The visitor walks a syntax tree and appends to the block under the      *)
(* insertion point.  The tree is the input: every choice of the next       *)
(* statement is an action, so the reachable graphs are those of all        *)
(* Cminusf programs with at most MaxBlocks basic blocks.  Straight-line    *)
(* instructions do not change the graph and are left out.                  *)
(*                                                                         *)
(* The body of an if, of a while and of a function is a list of statements *)
(* here: visiting ASTCompoundStmt adds nothing to the graph but the check  *)
(* that stops at the first statement after a terminator.                   *)
(***************************************************************************)
EXTENDS FlowGraph, Sequences

CONSTANTS
    MaxFuncs,   \* bound: functions of the module
    MaxBlocks,  \* bound: basic blocks of the module
    MaxDepth    \* bound: statements nested in one another

ASSUME BuilderAssumption ==
    MaxFuncs \in Nat \ {0} /\ MaxBlocks \in Nat /\ MaxDepth \in Nat

NoBlock == 0               \* nullptr
Blocks  == 1 .. MaxBlocks  \* basic blocks are numbered as they are created
Funcs   == 1 .. MaxFuncs

VARIABLES
    basic_blocks,  \* Function::basic_blocks_, in order of creation
    succ_bbs,      \* BasicBlock::succ_bbs_
    pre_bbs,       \* BasicBlock::pre_bbs_
    terminator,    \* the last instruction of a block if it is br or ret
    insert_block,  \* the insertion point of the IRBuilder
    visiting,      \* the statements being visited, outermost first
    built          \* the functions that are complete

builder_vars == <<basic_blocks, succ_bbs, pre_bbs, terminator,
                  insert_block, visiting, built>>
cfg_vars     == <<basic_blocks, succ_bbs, pre_bbs>>

Created == UNION {ToSet(basic_blocks[f]) : f \in Funcs}
fresh   == Cardinality(Created)      \* number of blocks created so far
Room(n) == fresh + n <= MaxBlocks

is_terminated(b) == terminator[b] # "none"

Top      == visiting[Len(visiting)]
(* Faulty: contBB is a member of the builder, not a local of the call.      *)
ReturnClobbering ==
    visiting' = [i \in 1 .. Len(visiting) - 1 |->
        IF visiting[i].kind = "if" /\ Top.kind = "if"
        THEN [visiting[i] EXCEPT !.next = Top.next] ELSE visiting[i]]

Return   == visiting' = Front(visiting)
Enter(s) == Len(visiting) < MaxDepth /\ visiting' = Append(visiting, s)
Phase(p) == visiting' = [visiting EXCEPT ![Len(visiting)].phase = p]

(* The visitor takes the next statement of a list: ASTCompoundStmt leaves   *)
(* the list as soon as the insertion point is in a terminated block.        *)
NextStatement ==
    /\ visiting # <<>>
    /\ Top.phase # "cond"
    /\ ~is_terminated(insert_block)

NextExpression == NextStatement \/ (visiting # <<>> /\ Top.phase = "cond")

-----------------------------------------------------------------------------
(* Emission.  A graph is threaded through as a record: g.pre, g.suc, g.end. *)
Graph == [pre |-> pre_bbs, suc |-> succ_bbs, end |-> terminator]

(* Faulty: the target does not learn of the edge.                           *)
LinkOneSided(g, a, b) == [g EXCEPT !.suc[a] = Append(@, b)]

Link(g, a, b) == [g EXCEPT !.suc[a] = Append(@, b), !.pre[b] = Append(@, a)]

create_br(g, a, b)         == [Link(g, a, b) EXCEPT !.end[a] = "br"]
create_cond_br(g, a, t, e) == [Link(Link(g, a, t), a, e) EXCEPT !.end[a] = "br"]
create_ret(g, a)           == [g EXCEPT !.end[a] = "ret"]

(* The recurring "if (not get_insert_block()->is_terminated()) create_br". *)
fall_through(g, b) ==
    IF is_terminated(insert_block) THEN g ELSE create_br(g, insert_block, b)

Emit(g) == /\ pre_bbs' = g.pre
           /\ succ_bbs' = g.suc
           /\ terminator' = g.end

(* BasicBlock::create appends the new blocks to the current function. *)
current_func == built + 1
Create(n) ==
    /\ Room(n)
    /\ basic_blocks' = [basic_blocks EXCEPT
           ![current_func] = @ \o [i \in 1 .. n |-> fresh + i]]

-----------------------------------------------------------------------------
Init ==
    /\ basic_blocks = [f \in Funcs |-> <<>>]
    /\ succ_bbs = [b \in Blocks |-> <<>>]
    /\ pre_bbs = [b \in Blocks |-> <<>>]
    /\ terminator = [b \in Blocks |-> "none"]
    /\ insert_block = NoBlock
    /\ visiting = <<>>
    /\ built = 0

(* visit(ASTFunDeclaration) up to the body: the entry block. *)
FunDeclaration ==
    /\ visiting = <<>>
    /\ built < MaxFuncs
    /\ Create(1)
    /\ insert_block' = fresh + 1
    /\ Enter([kind |-> "fun", phase |-> "body", back |-> NoBlock, next |-> NoBlock])
    /\ UNCHANGED <<succ_bbs, pre_bbs, terminator, built>>

(* Faulty: a function without a return at its end gets none.                *)
FunDeclarationNoReturn ==
    /\ visiting # <<>>
    /\ Top.kind = "fun"
    /\ built' = built + 1
    /\ Return
    /\ UNCHANGED <<basic_blocks, insert_block, pre_bbs, succ_bbs, terminator>>

(* visit(ASTFunDeclaration) after the body: the implicit return. *)
FunDeclarationEnd ==
    /\ visiting # <<>>
    /\ Top.kind = "fun"
    /\ Emit(IF is_terminated(insert_block) THEN Graph
            ELSE create_ret(Graph, insert_block))
    /\ built' = built + 1
    /\ Return
    /\ UNCHANGED <<basic_blocks, insert_block>>

(* visit(ASTReturnStmt) *)
ReturnStmt ==
    /\ NextStatement
    /\ Emit(create_ret(Graph, insert_block))
    /\ UNCHANGED <<basic_blocks, insert_block, visiting, built>>

(* visit(ASTVar) with an index: a negative index leaves the function through *)
(* a block of its own, the rest goes on in another.                          *)
IndexedVar ==
    LET exceptBB == fresh + 1
        contBB   == fresh + 2
    IN  /\ NextExpression
        /\ Create(2)
        /\ Emit(create_ret(create_cond_br(Graph, insert_block, exceptBB, contBB), exceptBB))
        /\ insert_block' = contBB
        /\ UNCHANGED <<visiting, built>>

(* visit(ASTSelectionStmt), from the condition to the first branch. *)
SelectionStmt(has_else) ==
    LET trueBB  == fresh + 1
        falseBB == IF has_else THEN fresh + 2 ELSE NoBlock
        contBB  == IF has_else THEN fresh + 3 ELSE fresh + 2
    IN  /\ NextStatement
        /\ Create(IF has_else THEN 3 ELSE 2)
        /\ Emit(create_cond_br(Graph, insert_block, trueBB,
                               IF has_else THEN falseBB ELSE contBB))
        /\ insert_block' = trueBB
        /\ Enter([kind |-> "if", phase |-> "then", back |-> falseBB, next |-> contBB])
        /\ UNCHANGED built

(* visit(ASTSelectionStmt) after the first branch ... *)
SelectionThenEnd ==
    /\ visiting # <<>>
    /\ Top.kind = "if" /\ Top.phase = "then"
    /\ Emit(fall_through(Graph, Top.next))
    /\ IF Top.back # NoBlock
       THEN insert_block' = Top.back /\ Phase("else")
       ELSE insert_block' = Top.next /\ Return
    /\ UNCHANGED <<basic_blocks, built>>

(* ... and after the second. *)
SelectionElseEnd ==
    /\ visiting # <<>>
    /\ Top.kind = "if" /\ Top.phase = "else"
    /\ Emit(fall_through(Graph, Top.next))
    /\ insert_block' = Top.next
    /\ Return
    /\ UNCHANGED <<basic_blocks, built>>

(* visit(ASTIterationStmt) up to the condition ... *)
IterationStmt ==
    LET exprBB == fresh + 1
    IN  /\ NextStatement
        /\ Create(1)
        /\ Emit(fall_through(Graph, exprBB))
        /\ insert_block' = exprBB
        /\ Enter([kind |-> "while", phase |-> "cond", back |-> exprBB, next |-> NoBlock])
        /\ UNCHANGED built

(* ... from the condition to the body ... *)
IterationCond ==
    LET trueBB == fresh + 1
        contBB == fresh + 2
    IN  /\ visiting # <<>>
        /\ Top.kind = "while" /\ Top.phase = "cond"
        /\ Create(2)
        /\ Emit(create_cond_br(Graph, insert_block, trueBB, contBB))
        /\ insert_block' = trueBB
        /\ visiting' = [visiting EXCEPT ![Len(visiting)].phase = "body",
                                        ![Len(visiting)].next = contBB]
        /\ UNCHANGED built

(* ... and after the body. *)
IterationEnd ==
    /\ visiting # <<>>
    /\ Top.kind = "while" /\ Top.phase = "body"
    /\ Emit(fall_through(Graph, Top.back))
    /\ insert_block' = Top.next
    /\ Return
    /\ UNCHANGED <<basic_blocks, built>>

Next ==
    \/ FunDeclaration
    \/ FunDeclarationEnd
    \/ ReturnStmt
    \/ IndexedVar
    \/ \E has_else \in BOOLEAN : SelectionStmt(has_else)
    \/ SelectionThenEnd
    \/ SelectionElseEnd
    \/ IterationStmt
    \/ IterationCond
    \/ IterationEnd

Spec == Init /\ [][Next]_builder_vars

-----------------------------------------------------------------------------
(* The types of the state.  A frame of the visitor knows its blocks: an if  *)
(* or a while that is past its condition has somewhere to continue.         *)
Frames == [kind : {"fun", "if", "while"}, phase : {"body", "then", "else", "cond"},
           back : Blocks \cup {NoBlock}, next : Blocks \cup {NoBlock}]

TypeOK ==
    /\ basic_blocks \in [Funcs -> Seq(Blocks)]
    /\ succ_bbs \in [Blocks -> Seq(Blocks)]
    /\ pre_bbs \in [Blocks -> Seq(Blocks)]
    /\ terminator \in [Blocks -> {"none", "br", "ret"}]
    /\ insert_block \in Blocks \cup {NoBlock}
    /\ visiting \in Seq(Frames)
    /\ built \in 0 .. MaxFuncs
    /\ visiting # <<>> => insert_block \in ToSet(basic_blocks[current_func])
    /\ \A i \in DOMAIN visiting :
          visiting[i].kind # "fun" /\ visiting[i].phase # "cond"
              => visiting[i].next # NoBlock

(* The two lists of an edge agree: the constructor of BranchInst writes     *)
(* both, one entry per edge.  No edge leaves its function or enters an      *)
(* entry block, and no branch has one target twice; the frontiers, phis and *)
(* the renaming of Mem2Reg all count the entries of these lists.            *)
EdgesMirror ==
    /\ \A a, b \in Blocks : a \in ToSet(pre_bbs[b]) <=> b \in ToSet(succ_bbs[a])
    /\ \A b \in Blocks : IsInjective(pre_bbs[b]) /\ IsInjective(succ_bbs[b])
    /\ \A f \in Funcs : \A b \in ToSet(basic_blocks[f]) :
          ToSet(succ_bbs[b]) \subseteq ToSet(Tail(basic_blocks[f]))

(* A function that is complete has a terminator in every block, also in the *)
(* blocks nothing jumps to, and a block has successors exactly if it ends   *)
(* in a branch: the passes and the code generator call get_terminator on    *)
(* every block.                                                             *)
CompleteIsTerminated ==
    \A f \in 1 .. built : \A b \in ToSet(basic_blocks[f]) :
        /\ is_terminated(b)
        /\ terminator[b] = "br" <=> succ_bbs[b] # <<>>

(* Every cycle goes through a branch back to a block that dominates its     *)
(* source and that has two ways to go, as the condition of a while has:     *)
(* without the branches back the graph is acyclic.  LoopDetection finds     *)
(* loops by such branches only and would miss any other cycle.              *)
CyclesHaveHeaders ==
    \A f \in 1 .. built :
        LET dom == DominatedBy(succ_bbs, basic_blocks[f][1])
            backward(a) == {b \in ToSet(succ_bbs[a]) : a \in dom[b]}
            forward == [a \in DOMAIN dom |-> SetToSeq(ToSet(succ_bbs[a]) \ backward(a))]
        IN  \A a \in DOMAIN dom :
                /\ \A b \in ToSet(forward[a]) : a \notin Reach(forward, b, NoBlock)
                /\ \A b \in backward(a) : Len(succ_bbs[b]) = 2
=============================================================================
