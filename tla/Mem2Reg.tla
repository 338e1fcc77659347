------------------------------- MODULE Mem2Reg -------------------------------
(***************************************************************************)
(* The pass Mem2Reg (passes/Mem2Reg.cpp) on one function, and the function *)
(* it leaves: first the loads and stores of the function are written, then *)
(* phis are placed on the dominance frontiers and the blocks are renamed   *)
(* along the dominator tree, then the function is executed in its new      *)
(* form, without its variables.                                            *)
(*                                                                         *)
(* Only scalar local variables are in question.  All other instructions    *)
(* stand behind the values that are stored: "rval" is 0 for a store of any *)
(* value computed before it, and i for a store of the result of load i of  *)
(* the same block.  The dominator tree and the frontiers are those of      *)
(* FlowGraph: that Dominators computes them is shown there.                *)
(***************************************************************************)
EXTENDS FlowGraph, Sequences

CONSTANTS
    Graphs,      \* the control flow graphs, as successor lists of blocks 1 .. n
    Vars,        \* local variables: their allocas
    Vals,        \* values a program computes
    unset,       \* the value of an uninitialised variable
    MaxInstrs    \* bound: loads and stores of the function

ASSUME Mem2RegAssumption ==
    /\ Graphs \subseteq Seq(Seq(Nat))
    /\ \A g \in Graphs : g # <<>> /\ \A b \in DOMAIN g : ToSet(g[b]) \subseteq 2 .. Len(g)
    /\ unset \notin Vals
    /\ MaxInstrs \in Nat

VARIABLES
    succ_bbs,       \* the control flow graph
    code,           \* the loads and stores of every block, as written
    phase,          \* "write", "phi", "rename", "done" or "crash"
    dom_frontier,   \* Dominators::dom_frontier_
    dom_tree_succ,  \* Dominators::dom_tree_succ_blocks_
    var_todo,       \* generate_phi: the variables not considered yet
    var,            \* ... the variable that is
    work_list,      \* ... the part of its work list not processed yet
    phis,           \* the variables with a phi in a block, in list order
    phi_args,       \* the operands of every phi: (value, block) pairs
    var_val_stack,  \* the values of every variable, newest last
    replaced,       \* the value that replaces each load renamed so far
    tops,           \* history: the value of every variable as a block begins
    path,           \* the activations of rename, innermost last
    bb_rename,      \* the blocks rename has entered
    erased,         \* the instructions that are erased, as (block, index)
    at,             \* the block that is executed
    done,           \* how many of its instructions are
    env             \* the values of the instructions and phis executed

program_vars == <<succ_bbs, code>>
dom_vars     == <<dom_frontier, dom_tree_succ>>
phi_vars     == <<var_todo, var, work_list, phis>>
rename_vars  == <<phi_args, var_val_stack, replaced, tops, path, bb_rename, erased>>
exec_vars    == <<at, done, env>>
vars == <<program_vars, phase, dom_vars, phi_vars, rename_vars, exec_vars>>

NoBlock == 0
NoVar   == "no variable"
NoValue == <<"none", 0, 0>>     \* no definition
Entry   == 1                    \* get_entry_block
Blocks  == DOMAIN succ_bbs

(* Names of the values an operand can be. *)
phi_of(b, x)   == <<"phi", b, x>>
load_of(b, i)  == <<"load", b, i>>
value_of(b, i) == <<"value", b, i>>   \* what store i of block b stores

is_store(b, i, x) == code[b][i].op = "store" /\ code[b][i].var = x
stores(b, x)      == {i \in DOMAIN code[b] : is_store(b, i, x)}
has_phi(b, x)     == x \in ToSet(phis[b])

(* Faulty: the store keeps the load that is replaced.                       *)
get_rval_unreplaced(map, b, i) ==
    IF code[b][i].rval = 0 THEN value_of(b, i) ELSE load_of(b, code[b][i].rval)

(* The operand a store has after the loads in map are replaced. *)
get_rval(map, b, i) ==
    LET l == load_of(b, code[b][i].rval)
    IN  IF code[b][i].rval = 0 THEN value_of(b, i)
        ELSE IF l \in DOMAIN map THEN map[l] ELSE l

(* Functions changed at some points, as :> and @@ of module TLC have them,  *)
(* and at one.                                                              *)
over(g, f)   == [a \in DOMAIN f \cup DOMAIN g |-> IF a \in DOMAIN f THEN f[a] ELSE g[a]]
put(g, a, v) == [c \in {a} \cup DOMAIN g |-> IF c = a THEN v ELSE g[c]]

top(stack) == IF stack = <<>> THEN NoValue ELSE Last(stack)
Emptied(stack, n) == SubSeq(stack, 1, Len(stack) - n)

-----------------------------------------------------------------------------
Init ==
    /\ succ_bbs \in Graphs
    /\ code = [b \in Blocks |-> <<>>]
    /\ phase = "write"
    /\ dom_frontier = [b \in Blocks |-> {}] /\ dom_tree_succ = [b \in Blocks |-> {}]
    /\ var_todo = {} /\ var = NoVar /\ work_list = {}
    /\ phis = [b \in Blocks |-> <<>>]
    /\ phi_args = <<>>
    /\ var_val_stack = [x \in Vars |-> <<>>]
    /\ replaced = <<>> /\ tops = <<>>
    /\ path = <<>> /\ bb_rename = {} /\ erased = {}
    /\ at = NoBlock /\ done = 0 /\ env = <<>>

(* The program: the blocks are filled one after the other. *)
Instrs(b) ==
    [op : {"load"}, var : Vars, rval : {0}]
    \cup [op : {"store"}, var : Vars,
          rval : {0} \cup {i \in DOMAIN code[b] : code[b][i].op = "load"}]

Written == FoldFunction(LAMBDA s, n : Len(s) + n, 0, code)

WriteInstr(b, ins) ==
    /\ phase = "write"
    /\ Written < MaxInstrs
    /\ \A c \in Blocks : c > b => code[c] = <<>>
    /\ code' = [code EXCEPT ![b] = Append(@, ins)]
    /\ UNCHANGED <<succ_bbs, phase, dom_vars, phi_vars, rename_vars, exec_vars>>

-----------------------------------------------------------------------------
(* Mem2Reg::run: the dominator analysis; generate_phi collects the          *)
(* variables that are stored to.                                            *)
Run ==
    LET dom == DominatedBy(succ_bbs, Entry)
    IN  /\ phase = "write"
        /\ dom_frontier' = [b \in Blocks |->
               IF b \in DOMAIN dom THEN Frontier(succ_bbs, dom, b) ELSE {}]
        /\ dom_tree_succ' = [b \in Blocks |->
               IF b \in DOMAIN dom THEN Children(dom, b) ELSE {}]
        /\ var_todo' = {x \in Vars : \E b \in Blocks : stores(b, x) # {}}
        /\ phase' = "phi"
        /\ UNCHANGED <<program_vars, var, work_list, phis, rename_vars, exec_vars>>

(* generate_phi, the outer loop: the next variable of a set of pointers,    *)
(* with the blocks that store to it.                                        *)
NextVar(x) ==
    /\ phase = "phi"
    /\ work_list = {}
    /\ x \in var_todo
    /\ var' = x
    /\ var_todo' = var_todo \ {x}
    /\ work_list' = {b \in Blocks : stores(b, x) # {}}
    /\ UNCHANGED <<program_vars, phase, dom_vars, phis, rename_vars, exec_vars>>

(* Faulty: the blocks that get a phi do not join the work list.             *)
PlacePhisOnce(bb) ==
    LET fresh == {b \in dom_frontier[bb] : ~has_phi(b, var)}
    IN  /\ phase = "phi"
        /\ bb \in work_list
        /\ phis' = [b \in Blocks |-> IF b \in fresh THEN <<var>> \o phis[b] ELSE phis[b]]
        /\ phi_args' = over(phi_args, [p \in {phi_of(b, var) : b \in fresh} |-> <<>>])
        /\ work_list' = work_list \ {bb}
        /\ UNCHANGED <<program_vars, phase, dom_vars, var_todo, var, var_val_stack,
                       replaced, tops, path, bb_rename, erased, exec_vars>>

(* The inner loop: a block of the work list puts a phi at the front of      *)
(* every block of its frontier that has none, and those join the list.      *)
PlacePhis(bb) ==
    LET fresh == {b \in dom_frontier[bb] : ~has_phi(b, var)}
    IN  /\ phase = "phi"
        /\ bb \in work_list
        /\ phis' = [b \in Blocks |-> IF b \in fresh THEN <<var>> \o phis[b] ELSE phis[b]]
        /\ phi_args' = over(phi_args, [p \in {phi_of(b, var) : b \in fresh} |-> <<>>])
        /\ work_list' = (work_list \ {bb}) \cup fresh
        /\ UNCHANGED <<program_vars, phase, dom_vars, var_todo, var, var_val_stack,
                       replaced, tops, path, bb_rename, erased, exec_vars>>

-----------------------------------------------------------------------------
(* Faulty: a phi is no definition of its variable.                          *)
PushPhisNot(stack, bb) == stack

(* rename, step one: the phis are the newest values of their variables.     *)
PushPhis(stack, bb) ==
    [x \in Vars |-> IF has_phi(bb, x) THEN Append(stack[x], phi_of(bb, x)) ELSE stack[x]]

(* Steps two and three, instruction i of the block: a load is replaced by   *)
(* the newest value, a store provides one.  back() of an empty vector is    *)
(* undefined: s.ok is FALSE from then on.                                   *)
RenameInstr(s, bb, i) ==
    LET x == code[bb][i].var
    IN  IF ~s.ok THEN s
        ELSE IF code[bb][i].op = "store"
        THEN [s EXCEPT !.stack[x] = Append(@, get_rval(s.replaced, bb, i))]
        ELSE IF s.stack[x] = <<>> THEN [s EXCEPT !.ok = FALSE]
        ELSE [s EXCEPT !.replaced = put(@, load_of(bb, i), Last(s.stack[x]))]

RenameInstrs(bb) ==
    LET after[i \in 0 .. Len(code[bb])] ==
            IF i = 0
            THEN [stack |-> PushPhis(var_val_stack, bb), replaced |-> replaced, ok |-> TRUE]
            ELSE RenameInstr(after[i - 1], bb, i)
    IN  after[Len(code[bb])]

(* Step four: the phis of the successors get the newest value and the block.*)
FillPhis(stack, bb) ==
    [p \in DOMAIN phi_args |->
        IF p[2] \in ToSet(succ_bbs[bb]) /\ stack[p[3]] # <<>>
        THEN Append(phi_args[p], <<Last(stack[p[3]]), bb>>)
        ELSE phi_args[p]]

(* rename(bb), up to the recursion. *)
Rename(bb) ==
    LET s == RenameInstrs(bb)
    IN  /\ tops' = put(tops, bb, [x \in Vars |-> top(PushPhis(var_val_stack, bb)[x])])
        /\ replaced' = s.replaced
        /\ var_val_stack' = s.stack
        /\ IF s.ok
           THEN /\ phi_args' = FillPhis(s.stack, bb)
                /\ path' = Append(path, bb)
                /\ bb_rename' = bb_rename \cup {bb}
                /\ phase' = "rename"
           ELSE /\ phase' = "crash"
                /\ UNCHANGED <<phi_args, path, bb_rename>>
        /\ UNCHANGED <<program_vars, dom_vars, phi_vars, erased, exec_vars>>

RenameEntry ==
    /\ phase = "phi"
    /\ var_todo = {} /\ work_list = {}
    /\ Rename(Entry)

(* Step five: the children in the dominator tree, a set of pointers.        *)
RenameChild(c) ==
    /\ phase = "rename"
    /\ c \in dom_tree_succ[Last(path)] \ bb_rename
    /\ Rename(c)

(* Steps six and seven: the values that the block has pushed are popped,    *)
(* its stores are erased.                                                   *)
Pushed(bb, x) == Cardinality(stores(bb, x)) + (IF has_phi(bb, x) THEN 1 ELSE 0)

(* Faulty: the stores are erased first, so that nothing is popped for them. *)
RenameReturnErased ==
    LET bb == Last(path)
    IN  /\ phase = "rename"
        /\ dom_tree_succ[bb] \subseteq bb_rename
        /\ var_val_stack' = [x \in Vars |->
               Emptied(var_val_stack[x], Pushed(bb, x) - Cardinality(stores(bb, x)))]
        /\ erased' = erased \cup {<<bb, i>> : i \in UNION {stores(bb, x) : x \in Vars}}
        /\ path' = Front(path)
        /\ phase' = IF Len(path) = 1 THEN "done" ELSE "rename"
        /\ UNCHANGED <<program_vars, dom_vars, phi_vars, phi_args, replaced, tops,
                       bb_rename, exec_vars>>

RenameReturn ==
    LET bb == Last(path)
    IN  /\ phase = "rename"
        /\ dom_tree_succ[bb] \subseteq bb_rename
        /\ var_val_stack' = [x \in Vars |-> Emptied(var_val_stack[x], Pushed(bb, x))]
        /\ erased' = erased \cup {<<bb, i>> : i \in UNION {stores(bb, x) : x \in Vars}}
        /\ path' = Front(path)
        /\ phase' = IF Len(path) = 1 THEN "done" ELSE "rename"
        /\ UNCHANGED <<program_vars, dom_vars, phi_vars, phi_args, replaced, tops,
                       bb_rename, exec_vars>>

-----------------------------------------------------------------------------
(* The function in its new form is executed.  A load has been replaced and  *)
(* a store erased; what remains is the computation of the values.           *)
Val(e, d) == IF d \in DOMAIN e THEN e[d] ELSE unset

Call ==
    /\ phase = "done"
    /\ at = NoBlock
    /\ at' = Entry
    /\ UNCHANGED <<program_vars, phase, dom_vars, phi_vars, rename_vars, done, env>>

Execute ==
    /\ at # NoBlock
    /\ done < Len(code[at])
    /\ IF code[at][done + 1].op = "store" /\ code[at][done + 1].rval = 0
       THEN \E v \in Vals : env' = put(env, value_of(at, done + 1), v)
       ELSE UNCHANGED env
    /\ done' = done + 1
    /\ UNCHANGED <<program_vars, phase, dom_vars, phi_vars, rename_vars, at>>

(* What the phi of x in block b takes when the branch comes from pre: the    *)
(* first operand for that block.                                            *)
incoming(b, x, pre) ==
    LET args == phi_args[phi_of(b, x)]
        S    == {i \in DOMAIN args : args[i][2] = pre}
    IN  IF S = {} THEN NoValue ELSE args[CHOOSE i \in S : \A j \in S : i <= j][1]

(* The phis of a block take their values all at once: the value that came   *)
(* with the predecessor, read before any of them changes.                   *)
TakePhis(b) ==
    over(env, [p \in {phi_of(b, x) : x \in ToSet(phis[b])} |-> Val(env, incoming(b, p[3], at))])

BranchTo(e) ==
    /\ at # NoBlock
    /\ done = Len(code[at])
    /\ \E b \in ToSet(succ_bbs[at]) : at' = b /\ env' = e[b]
    /\ done' = 0
    /\ UNCHANGED <<program_vars, phase, dom_vars, phi_vars, rename_vars>>

Branch == BranchTo([b \in Blocks |-> TakePhis(b)])

Compile ==
    \/ \E b \in Blocks : \E ins \in Instrs(b) : WriteInstr(b, ins)
    \/ Run
    \/ \E x \in Vars : NextVar(x)
    \/ \E bb \in Blocks : PlacePhis(bb)
    \/ RenameEntry
    \/ \E c \in Blocks : RenameChild(c)
    \/ RenameReturn

Next == Compile \/ Call \/ Execute \/ Branch

Spec == Init /\ [][Next]_vars

-----------------------------------------------------------------------------
(* The stacks hold exactly what the blocks being renamed have pushed, and   *)
(* so are empty in the end: what a block pushes it pops, although its       *)
(* stores are erased and the phis of others are filled in between.          *)
pushes(k, x) ==
    {<<k, i>> : i \in stores(path[k], x) \cup (IF has_phi(path[k], x) THEN {0} ELSE {})}

StackDepth ==
    phase # "crash" =>
        \A x \in Vars :
            Len(var_val_stack[x]) = Cardinality(UNION {pushes(k, x) : k \in DOMAIN path})

(* The blocks with a phi for a variable are the iterated dominance frontier *)
(* of its stores: closed under it, and nothing that a smaller set closes.   *)
PhisAtFrontier ==
    phase \in {"rename", "done"} =>
        \A x \in Vars :
            LET have     == {b \in Blocks : has_phi(b, x)}
                storing  == {b \in Blocks : stores(b, x) # {}}
                closed(S) == UNION {dom_frontier[b] : b \in storing \cup S} \subseteq S
            IN  closed(have) /\ \A S \in SUBSET have : closed(S) => S = have

(* Renaming fails only where the program may read a variable it has not     *)
(* set: a path without a store to it leads to the load.                     *)
CrashOnlyUnset ==
    phase = "crash" =>
        \E b \in Blocks : \E i \in DOMAIN code[b] :
            LET x      == code[b][i].var
                silent == [c \in Blocks |-> IF stores(c, x) = {} THEN succ_bbs[c] ELSE <<>>]
            IN  /\ code[b][i].op = "load"
                /\ \A j \in 1 .. i - 1 : ~is_store(b, j, x)
                /\ b \in Reach(silent, Entry, NoBlock)

(* When the pass is done no block that can run touches a variable: every    *)
(* load is replaced, by a value and not by another load, every store gone.  *)
VariablesGone ==
    phase = "done" =>
        \A b \in Reach(succ_bbs, Entry, NoBlock) : \A i \in DOMAIN code[b] :
            IF code[b][i].op = "load"
            THEN load_of(b, i) \in DOMAIN replaced /\ replaced[load_of(b, i)][1] # "load"
            ELSE <<b, i>> \in erased

(* The definition a variable stands for after n instructions of block b,    *)
(* and the result of instruction i.                                         *)
Reaching(b, n, x) ==
    LET S == {i \in stores(b, x) : i <= n}
    IN  IF S = {} THEN tops[b][x]
        ELSE get_rval(replaced, b, CHOOSE i \in S : \A j \in S : j <= i)

Result(b, i) == IF code[b][i].op = "load" THEN replaced[load_of(b, i)]
                                          ELSE get_rval(replaced, b, i)

(* The new form does what the function as written does to its variables:    *)
(* each load gives the value stored last, along every path.                 *)
Memory == INSTANCE LocalMemory WITH
    mem <- [x \in Vars |-> IF at = NoBlock THEN unset ELSE Val(env, Reaching(at, done, x))],
    reg <- [i \in 1 .. done |-> Val(env, Result(at, i))]

ImplementsMemory == Memory!Spec
=============================================================================
