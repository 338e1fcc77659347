------------------------------ MODULE FuncInfo ------------------------------
(***************************************************************************)
(* Which functions are pure: passes/FuncInfo.cpp.                          *)
(*                                                                         *)
(* Instructions are what their operation, their operands and, for a call,  *)
(* the callee say; "plain" is any instruction that only computes: alloca,  *)
(* getelementptr, arithmetic, comparison, conversion.  An operand that is  *)
(* no instruction is left out.                                             *)
(***************************************************************************)
EXTENDS Integers, Sequences, FiniteSets

CONSTANTS
    Funcs,       \* the functions of the module
    main,        \* the one named "main"
    Declared,    \* those without a body: the runtime library
    NoFunc,      \* the callee of an instruction that is no call
    Blocks,      \* the basic blocks of the module
    block_func,  \* BasicBlock::parent_
    entry,       \* the entry block of a function
    Programs     \* what the module may hold: graph, code and arrays

Defined == Funcs \ Declared

(* The blocks that can be reached from the entry of a function: those in    *)
(* every set that holds the entries and that no edge leaves.                *)
LiveIn(graph) ==
    LET closed == {S \in SUBSET Blocks : /\ \A f \in Defined : entry[f] \in S
                                         /\ \A a \in S : graph[a] \subseteq S}
    IN  {b \in Blocks : \A S \in closed : b \in S}

(* The instructions, numbered; uses are the operands that are instructions. *)
Instr(n) ==
    [op : {"plain", "phi", "load", "store", "call", "br"}, addr : {"local", "other"},
     callee : Funcs \cup {NoFunc}, block : Blocks, uses : SUBSET (1 .. n)]

(* Edges and operands stay in their function.  What a block that can be     *)
(* reached uses was computed in one that can: definitions dominate uses.    *)
WellFormed(p) ==
    /\ p.graph \in [Blocks -> SUBSET Blocks]
    /\ \A a \in Blocks : \A b \in p.graph[a] : block_func[a] = block_func[b]
    /\ p.code \in Seq(Instr(Len(p.code)))
    /\ p.arrays \subseteq Defined
    /\ \A i \in DOMAIN p.code :
          /\ p.code[i].op = "call" => p.code[i].callee \in Funcs
          /\ \A j \in p.code[i].uses :
                /\ block_func[p.code[j].block] = block_func[p.code[i].block]
                /\ p.code[i].block \in LiveIn(p.graph) => p.code[j].block \in LiveIn(p.graph)

ASSUME FuncInfoAssumption ==
    /\ Declared \subseteq Funcs /\ main \in Defined
    /\ NoFunc \notin Funcs
    /\ block_func \in [Blocks -> Defined]
    /\ entry \in [Defined -> Blocks]
    /\ \A f \in Defined : block_func[entry[f]] = f
    /\ \A p \in Programs : WellFormed(p)

VARIABLES
    graph,     \* the control flow graph of the module as it comes in
    code,      \* its instructions
    arrays,    \* its functions with an array parameter
    pc,        \* the part of the compiler that is running
    is_pure,   \* is_pure
    worklist   \* worklist, whose order does not matter

program_vars == <<graph, code, arrays>>
info_vars    == <<is_pure, worklist>>

Insts      == DOMAIN code
func_of(i) == block_func[code[i].block]
Live       == LiveIn(graph)

-----------------------------------------------------------------------------
InitInfo ==
    /\ \E p \in Programs : graph = p.graph /\ code = p.code /\ arrays = p.arrays
    /\ pc = "trivial"
    /\ is_pure = [f \in Funcs |-> FALSE]
    /\ worklist = {}

(* is_side_effect_inst; the address of a local access leads to an alloca    *)
(* through getelementptrs only (get_first_addr).                            *)
is_side_effect_inst(i) == code[i].op \in {"load", "store"} /\ code[i].addr # "local"

(* trivial_mark: the functions that are impure by themselves.               *)
trivial(f) ==
    \/ f \in Declared
    \/ f = main
    \/ f \in arrays
    \/ \E i \in Insts : func_of(i) = f /\ is_side_effect_inst(i)

(* The functions with a call of f: those of the users in f's use list.      *)
callers(f) == {func_of(i) : i \in {j \in Insts : code[j].op = "call" /\ code[j].callee = f}}

(* run, the first loop. *)
TrivialMark ==
    /\ pc = "trivial"
    /\ is_pure' = [f \in Funcs |-> ~trivial(f)]
    /\ worklist' = {f \in Funcs : trivial(f)}
    /\ pc' = "process"
    /\ UNCHANGED program_vars

(* Faulty: the caller is marked but its own callers are not considered.     *)
ProcessOnce(f) ==
    /\ pc = "process"
    /\ f \in worklist
    /\ is_pure' = [g \in Funcs |-> is_pure[g] /\ g \notin callers(f)]
    /\ worklist' = worklist \ {f}
    /\ UNCHANGED <<program_vars, pc>>

(* process: the callers of an impure function become impure.                *)
Process(f) ==
    /\ pc = "process"
    /\ f \in worklist
    /\ is_pure' = [g \in Funcs |-> is_pure[g] /\ g \notin callers(f)]
    /\ worklist' = (worklist \ {f}) \cup {g \in callers(f) : is_pure[g]}
    /\ UNCHANGED <<program_vars, pc>>

InfoNext == TrivialMark \/ \E f \in Funcs : Process(f)

-----------------------------------------------------------------------------
(* What makes a function impure is what it does to others (FuncInfo.hpp:12):*)
(* it writes a global or an array it was given, that is, memory whose       *)
(* address leads to no alloca of its own, it is a library function, or it   *)
(* calls one that is impure.  Reading has no effect.                        *)
has_effect(f) ==
    \/ f \in Declared
    \/ \E i \in Insts : func_of(i) = f /\ code[i].op = "store" /\ code[i].addr # "local"

Effective ==
    LET closed == {S \in SUBSET Funcs : /\ \A f \in Funcs : has_effect(f) => f \in S
                                        /\ \A f \in S : callers(f) \subseteq S}
    IN  {f \in Funcs : \A S \in closed : f \in S}

(* When the analysis is done, no function with an effect, through whatever  *)
(* chain or circle of calls, counts as pure: DeadCode drops the unused      *)
(* calls of the pure ones.  The other direction is not claimed: the code    *)
(* also marks main, functions that only read memory outside, and those with *)
(* an array parameter they leave alone, which costs a call at most.         *)
PuritySound ==
    pc \notin {"trivial", "process"} => \A f \in Effective : ~is_pure[f]
=============================================================================
