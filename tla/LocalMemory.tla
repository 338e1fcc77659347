----------------------------- MODULE LocalMemory -----------------------------
(***************************************************************************)
(* What a function does to its local variables: it walks along its control *)
(* flow graph; a store writes a variable, a load reads what was written    *)
(* last.  This is what the program text says, and what every form the      *)
(* compiler gives the function has to keep.                                *)
(***************************************************************************)
EXTENDS Naturals, Sequences

CONSTANTS
    Vars,      \* local variables
    Vals,      \* values a program computes
    unset      \* what a variable holds before its first store

NoBlock == 0

VARIABLES
    code,      \* the loads and stores of every block
    succ_bbs,  \* the successors of every block
    at,        \* the block that is executed, NoBlock before the call
    mem,       \* what the variables hold
    reg        \* the results of the block's instructions so far

vars == <<code, succ_bbs, at, mem, reg>>

instr == code[at][Len(reg) + 1]
More  == at # NoBlock /\ Len(reg) < Len(code[at])

Init == at = NoBlock /\ mem = [x \in Vars |-> unset] /\ reg = <<>>

(* The function is still being written. *)
Write == at = NoBlock /\ UNCHANGED <<at, mem, reg>>

Call ==
    /\ at = NoBlock
    /\ at' = 1
    /\ UNCHANGED <<code, succ_bbs, mem, reg>>

Load ==
    /\ More
    /\ instr.op = "load"
    /\ reg' = Append(reg, mem[instr.var])
    /\ UNCHANGED <<code, succ_bbs, at, mem>>

(* rval is 0 for a value that is computed, or the load whose result is      *)
(* stored.                                                                  *)
Store(v) ==
    /\ More
    /\ instr.op = "store"
    /\ instr.rval # 0 => v = reg[instr.rval]
    /\ mem' = [mem EXCEPT ![instr.var] = v]
    /\ reg' = Append(reg, v)
    /\ UNCHANGED <<code, succ_bbs, at>>

Branch ==
    /\ at # NoBlock /\ ~More
    /\ \E i \in DOMAIN succ_bbs[at] : at' = succ_bbs[at][i]
    /\ reg' = <<>>
    /\ UNCHANGED <<code, succ_bbs, mem>>

Next == Write \/ Call \/ Load \/ (\E v \in Vals \cup {unset} : Store(v)) \/ Branch

Spec == Init /\ [][Next]_vars
=============================================================================
