------------------------------ MODULE PhiCopies ------------------------------
(***************************************************************************)
(* What the code generator makes of the phis (codegen/CodeGen.cpp): before *)
(* a branch, copy_stmt copies the operand of every phi of every successor  *)
(* into the stack slot of the phi, one after the other.  The function is   *)
(* the one Mem2Reg leaves, and it is executed with those copies; the slot  *)
(* of a value is env of that value.                                        *)
(***************************************************************************)
EXTENDS Mem2Reg

VARIABLE copied   \* the branches of this execution copy the phis

(* The slots after one copy: untouched where the phi has no operand for the *)
(* block ("undef").                                                         *)
Copied(slots, b, x, pre) ==
    IF incoming(b, x, pre) = NoValue THEN slots
    ELSE put(slots, phi_of(b, x), Val(slots, incoming(b, x, pre)))

(* Faulty: only the first phi of a block is copied.                         *)
copy_stmt_first(slots, bb) ==
    FoldLeft(LAMBDA s, b : IF phis[b] = <<>> THEN s ELSE Copied(s, b, phis[b][1], bb),
             slots, succ_bbs[bb])

(* copy_stmt: successors in list order, their phis in list order. *)
copy_stmt(slots, bb) ==
    FoldLeft(LAMBDA s, b : FoldLeft(LAMBDA t, x : Copied(t, b, x, bb), s, phis[b]),
             slots, succ_bbs[bb])

(* A branch: run calls copy_stmt, and gen_br, which it calls next, calls it *)
(* once more.                                                               *)
gen_br == BranchTo([b \in Blocks |-> copy_stmt(copy_stmt(env, at), at)])

(* A phi takes over the value of another phi that the same branch sets.     *)
Entangled ==
    \E bb \in Blocks : \E b \in ToSet(succ_bbs[bb]) : \E x \in ToSet(phis[b]) :
        incoming(b, x, bb) \in {phi_of(c, y) : c \in ToSet(succ_bbs[bb]), y \in Vars}
                               \ {phi_of(b, x)}

(* The function that Mem2Reg leaves, executed either way: with phis that    *)
(* take their values all at once, or, where no phi is entangled, with the   *)
(* copies of the code generator.                                            *)
InitBoth == Init /\ copied = FALSE

CallAs(way) ==
    /\ Call
    /\ copied' = way

NextBoth ==
    \/ (Compile \/ Execute) /\ UNCHANGED copied
    \/ \E way \in BOOLEAN : (way => ~Entangled) /\ CallAs(way)
    \/ ~copied /\ Branch /\ UNCHANGED copied
    \/ copied /\ gen_br /\ UNCHANGED copied

SpecBoth == InitBoth /\ [][NextBoth]_<<vars, copied>>

(* Every function, executed with the copies. *)
NextCopies ==
    \/ (Compile \/ Execute) /\ UNCHANGED copied
    \/ CallAs(TRUE)
    \/ copied /\ gen_br /\ UNCHANGED copied

SpecCopies == InitBoth /\ [][NextCopies]_<<vars, copied>>
=============================================================================
