----------------------------- MODULE MCPhiCopies -----------------------------
(* Graphs that CminusfBuilder makes, with one to six blocks, and all        *)
(* programs over them with MaxInstrs loads and stores of two variables;     *)
(* and one program with entangled phis:                                     *)
(*     x = ..; y = ..;  while (..) { x = y; y = ..; }                       *)
EXTENDS PhiCopies

CONSTANTS vx, vy

MCVars == {vx, vy}
Swap   == Permutations(MCVars)

IfElse      == << <<2, 3>>, <<4>>, <<4>>, <<>> >>
While       == << <<2>>, <<3, 4>>, <<2>>, <<>> >>
IfInWhile   == << <<2>>, <<3, 6>>, <<4, 5>>, <<5>>, <<2>>, <<>> >>
WhileInIf   == << <<2, 6>>, <<3>>, <<4, 5>>, <<3>>, <<6>>, <<>> >>
\* both branches of an if return, and the block after it is left unreachable
BothReturn  == << <<2, 3>>, <<>>, <<>>, <<>> >>

MCGraphs == {IfElse, While, IfInWhile, WhileInIf, BothReturn}
OneGraph == {While}

store(v, l) == [op |-> "store", var |-> v, rval |-> l]
load(v)     == [op |-> "load", var |-> v, rval |-> 0]

Shift == << <<store(vx, 0), store(vy, 0)>>, <<>>, <<load(vy), store(vx, 1), store(vy, 0)>>, <<>> >>

(* Only this program is written, and all of it. *)
NextShift ==
    /\ NextCopies
    /\ \A b \in Blocks : IsPrefix(code'[b], Shift[b])
    /\ phase' = "write" \/ code = Shift

SpecShift == InitBoth /\ [][NextShift]_<<vars, copied>>
=============================================================================
