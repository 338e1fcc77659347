------------------------------ MODULE MCUseDef ------------------------------
(* One phi, one two-operand instruction and two blocks: the phi can trim    *)
(* its first or its second pair, the instruction can use one value twice.   *)
EXTENDS UseDef

CONSTANTS phi, add, b1, b2

MCUsers  == {phi, add}
MCBlocks == {b1, b2}
MCValues == MCUsers \cup MCBlocks
MCPhis   == {phi}
=============================================================================
