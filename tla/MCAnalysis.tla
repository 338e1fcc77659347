----------------------------- MODULE MCAnalysis -----------------------------
(* All modules of up to AnyShape basic blocks, and those that only nest or   *)
(* sequence while statements in their first function up to MaxBlocks: three  *)
(* loops inside one another take ten blocks.                                 *)
EXTENDS Analysis

CONSTANT AnyShape

(* Every block with two ways to go is the condition of a while: only those   *)
(* are entered by an unconditional branch from a block created before.       *)
OnlyWhiles ==
    \A b \in Blocks : Len(succ_bbs'[b]) = 2 =>
        \E a \in 1 .. b - 1 : succ_bbs'[a] = <<b>>

InBounds == Cardinality(UNION {ToSet(basic_blocks'[f]) : f \in Funcs}) > AnyShape
                => OnlyWhiles /\ \A f \in Funcs \ {1} : Len(basic_blocks'[f]) <= 1

SpecMC == InitAnalysis /\ [][NextAnalysis /\ InBounds]_all_vars /\ WF_all_vars(Run)
=============================================================================
