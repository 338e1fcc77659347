--------------------------- MODULE MCStaleNumbers ---------------------------
(* One module of two functions, compiled and analysed:                      *)
(*     void f(void) { if (c) while (d) s; else while (e) t; }               *)
(*     void g(void) { }                                                     *)
(* Blocks 1 .. 10 are f, block 11 is g.                                     *)
EXTENDS Analysis

graph == << <<2, 3>>, <<5>>, <<8>>, <<>>, <<6, 7>>, <<5>>, <<4>>,
            <<9, 10>>, <<8>>, <<4>>, <<>> >>

(* The builder takes the branches that make this graph. *)
ThisProgram ==
    /\ \A b \in Blocks : succ_bbs'[b] \in {<<>>, graph[b]}
    /\ built' >= 1 => Len(basic_blocks'[1]) = 10

SpecStale ==
    /\ InitAnalysis
    /\ [][NextAnalysis /\ ThisProgram]_all_vars
    /\ WF_all_vars(Run)

AnalysisEnds == D!AnalysisEnds
=============================================================================
