------------------------------ MODULE FlowGraph ------------------------------
(***************************************************************************)
(* Reference definitions over a control flow graph, given as the function  *)
(* from a block to its list of successors: what reachability, dominance    *)
(* and the dominance frontier are, independently of how the compiler       *)
(* computes them.                                                          *)
(***************************************************************************)
EXTENDS Naturals, FiniteSets, SequencesExt

(* The blocks on the paths from start that avoid a block.  A path without    *)
(* repetition takes as many steps as there are blocks with successors.       *)
Reach(succ, start, avoid) ==
    LET within[n \in Nat] ==
            IF n = 0 THEN {start} \ {avoid}
            ELSE LET near == within[n - 1]
                 IN  near \cup ((UNION {ToSet(succ[b]) : b \in near}) \ {avoid})
    IN  within[Cardinality({b \in DOMAIN succ : succ[b] # <<>>})]

(* The function that gives for every block what it dominates, itself        *)
(* included: every path from the entry to such a block goes through it.     *)
DominatedBy(succ, start) ==
    LET all == Reach(succ, start, 0)
    IN  [a \in all |-> all \ Reach(succ, start, a)]

(* The blocks in whose direct reach the dominance of a block ends: it       *)
(* dominates a predecessor but not, strictly, the block.  dom is a value of *)
(* DominatedBy.                                                             *)
Frontier(succ, dom, a) ==
    {b \in DOMAIN dom : /\ \E p \in dom[a] : b \in ToSet(succ[p])
                        /\ ~(b \in dom[a] /\ b # a)}

(* The children of a block in the dominator tree: no third block is between *)
(* them.                                                                    *)
Children(dom, a) ==
    {b \in dom[a] \ {a} : \A c \in dom[a] \ {a, b} : b \notin dom[c]}

(* The natural loop of a header: the header, and what reaches a branch from *)
(* a block it dominates back to it without passing it.                      *)
NaturalLoop(succ, start, header) ==
    LET dom     == DominatedBy(succ, start)
        latches == {p \in dom[header] : header \in ToSet(succ[p])}
    IN  {header} \cup {b \in DOMAIN dom : Reach(succ, b, header) \cap latches # {}}
=============================================================================
