----------------------------- MODULE MCDeadCode -----------------------------
(* main, two functions that may call one another, and a library function.   *)
(* Block 1 is main, 2 .. 4 are f, 5 is g.                                   *)
EXTENDS DeadCode

CONSTANTS f, g, lib

MCFuncs  == {main, f, g, lib}
MCBlocks == 1 .. 5
MCParent == [b \in MCBlocks |-> IF b = 1 THEN main ELSE IF b = 5 THEN g ELSE f]
MCEntry  == [h \in {main, f, g} |-> IF h = main THEN 1 ELSE IF h = f THEN 2 ELSE 5]

MCGraphs == {
    << {}, {3}, {4}, {3}, {} >>,    \* a loop
    << {}, {}, {4}, {}, {} >>,      \* two blocks that are deleted in turn
    << {}, {}, {4}, {4}, {} >> }    \* a block that is, and a loop that is not

inst(op, addr, callee, b, us) ==
    [op |-> op, addr |-> addr, callee |-> callee, block |-> b, uses |-> us]
plain(b, us)      == inst("plain", "local", NoFunc, b, us)
phi(b, us)        == inst("phi", "local", NoFunc, b, us)
br(b, us)         == inst("br", "local", NoFunc, b, us)
load(addr, b, us) == inst("load", addr, NoFunc, b, us)
store(addr, b, us) == inst("store", addr, NoFunc, b, us)
call(h, b)        == inst("call", "local", h, b, {})

(* A call in main; in f an alloca, a phi that may be used in its own        *)
(* operand, what it is computed from and something that uses one of them;   *)
(* one instruction in g.                                                    *)
Codes ==
    {<<call(f, 1), plain(2, {}), phi(b, us), i4, i5, i6>> :
        b \in {2, 4}, us \in {{2}, {2, 4}},
        i4 \in {plain(4, {3}), load("other", 4, {3}), store("other", 4, {3}),
               call(f, 4), call(g, 4)},
        i5 \in {store("local", 4, {u}) : u \in {3, 4}}
              \cup {br(c, {2}) : c \in {2, 3}} \cup {call(g, 3)},
        i6 \in {call(f, 5), call(lib, 5), plain(5, {})}}

MCPrograms ==
    {p \in [graph : MCGraphs, code : Codes, arrays : {{}, {f}}] : WellFormed(p)}
=============================================================================
