------------------------------- MODULE MCLicm -------------------------------
(* Functions with a while around an if or an indexed variable, and with two  *)
(* and three loops inside one another, with every choice of the instructions *)
(* of their bodies from a few.                                               *)
EXTENDS Licm

CONSTANTS g, h

MCCells == {g, h}

phi(pairs)     == [op |-> "phi", args |-> pairs, cell |-> g]
plain(args)    == [op |-> "plain", args |-> args, cell |-> g]
load(c)        == [op |-> "load", args |-> <<>>, cell |-> c]
store(c, v)    == [op |-> "store", args |-> <<v>>, cell |-> c]
pure(v)        == [op |-> "pure", args |-> <<v>>, cell |-> g]
impure         == [op |-> "impure", args |-> <<>>, cell |-> g]
br(args)       == [op |-> "br", args |-> args]
ret(v)         == [op |-> "ret", args |-> <<v>>]

(* while (1) { 2; if (..) 3; 4 }                                            *)
IfInWhile(a, b, c, latch) ==
    [graph |-> << <<2>>, <<3, 6>>, <<4, 5>>, <<5>>, <<2>>, <<>> >>,
     code  |-> << <<>>, <<1>>, <<2, 3>>, <<4>>, <<>>, <<>> >>,
     inst  |-> << phi(<< <<Zero, 1>>, <<latch, 5>> >>), a, b, c >>,
     term  |-> << br(<<2>>), br(<<1, 3, 6>>), br(<<2, 4, 5>>), br(<<5>>), br(<<2>>), ret(1) >>]

(* while (1) { 3; while (2) { 4; 5 } 6 }                                    *)
WhileInWhile(a, b, c, d, latch) ==
    [graph |-> << <<2>>, <<3, 7>>, <<4>>, <<5, 6>>, <<4>>, <<2>>, <<>> >>,
     code  |-> << <<>>, <<1>>, <<3>>, <<2>>, <<4, 5>>, <<6>>, <<>> >>,
     inst  |-> << phi(<< <<Zero, 1>>, <<2, 6>> >>), phi(<< <<1, 3>>, <<latch, 5>> >>), a, b, c, d >>,
     term  |-> << br(<<2>>), br(<<1, 3, 7>>), br(<<4>>), br(<<2, 5, 6>>), br(<<4>>), br(<<2>>), ret(1) >>]

(* while (1) { v[..] }: a negative index leaves the function by block 4.     *)
IndexInWhile(a, b, c, latch) ==
    [graph |-> << <<2>>, <<3, 6>>, <<4, 5>>, <<>>, <<2>>, <<>> >>,
     code  |-> << <<>>, <<1>>, <<2>>, <<5>>, <<3, 4>>, <<>> >>,
     inst  |-> << phi(<< <<Zero, 1>>, <<latch, 5>> >>), a, b, c, impure >>,
     term  |-> << br(<<2>>), br(<<1, 3, 6>>), br(<<2, 4, 5>>), ret(Zero), br(<<2>>), ret(1) >>]

(* Three loops inside one another, the body of the innermost is block 7.     *)
ThreeWhiles(a, b, c, latch) ==
    [graph |-> << <<2>>, <<3, 10>>, <<4>>, <<5, 9>>, <<6>>, <<7, 8>>, <<6>>, <<4>>, <<2>>, <<>> >>,
     code  |-> << <<>>, <<1>>, <<>>, <<2>>, <<>>, <<3>>, <<4, 5>>, <<6>>, <<>>, <<>> >>,
     inst  |-> << phi(<< <<Zero, 1>>, <<2, 9>> >>), phi(<< <<1, 3>>, <<3, 8>> >>),
                  phi(<< <<2, 5>>, <<latch, 7>> >>), a, b, c >>,
     term  |-> << br(<<2>>), br(<<1, 3, 10>>), br(<<4>>), br(<<2, 5, 9>>), br(<<6>>),
                  br(<<3, 7, 8>>), br(<<6>>), br(<<4>>), br(<<2>>), ret(1) >>]

(* DeadCode has run: what is computed is used, and what is used is a value. *)
Alive(p) ==
    LET given(i) == IF p.inst[i].op = "phi" THEN {x[1] : x \in ToSet(p.inst[i].args)}
                    ELSE ToSet(p.inst[i].args)
        ends     == {t.args[1] : t \in {t \in ToSet(p.term) : t.op = "ret" \/ Len(t.args) = 3}}
        values   == {i \in DOMAIN p.inst : p.inst[i].op \notin {"store", "impure"}}
    IN  /\ \A i \in values : i \in ends \cup UNION {given(j) : j \in DOMAIN p.inst \ {i}}
        /\ \A i \in DOMAIN p.inst : given(i) \subseteq values \cup {Zero}

MCPrograms ==
    {p \in
        {IfInWhile(a, b, c, l) :
            a \in {plain(<<1>>), plain(<<Zero>>), load(g), pure(Zero)},
            b \in {plain(<<2>>), plain(<<2, 1>>), store(g, 2), store(h, 1), impure, load(h)},
            c \in {store(h, 2), store(h, 3), store(g, 3), impure},
            l \in {1, 2, 3}}
        \cup
        {WhileInWhile(a, b, c, d, l) :
            a \in {plain(<<Zero>>), plain(<<1>>), load(g)},
            b \in {load(h), plain(<<3>>), pure(3), plain(<<1, 2>>)},
            c \in {plain(<<4>>), plain(<<2, 4>>), store(g, 4), impure},
            d \in {load(h), store(g, 3), store(h, 2), store(g, 1)},
            l \in {2, 3, 4, 5}}
        \cup
        {IndexInWhile(a, b, c, l) :
            a \in {plain(<<Zero>>), plain(<<1>>), load(h)},
            b \in {load(g), pure(2), plain(<<2>>)},
            c \in {store(g, 3), store(h, 1), store(h, 3), plain(<<3, 2>>)},
            l \in {2, 3, 4}}
        \cup
        {ThreeWhiles(a, b, c, l) :
            a \in {load(g), plain(<<1>>), plain(<<2>>)},
            b \in {plain(<<4>>), plain(<<4, 2>>), pure(4)},
            c \in {store(h, 3), store(h, 2), impure},
            l \in {3, 4, 5}}
     : Quiet(p) /\ Alive(p)}

(* A loop that adds up in a global variable: while (..) g = g + 1.          *)
Accumulate == {IfInWhile(load(g), plain(<<2>>), store(g, 3), 2)}
=============================================================================
