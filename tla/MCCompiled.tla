----------------------------- MODULE MCCompiled -----------------------------
(* Programs for Compiled, written with one constructor per production of    *)
(* the grammar.                                                             *)
EXTENDS Compiled

InSomeOrder(S) == FoldSet(LAMBDA x, s : Append(s, x), <<>>, S)

T(text) == token(text)
integer(i) == node("factor", <<node("integer", <<T(i)>>)>>)
quarters(q) == node("factor", <<node("float", <<T(q)>>)>>)
id(x) == node("var", <<T(x)>>)
at(x, e) == node("var", <<T(x), T("["), e, T("]")>>)
var(v) == node("factor", <<v>>)
paren(e) == node("factor", <<T("("), e, T(")")>>)
ArgList(es) ==
  FoldLeft(LAMBDA l, e : node("arg-list", <<l, T(","), e>>),
           node("arg-list", <<Head(es)>>), Tail(es))
call(f, es) ==
  node("factor", <<node("call", <<T(f), T("("),
    node("args", IF es = <<>> THEN <<epsilon>> ELSE <<ArgList(es)>>), T(")")>>)>>)

term(f) == node("term", <<f>>)
mul(t, op, f) == node("term", <<t, node("mulop", <<T(op)>>), f>>)
sum(t) == node("additive-expression", <<t>>)
add(a, op, t) == node("additive-expression", <<a, node("addop", <<T(op)>>), t>>)
expr(a) == node("expression", <<node("simple-expression", <<a>>)>>)
rel(a, op, b) ==
  node("expression", <<node("simple-expression", <<a, node("relop", <<T(op)>>), b>>)>>)
assign(v, e) == node("expression", <<v, T("="), e>>)

fac(f) == sum(term(f))
one(f) == expr(fac(f))
V(x) == var(id(x))
cmp(f, op, g) == rel(fac(f), op, fac(g))
minus(f) == paren(expr(add(fac(integer(0)), "-", term(f))))

stmt(n) == node("statement", <<n>>)
do(e) == stmt(node("expression-stmt", <<e, T(";")>>))
empty == stmt(node("expression-stmt", <<T(";")>>))
if(e, s) == stmt(node("selection-stmt", <<T("if"), T("("), e, T(")"), s>>))
ifelse(e, s, r) ==
  stmt(node("selection-stmt", <<T("if"), T("("), e, T(")"), s, T("else"), r>>))
while(e, s) == stmt(node("iteration-stmt", <<T("while"), T("("), e, T(")"), s>>))
return(e) == stmt(node("return-stmt", <<T("return"), e, T(";")>>))
leave == stmt(node("return-stmt", <<T("return"), T(";")>>))
type(t) == node("type-specifier", <<T(t)>>)
decl(t, x) == node("var-declaration", <<type(t), T(x), T(";")>>)
array(t, x, n) ==
  node("var-declaration", <<type(t), T(x), T("["), T(n), T("]"), T(";")>>)
listed(name, items) ==
  FoldLeft(LAMBDA l, i : node(name, <<l, i>>), node(name, <<epsilon>>), items)
body(decls, stmts) ==
  node("compound-stmt", <<T("{"), listed("local-declarations", decls),
                          listed("statement-list", stmts), T("}")>>)
block(decls, stmts) == stmt(body(decls, stmts))
param(t, x) == node("param", <<type(t), T(x)>>)
arrayparam(t, x) == node("param", <<type(t), T(x), T("["), T("]")>>)
ParamList(ps) ==
  FoldLeft(LAMBDA l, p : node("param-list", <<l, T(","), p>>),
           node("param-list", <<Head(ps)>>), Tail(ps))
fun(t, f, ps, b) ==
  node("fun-declaration", <<type(t), T(f), T("("),
    node("params", IF ps = <<>> THEN <<T("void")>> ELSE <<ParamList(ps)>>), T(")"), b>>)
file(ds) ==
  node("program", <<FoldLeft(LAMBDA l, d : node("declaration-list", <<l, node("declaration", <<d>>)>>),
                             node("declaration-list", <<node("declaration", <<Head(ds)>>)>>),
                             Tail(ds))>>)
out(e) == do(one(call("output", <<e>>)))
outf(e) == do(one(call("outputFloat", <<e>>)))
P(ds, inputs) == [tree |-> file(ds), inputs |-> inputs]
main(decls, stmts) == fun("void", "main", <<>>, body(decls, stmts))
ReadInput(x) == do(assign(id(x), one(call("input", <<>>))))

(* Arithmetic over both types: x op y op z for the operators of both        *)
(* levels, small and large constants, each result converted by what takes   *)
(* it.                                                                      *)
Operands == << <<V("a"), V("x"), integer(300)>>, <<V("x"), V("a"), quarters(6)>>,
               <<V("a"), integer(7), V("a")>>, <<minus(V("a")), quarters(1500), V("x")>> >>
Chains(f, o, p) ==
  << expr(add(add(fac(f[1]), o, term(f[2])), p, term(f[3]))),
     expr(add(fac(f[1]), o, mul(term(f[2]), IF p = "+" THEN "*" ELSE "/", f[3]))),
     expr(sum(mul(mul(term(f[1]), IF o = "+" THEN "*" ELSE "/", f[2]),
                  IF p = "+" THEN "*" ELSE "/", f[3]))) >>
Arithmetics ==
  InSomeOrder((DOMAIN Operands) \X {"+", "-"} \X {"+", "-"} \X (1..3) \X {3, -5})
ArithmeticPrograms ==
  [k \in DOMAIN Arithmetics |->
     LET a == Arithmetics[k]
         e == Chains(Operands[a[1]], a[2], a[3])[a[4]]
     IN P(<<decl("float", "x"),
            main(<<decl("int", "a")>>,
                 <<ReadInput("a"),
                   do(assign(id("x"), assign(id("a"), expr(add(fac(V("a")), "+", term(quarters(7))))))),
                   out(e), outf(e)>>)>>,
          <<a[5]>>)]

(* Comparisons in functions that keep their conditions in the slot: as a    *)
(* value, in both branches of an if, in a while.                            *)
Relations == InSomeOrder({"<", "<=", ">", ">=", "==", "!="} \X {-1, 2, 3})
IntComparisons ==
  [k \in DOMAIN Relations |->
     LET c == cmp(V("a"), Relations[k][1], integer(2))
     IN P(<<main(<<decl("int", "a")>>,
                 <<ReadInput("a"),
                   ifelse(c, out(one(integer(1))), empty),
                   out(expr(add(fac(integer(3)), "+", term(paren(c))))),
                   while(c, ifelse(one(V("a")), block(<<>>, <<leave>>),
                                   if(c, block(<<>>, <<out(one(V("a"))), leave>>))))>>)>>,
          <<Relations[k][2]>>)]

(* Comparisons of floats where the condition is in the flag register: in    *)
(* functions of type float, with no other condition than float ones.        *)
FloatComparisons ==
  [k \in DOMAIN Relations |->
     LET c == cmp(V("x"), Relations[k][1], quarters(8))
     IN P(<<fun("float", "f", <<param("float", "x"), param("float", "y")>>,
                body(<<>>,
                     <<if(c, return(one(V("y")))),
                       while(one(V("y")),
                             do(assign(id("y"), expr(add(fac(V("y")), "-", term(integer(1))))))),
                       ifelse(cmp(V("y"), Relations[k][1], V("x")),
                              do(assign(id("x"), one(integer(9)))), return(cmp(V("x"), ">", V("x"))))>>)),
            main(<<>>, <<outf(one(call("f", <<one(call("input", <<>>)), one(integer(2))>>)))>>)>>,
          <<Relations[k][2]>>)]

(* Arrays: local, global and passed on, indexed by ints, floats and         *)
(* elements, on either side of an assignment, with a negative index last.   *)
Double1(e) == expr(sum(mul(term(integer(2)), "*", paren(e))))
ArrayPrograms ==
  [k \in 1..4 |->
     P(<<array("float", "g", 3), decl("int", "i"),
         fun("int", "f", <<arrayparam("int", "b"), param("int", "n"), arrayparam("float", "h")>>,
             body(<<>>, <<do(assign(at("b", one(V("n"))), assign(at("h", one(integer(1))), one(quarters(7))))),
                          return(one(var(at("b", cmp(V("n"), ">", integer(0))))))>>)),
         main(<<array("int", "a", 3)>>,
              <<do(assign(at("a", one(integer(0))), assign(at("a", one(quarters(7))), one(integer(1))))),
                do(assign(at("a", one(var(at("a", one(var(at("a", one(integer(1))))))))),
                          one(call("f", <<one(V("a")), one(integer(2)), one(V("g"))>>)))),
                do(assign(id("i"), one(call("input", <<>>)))),
                outf(one(var(at("g", assign(id("i"), expr(add(fac(V("i")), "+", term(integer(1))))))))),
                out(expr(add(fac(var(at("a", one(V("i"))))), "+", term(var(at("a", one(integer(2))))))))>>)>>,
       <<k - 3>>)]

(* Calls: arguments of both classes in every order, converted, evaluated    *)
(* from left to right; recursion; results that are dropped; functions that  *)
(* end without a return.                                                    *)
CallPrograms ==
  [k \in 1..3 |->
     P(<<decl("int", "n"),
         fun("int", "next", <<>>, body(<<>>, <<return(assign(id("n"), expr(add(fac(V("n")), "+", term(integer(1))))))>>)),
         fun("float", "mix", <<param("int", "a"), param("float", "x"), param("int", "b"), param("float", "y")>>,
             body(<<>>, <<do(one(call("next", <<>>))), outf(one(V("x"))), outf(one(V("y"))), out(one(V("a"))),
                          if(cmp(V("y"), ">", V("x")),
                             return(expr(add(fac(V("a")), "-", term(V("b"))))))>>)),
         fun("int", "fact", <<param("int", "m")>>,
             body(<<>>, <<if(cmp(V("m"), "<=", integer(1)), return(one(quarters(4)))),
                          return(expr(sum(mul(term(V("m")), "*",
                            call("fact", <<expr(add(fac(V("m")), "-", term(integer(1))))>>)))))>>)),
         fun("int", "main", <<>>, body(<<>>,
              <<do(one(call("mix", <<one(call("next", <<>>)), one(call("next", <<>>)),
                                     one(quarters(10)), one(call("input", <<>>))>>))),
                return(expr(add(fac(call("fact", <<one(V("n"))>>)), "+", term(V("n")))))>>))>>,
       <<k>>)]

(* Scopes: a parameter, a local and a global of one name; blocks that end   *)
(* early; the else of the nearest if.                                       *)
ScopePrograms ==
  [k \in 1..3 |->
     P(<<decl("float", "v"),
         fun("int", "f", <<param("int", "v")>>,
             body(<<>>, <<block(<<decl("float", "v")>>,
                                <<do(assign(id("v"), one(quarters(6)))),
                                  block(<<decl("int", "v")>>, <<do(assign(id("v"), one(integer(256)))), out(one(V("v")))>>),
                                  outf(one(V("v")))>>),
                          if(one(V("v")), ifelse(cmp(V("v"), "==", integer(2)), return(one(V("v"))),
                                                 return(one(minus(V("v")))))),
                          out(one(integer(99)))>>)),
         main(<<>>,
              <<do(assign(id("v"), one(call("f", <<one(call("input", <<>>))>>)))),
                outf(one(V("v"))),
                while(one(integer(1)), block(<<>>, <<leave, out(one(integer(98)))>>)),
                out(one(integer(97)))>>)>>,
       <<k - 1>>)]

(* Assignments whose index and right side affect each other: a call on the  *)
(* left changes what the right reads, the right side changes the index, and *)
(* an output on the right comes before a negative index, or after it.       *)
OrderPrograms ==
  [k \in 1..4 |->
     P(<<decl("int", "n"), array("float", "g", 4),
         fun("int", "next", <<>>, body(<<>>, <<return(assign(id("n"), expr(add(fac(V("n")), "+", term(integer(1))))))>>)),
         fun("int", "say", <<param("int", "m")>>, body(<<>>, <<out(one(V("m"))), return(one(V("m")))>>)),
         main(<<array("int", "a", 4)>>,
              <<ReadInput("n"),
                do(assign(at("a", one(call("next", <<>>))), one(V("n")))),
                out(one(var(at("a", one(V("n")))))),
                do(assign(at("g", one(V("n"))), assign(id("n"), expr(add(fac(V("n")), "+", term(integer(1))))))),
                outf(one(var(at("g", one(V("n")))))),
                do(assign(at("a", one(minus(V("n")))), one(call("say", <<one(V("n"))>>))))>>)>>,
       <<k - 3>>)]

Legal == ArithmeticPrograms \o IntComparisons \o FloatComparisons \o ArrayPrograms
         \o CallPrograms \o ScopePrograms \o OrderPrograms

(* What the flag register is not enough for: a comparison of floats in a    *)
(* function that is not of type float, and a condition on integers - here   *)
(* the check of an index - in one that is.                                  *)
FlagPrograms ==
  << P(<<main(<<decl("float", "x")>>,
              <<do(assign(id("x"), one(quarters(2)))),
                ifelse(cmp(V("x"), "<", quarters(4)), out(one(integer(1))), out(one(integer(2))))>>)>>, <<>>),
     P(<<array("float", "g", 2),
         fun("float", "f", <<param("float", "x")>>,
             body(<<>>, <<if(cmp(V("x"), "<", quarters(4)), do(assign(id("x"), one(var(at("g", one(integer(1)))))))),
                          return(one(V("x")))>>)),
         main(<<>>, <<outf(one(call("f", <<one(quarters(2))>>)))>>)>>, <<>>) >>
=============================================================================
