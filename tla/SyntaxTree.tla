----------------------------- MODULE SyntaxTree -----------------------------
(* The syntax tree the parser hands over and the tree ast.cpp makes of it:  *)
(* nested nodes named after the productions of syntax_analyzer.y on one     *)
(* side, the AST classes on the other. An absent child is the empty         *)
(* sequence, a present one a sequence of length one. A token is a node      *)
(* without children; the text of a number is the number.                    *)
EXTENDS Integers, SequencesExt

node(name, children) == [name |-> name, children |-> children]
token(name) == node(name, <<>>)
epsilon == token("epsilon")

Name(n, i) == n.children[i].name
Op(n) == Name(n.children[2], 1)
TypeName(n) == Name(n.children[1], 1)

RECURSIVE transform_node_iter(_), pushed(_, _)

(* Left recursive lists are walked from the right: the last child of every  *)
(* list node of the given length is pushed on a stack.                      *)
pushed(list, length) ==
  IF Len(list.children) = length
  THEN <<Last(list.children)>> \o pushed(list.children[1], length)
  ELSE <<>>

RECURSIVE innermost(_, _)
innermost(list, length) ==
  IF Len(list.children) = length
  THEN innermost(list.children[1], length)
  ELSE list

(* Popping the stack restores the order of the text.                        *)
popped(stack) == [i \in DOMAIN stack |-> transform_node_iter(Reverse(stack)[i])]

(* A list that ends in one element, and a list that ends in nothing.        *)
elements(list, length) ==
  popped(Append(pushed(list, length), innermost(list, length).children[1]))
elements_of_empty(list) == popped(pushed(list, 2))

Program(n) == [k |-> "Program", declarations |-> elements(n.children[1], 2)]

VarDeclaration(n) ==
  [k |-> "VarDeclaration",
   type |-> IF TypeName(n) = "int" THEN "int" ELSE "float",
   id |-> Name(n, 2),
   num |-> IF Len(n.children) = 6 THEN <<Name(n, 4)>> ELSE <<>>]

Param(n) ==
  [k |-> "Param",
   type |-> IF TypeName(n) = "int" THEN "int" ELSE "float",
   id |-> Name(n, 2),
   isarray |-> Len(n.children) > 2]

FunDeclaration(n) ==
  LET list == n.children[4].children[1] IN
  [k |-> "FunDeclaration",
   type |-> TypeName(n),
   id |-> Name(n, 2),
   params |-> IF list.children = <<>> THEN <<>> ELSE elements(list, 3),
   compound_stmt |-> transform_node_iter(n.children[6])]

CompoundStmt(n) ==
  [k |-> "CompoundStmt",
   local_declarations |-> elements_of_empty(n.children[2]),
   statement_list |-> elements_of_empty(n.children[3])]

ExpressionStmt(n) ==
  [k |-> "ExpressionStmt",
   expression |-> IF Len(n.children) = 2
                  THEN <<transform_node_iter(n.children[1])>> ELSE <<>>]

SelectionStmt(n) ==
  [k |-> "SelectionStmt",
   expression |-> transform_node_iter(n.children[3]),
   if_statement |-> transform_node_iter(n.children[5]),
   else_statement |-> IF Len(n.children) = 7
                      THEN <<transform_node_iter(n.children[7])>> ELSE <<>>]

IterationStmt(n) ==
  [k |-> "IterationStmt",
   expression |-> transform_node_iter(n.children[3]),
   statement |-> transform_node_iter(n.children[5])]

ReturnStmt(n) ==
  [k |-> "ReturnStmt",
   expression |-> IF Len(n.children) = 3
                  THEN <<transform_node_iter(n.children[2])>> ELSE <<>>]

Expression(n) ==
  IF Len(n.children) = 1
  THEN transform_node_iter(n.children[1])
  ELSE [k |-> "AssignExpression",
        var |-> transform_node_iter(n.children[1]),
        expression |-> transform_node_iter(n.children[3])]

Var(n) ==
  [k |-> "Var",
   id |-> Name(n, 1),
   expression |-> IF Len(n.children) = 4
                  THEN <<transform_node_iter(n.children[3])>> ELSE <<>>]

SimpleExpression(n) ==
  LET binary == Len(n.children) = 3 IN
  [k |-> "SimpleExpression",
   l |-> transform_node_iter(n.children[1]),
   op |-> IF binary THEN Op(n) ELSE "none",
   r |-> IF binary THEN <<transform_node_iter(n.children[3])>> ELSE <<>>]

(* An additive expression and a term keep the left operand in the recursive *)
(* field and the right one in the other: both associate to the left.        *)
AdditiveExpression(n) ==
  LET binary == Len(n.children) = 3 IN
  [k |-> "AdditiveExpression",
   l |-> IF binary THEN <<transform_node_iter(n.children[1])>> ELSE <<>>,
   op |-> IF binary THEN Op(n) ELSE "none",
   r |-> transform_node_iter(Last(n.children))]

Term(n) == [AdditiveExpression(n) EXCEPT !.k = "Term"]

(* Parentheses leave no trace.                                              *)
Factor(n) ==
  LET inner == n.children[IF Len(n.children) = 3 THEN 2 ELSE 1] IN
  IF inner.name \in {"expression", "var", "call"}
  THEN transform_node_iter(inner)
  ELSE [k |-> "Num",
        type |-> IF inner.name = "integer" THEN "int" ELSE "float",
        val |-> Name(inner, 1)]

(* Faulty: the arguments in the order they were pushed.                     *)
Call_unreversed(n) ==
  LET args == n.children[3].children[1] IN
  [k |-> "Call",
   id |-> Name(n, 1),
   args |-> IF args.name = "arg-list" THEN Reverse(elements(args, 3)) ELSE <<>>]

Call(n) ==
  LET args == n.children[3].children[1] IN
  [k |-> "Call",
   id |-> Name(n, 1),
   args |-> IF args.name = "arg-list" THEN elements(args, 3) ELSE <<>>]

transform_node_iter(n) ==
  CASE n.name = "program" -> Program(n)
    [] n.name \in {"declaration", "statement"} ->
         transform_node_iter(n.children[1])
    [] n.name = "var-declaration" -> VarDeclaration(n)
    [] n.name = "fun-declaration" -> FunDeclaration(n)
    [] n.name = "param" -> Param(n)
    [] n.name = "compound-stmt" -> CompoundStmt(n)
    [] n.name = "expression-stmt" -> ExpressionStmt(n)
    [] n.name = "selection-stmt" -> SelectionStmt(n)
    [] n.name = "iteration-stmt" -> IterationStmt(n)
    [] n.name = "return-stmt" -> ReturnStmt(n)
    [] n.name = "expression" -> Expression(n)
    [] n.name = "var" -> Var(n)
    [] n.name = "simple-expression" -> SimpleExpression(n)
    [] n.name = "additive-expression" -> AdditiveExpression(n)
    [] n.name = "term" -> Term(n)
    [] n.name = "factor" -> Factor(n)
    [] n.name = "call" -> Call(n)
=============================================================================
